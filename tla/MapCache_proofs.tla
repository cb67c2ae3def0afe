-------------------------- MODULE MapCache_proofs ---------------------------
(***************************************************************************)
(* The mappings of the secondary allocator and its cache, for any threads, *)
(* blocks, settings and sizes of the quarantine and the cache: a mapping   *)
(* is with one keeper, what is recorded as released holds zeros, no block  *)
(* of the client is closed or cleared, and a release that returns early    *)
(* has skipped no more entries than the quarantine has slots.              *)
(***************************************************************************)
EXTENDS MapCache, FiniteSetTheorems, SequenceTheorems, WellFoundedInduction, TLAPS

-----------------------------------------------------------------------------
(* The invariant.                                                          *)

Entry == [block : Blocks, time : Nat]
Frame == [tag : BOOLEAN, size : Nat, every : Int, now : Nat,
          entry : Entry \cup {NoEntry}, evicted : SUBSET Blocks]

\* Stages in which a call has a block in hand, and those in which it has none.
WithBlock == {"use", "unmap", "prepare", "lock", "evict"}
WithoutBlock == {"idle", "retrieve", "map", "drop", "release"}

CacheTypes ==
    /\ mutex \in Threads \cup {None}
    /\ lru \in Seq(Entry)
    /\ quarantine \in [Slots -> Entry \cup {NoEntry}]
    /\ quarPos \in Int
    /\ oldest \in Nat
    /\ maxEntries \in Nat /\ interval \in Int /\ tagging \in BOOLEAN
    /\ clock \in Nat \ {0}
    /\ mapped \subseteq Blocks /\ live \subseteq Blocks
    /\ pc \in [Threads -> WithBlock \cup WithoutBlock]
    /\ frame \in [Threads -> Frame]

\* What a call has in its locals at each stage, and which one has Mutex.
InFrame(t) ==
    /\ frame[t].entry # NoEntry <=> pc[t] \in WithBlock
    /\ frame[t].evicted # {} => pc[t] \in {"evict", "drop"}
    /\ pc[t] = "evict" <=> mutex = t

\* The blocks of a list of entries, and a list that has none twice.
BlocksIn(s) == {s[i].block : i \in DOMAIN s}
Distinct(s) == \A i, j \in DOMAIN s : s[i].block = s[j].block => i = j

\* Block b is not with two keepers.
Exclusive(b) ==
    /\ b \in live => b \notin BlocksIn(lru)
    /\ \A s \in Slots : quarantine[s].block = b =>
          /\ b \notin live /\ b \notin BlocksIn(lru)
          /\ \A r \in Slots : quarantine[r].block = b => r = s
    /\ \A t \in Threads : Block(t) = b =>
          /\ b \notin live /\ b \notin BlocksIn(lru)
          /\ \A s \in Slots : quarantine[s].block # b
          /\ \A u \in Threads : Block(u) = b => u = t
    /\ \A t \in Threads : b \in frame[t].evicted =>
          /\ b \notin live /\ b \notin BlocksIn(lru)
          /\ \A s \in Slots : quarantine[s].block # b
          /\ \A u \in Threads : Block(u) # b
          /\ \A u \in Threads : b \in frame[u].evicted => u = t

\* It is with one exactly when it is mapped.
Kept(b) ==
    b \in mapped <=>
        \/ b \in live
        \/ b \in BlocksIn(lru)
        \/ \E s \in Slots : quarantine[s].block = b
        \/ \E t \in Threads : Block(t) = b
        \/ \E t \in Threads : b \in frame[t].evicted

Keeping == Distinct(lru) /\ \A b \in Blocks : Exclusive(b) /\ Kept(b)

\* Time 0 says that the memory has only zeros, wherever the entry is.
Zeroed(e) == e # NoEntry /\ e.time = 0 => e.block \in zeroed

ZerosKnown ==
    /\ zeroed \subseteq mapped
    /\ zeroed \cap live = {}
    /\ \A i \in DOMAIN lru : Zeroed(lru[i])
    /\ \A s \in Slots : Zeroed(quarantine[s])
    /\ \A t \in Threads : Zeroed(frame[t].entry)

\* A call that read Options without tagging knows that tagging is off for good, and so
\* that the cache was opened or nothing was ever closed; what it has in hand is open.
UntaggedAt(t) ==
    /\ pc[t] # "idle" /\ ~frame[t].tag => ~tagging
    /\ pc[t] \in {"use", "prepare", "lock", "evict"} /\ ~frame[t].tag
          => Block(t) \notin guarded
    /\ pc[t] = "evict" /\ quarPos = -1 => Block(t) \notin guarded

GuardsKnown ==
    /\ guarded \subseteq mapped
    /\ guarded \cap live = {}
    /\ ~tagging => quarPos = -1 \/ (guarded = {} /\ \A t \in Threads : ~frame[t].tag)
    /\ quarPos = -1 => BlocksIn(lru) \cap guarded = {}
    /\ \A t \in Threads : UntaggedAt(t)

\* OldestTime is set whenever an entry of the cache was not released.
OldestIsSet == (\E i \in DOMAIN lru : lru[i].time # 0) => oldest # 0

CacheInv ==
    /\ CacheTypes
    /\ \A t \in Threads : InFrame(t)
    /\ Keeping
    /\ ZerosKnown
    /\ GuardsKnown
    /\ OldestIsSet

-----------------------------------------------------------------------------
(* Lists of entries.                                                       *)

\* List r has what list s has but entry e.
Without(r, s, e) ==
    /\ r \in Seq(Entry)
    /\ Distinct(r)
    /\ BlocksIn(r) = BlocksIn(s) \ {e.block}
    /\ \A j \in DOMAIN r : \E k \in DOMAIN s : r[j] = s[k]

\* SequencesExt!RemoveAt takes one entry out.
LEMMA RemoveAtRemoves ==
    ASSUME NEW s \in Seq(Entry), Distinct(s), NEW i \in DOMAIN s
    PROVE  Without(RemoveAt(s, i), s, s[i])
<1> DEFINE front == SubSeq(s, 1, i - 1)
           rest == SubSeq(s, i + 1, Len(s))
           r == RemoveAt(s, i)
<1>1. Len(s) \in Nat /\ DOMAIN s = 1 .. Len(s) /\ i \in 1 .. Len(s)
    OBVIOUS
<1>2. /\ front \in Seq(Entry) /\ Len(front) = i - 1
      /\ \A j \in 1 .. i - 1 : front[j] = s[j]
    BY <1>1, SubSeqProperties
<1>3. /\ rest \in Seq(Entry) /\ Len(rest) = Len(s) - i
      /\ \A j \in 1 .. Len(s) - i : rest[j] = s[i + j]
    BY <1>1, SubSeqProperties
<1>4. r = front \o rest
    BY DEF RemoveAt
<1> HIDE DEF front, rest, r
<1>5. /\ r \in Seq(Entry) /\ Len(r) = Len(s) - 1
      /\ \A j \in 1 .. Len(s) - 1 : r[j] = IF j <= i - 1 THEN front[j] ELSE rest[j - (i - 1)]
  <2>1. Len(front) \in Nat /\ Len(front) + Len(rest) = Len(s) - 1
      BY <1>1, <1>2, <1>3
  <2>2. /\ r \in Seq(Entry) /\ Len(r) = Len(front) + Len(rest)
        /\ \A j \in 1 .. Len(front) + Len(rest) :
              r[j] = IF j <= Len(front) THEN front[j] ELSE rest[j - Len(front)]
      BY <1>2, <1>3, <1>4, ConcatProperties
  <2> QED
      BY <1>2, <2>1, <2>2
<1>6. /\ DOMAIN r = 1 .. Len(s) - 1
      /\ \A j \in 1 .. Len(s) - 1 : r[j] = IF j < i THEN s[j] ELSE s[j + 1]
  <2> SUFFICES ASSUME NEW j \in 1 .. Len(s) - 1
               PROVE  r[j] = IF j < i THEN s[j] ELSE s[j + 1]
      BY <1>5
  <2>1. CASE j < i
      BY <1>1, <1>2, <1>5, <2>1
  <2>2. CASE ~(j < i)
    <3> DEFINE k == j - (i - 1)
    <3>1. k \in 1 .. Len(s) - i /\ i + k = j + 1 /\ ~(j <= i - 1)
        BY <1>1, <2>2
    <3>2. r[j] = rest[k]
        BY <1>5, <3>1
    <3> HIDE DEF k
    <3>3. rest[k] = s[i + k]
        BY <1>3, <3>1
    <3> QED
        BY <2>2, <3>1, <3>2, <3>3
  <2> QED
      BY <2>1, <2>2
<1>7. \A j \in DOMAIN r : \E k \in DOMAIN s \ {i} : r[j] = s[k]
    BY <1>1, <1>6
<1>8. \A k \in DOMAIN s \ {i} : \E j \in DOMAIN r : r[j] = s[k]
  <2> TAKE k \in DOMAIN s \ {i}
  <2>1. CASE k < i
      BY <1>1, <1>6, <2>1
  <2>2. CASE ~(k < i)
    <3>1. k - 1 \in 1 .. Len(s) - 1 /\ ~(k - 1 < i) /\ (k - 1) + 1 = k
        BY <1>1, <2>2
    <3> QED
        BY <1>6, <3>1
  <2> QED
      BY <2>1, <2>2
<1>9. Distinct(r)
  <2> SUFFICES ASSUME NEW j \in DOMAIN r, NEW k \in DOMAIN r, r[j].block = r[k].block
               PROVE  j = k
      BY DEF Distinct
  <2> DEFINE J == IF j < i THEN j ELSE j + 1
             K == IF k < i THEN k ELSE k + 1
  <2>1. J \in DOMAIN s /\ K \in DOMAIN s /\ r[j] = s[J] /\ r[k] = s[K]
      BY <1>1, <1>6
  <2>2. J = K
      BY <2>1 DEF Distinct
  <2> QED
      BY <1>1, <1>6, <2>2
<1>10. BlocksIn(r) = BlocksIn(s) \ {s[i].block}
  <2>1. \A k \in DOMAIN s \ {i} : s[k].block # s[i].block
      BY DEF Distinct
  <2> QED
      BY <1>7, <1>8, <2>1 DEF BlocksIn
<1> QED
    BY <1>5, <1>7, <1>9, <1>10 DEF Without, r

\* Front takes the last one out.
LEMMA FrontRemoves ==
    ASSUME NEW s \in Seq(Entry), Distinct(s), s # <<>>
    PROVE  Without(Front(s), s, Last(s)) /\ Last(s) \in Entry /\ Last(s).block \in BlocksIn(s)
<1>1. Len(s) \in Nat /\ Len(s) \in DOMAIN s /\ DOMAIN s = 1 .. Len(s)
    BY EmptySeq
<1>2. /\ Front(s) \in Seq(Entry) /\ Len(Front(s)) = Len(s) - 1
      /\ \A j \in 1 .. Len(s) - 1 : Front(s)[j] = s[j]
    BY <1>1, SubSeqProperties DEF Front
<1>3. DOMAIN Front(s) = 1 .. Len(s) - 1
    BY <1>2
<1> DEFINE r == Front(s)
<1> HIDE DEF r
<1>4. Distinct(r)
    BY <1>1, <1>2, <1>3 DEF Distinct, r
<1>5. BlocksIn(r) = BlocksIn(s) \ {s[Len(s)].block}
  <2>1. \A k \in DOMAIN s : k # Len(s) => s[k].block # s[Len(s)].block /\ k \in DOMAIN r /\ r[k] = s[k]
      BY <1>1, <1>2, <1>3 DEF Distinct, r
  <2>2. \A k \in DOMAIN r : k \in DOMAIN s /\ k # Len(s)
      BY <1>1, <1>3 DEF r
  <2> QED
      BY <2>1, <2>2 DEF BlocksIn
<1>6. \A j \in DOMAIN r : \E k \in DOMAIN s : r[j] = s[k]
    BY <1>1, <1>2, <1>3 DEF r
<1>7. Last(s) = s[Len(s)] /\ s[Len(s)] \in Entry /\ r \in Seq(Entry)
    BY <1>1, <1>2 DEF Last, r
<1>8. Without(r, s, Last(s))
    BY <1>4, <1>5, <1>6, <1>7 DEF Without
<1>9. Last(s).block \in BlocksIn(s)
    BY <1>1, <1>7 DEF BlocksIn
<1> QED
    BY <1>7, <1>8, <1>9 DEF r

\* A new entry in front.
LEMMA InsertedAdds ==
    ASSUME NEW s \in Seq(Entry), Distinct(s), NEW e \in Entry, e.block \notin BlocksIn(s)
    PROVE  LET r == <<e>> \o s IN
           /\ r \in Seq(Entry)
           /\ Distinct(r)
           /\ BlocksIn(r) = BlocksIn(s) \cup {e.block}
           /\ \A j \in DOMAIN r : r[j] = e \/ \E k \in DOMAIN s : r[j] = s[k]
<1> DEFINE r == <<e>> \o s
<1>1. /\ <<e>> \in Seq(Entry) /\ Len(<<e>>) = 1 /\ <<e>>[1] = e
      /\ Len(s) \in Nat /\ DOMAIN s = 1 .. Len(s)
    OBVIOUS
<1>2. /\ r \in Seq(Entry) /\ Len(r) = 1 + Len(s)
      /\ \A j \in 1 .. 1 + Len(s) : r[j] = IF j <= 1 THEN e ELSE s[j - 1]
    BY <1>1, ConcatProperties
<1>3. DOMAIN r = 1 .. 1 + Len(s) /\ r[1] = e
    BY <1>1, <1>2
<1> HIDE DEF r
<1>4. \A j \in DOMAIN r : j = 1 \/ (j - 1 \in DOMAIN s /\ r[j] = s[j - 1] /\ j # 1)
    BY <1>1, <1>2, <1>3
<1>5. \A k \in DOMAIN s : k + 1 \in DOMAIN r /\ r[k + 1] = s[k]
    BY <1>1, <1>2, <1>3
<1>6. \A k \in DOMAIN s : s[k].block # e.block
    BY DEF BlocksIn
<1>7. Distinct(r)
  <2> SUFFICES ASSUME NEW j \in DOMAIN r, NEW k \in DOMAIN r, r[j].block = r[k].block
               PROVE  j = k
      BY DEF Distinct
  <2>1. CASE j = 1 \/ k = 1
      BY <1>3, <1>4, <1>6, <2>1
  <2>2. CASE j # 1 /\ k # 1
    <3>1. j - 1 = k - 1
        BY <1>4, <2>2 DEF Distinct
    <3> QED
        BY <1>3, <3>1
  <2> QED
      BY <2>1, <2>2
<1>8. BlocksIn(r) = BlocksIn(s) \cup {e.block}
  <2>1. 1 \in DOMAIN r
      BY <1>1, <1>3
  <2> QED
      BY <1>3, <1>4, <1>5, <2>1 DEF BlocksIn
<1> QED
    BY <1>2, <1>3, <1>4, <1>7, <1>8 DEF r

\* A set of numbers has a least one.
LEMMA LeastNumber ==
    ASSUME NEW S \in SUBSET Nat, S # {}
    PROVE  \E m \in S : \A k \in S : m <= k
<1>1. PICK m \in S : \A k \in S : ~ (<<k, m>> \in OpToRel(<, Nat))
    BY NatLessThanWellFounded, WFMin
<1>2. \A k \in S : ~(k < m)
    BY <1>1 DEF OpToRel
<1> QED
    BY <1>2

\* What retrieve chooses is in the cache: of the entries that it goes through there are
\* least wasteful ones, and of these a first one.
LEMMA ChoiceIsEntry ==
    ASSUME lru \in Seq(Entry), NEW size \in Nat
    PROVE  Choice(size) = 0 \/ Choice(size) \in DOMAIN lru
<1> DEFINE n(i) == PagesOf[lru[i].block]
           fit == {i \in DOMAIN lru : Fits(n(i), size)}
           close == {i \in fit : CloseEnough(n(i), size)}
           seen == {i \in fit : \A c \in close : i <= c}
           D(i) == Diff(n(i), size)
           Best(i) == \A j \in seen : D(i) < D(j) \/ (D(i) = D(j) /\ i <= j)
<1>1. Choice(size) = IF seen = {} THEN 0 ELSE CHOOSE i \in seen : Best(i)
    BY DEF Choice
<1>2. \A i \in seen : i \in Nat /\ i \in DOMAIN lru /\ D(i) \in Nat
  <2> SUFFICES ASSUME NEW i \in seen
               PROVE  i \in Nat /\ i \in DOMAIN lru /\ D(i) \in Nat
      OBVIOUS
  <2>1. i \in Nat /\ i \in DOMAIN lru /\ Fits(n(i), size)
      OBVIOUS
  <2>2. n(i) \in Nat
    <3>1. lru[i] \in Entry
        BY <2>1
    <3>2. lru[i].block \in Blocks
        BY <3>1 DEF Entry
    <3> QED
        BY <3>2, MapCacheAssumption DEF MapCacheAssumption
  <2>3. HeaderPos(n(i), size) \in Nat
      BY <2>1, <2>2, MapCacheAssumption DEF MapCacheAssumption, Fits, HeaderPos
  <2> HIDE DEF n
  <2>4. \A x \in Nat, y \in Nat \ {0} : x \div y \in Nat
      OBVIOUS
  <2> QED
      BY <2>1, <2>3, <2>4, MapCacheAssumption DEF MapCacheAssumption, Diff
<1> HIDE DEF seen, D
<1>3. CASE seen # {}
  <2>1. {D(i) : i \in seen} \in SUBSET Nat /\ {D(i) : i \in seen} # {}
      BY <1>2, <1>3
  <2>2. PICK d \in {D(i) : i \in seen} : \A k \in {D(i) : i \in seen} : d <= k
      BY <2>1, LeastNumber
  <2>3. \A i \in seen : d <= D(i)
      BY <2>2
  <2> DEFINE least == {i \in seen : D(i) = d}
  <2>4. least \in SUBSET Nat /\ least # {}
      BY <1>2, <2>2
  <2>5. PICK i \in least : \A k \in least : i <= k
      BY <2>4, LeastNumber
  <2>6. i \in seen /\ Best(i)
      BY <1>2, <2>3, <2>5
  <2> HIDE DEF Best
  <2>7. (CHOOSE j \in seen : Best(j)) \in seen
      BY <2>6
  <2> QED
      BY <1>1, <1>2, <1>3, <2>7
<1> QED
    BY <1>1, <1>3

-----------------------------------------------------------------------------
(* The steps.                                                              *)

\* The allocator starts with nothing mapped.
LEMMA CacheInvInit == Init => CacheInv
<1> SUFFICES ASSUME Init PROVE CacheInv
    OBVIOUS
<1> USE MapCacheAssumption DEF MapCacheAssumption, Init
<1>1. NoFrame \in Frame
    BY DEF NoFrame, Frame
<1>2. maxEntries \in Nat
    BY DEF Capped
<1>3. lru = <<>> /\ lru \in Seq(Entry) /\ DOMAIN lru = {}
    OBVIOUS
<1>4. CacheTypes
    BY <1>1, <1>2, <1>3 DEF CacheTypes, WithoutBlock
<1>5. \A t \in Threads : frame[t] = NoFrame /\ pc[t] = "idle" /\ mutex # t
    OBVIOUS
<1>6. \A t \in Threads : InFrame(t)
    BY <1>5 DEF InFrame, NoFrame, WithBlock
<1>7. Keeping
  <2>1. Distinct(lru) /\ BlocksIn(lru) = {}
      BY <1>3 DEF Distinct, BlocksIn
  <2>2. \A b \in Blocks : b # None
      OBVIOUS
  <2>3. \A s \in Slots : quarantine[s].block = None
      BY DEF NoEntry
  <2>4. \A t \in Threads : Block(t) = None /\ frame[t].evicted = {}
      BY <1>5 DEF NoFrame, NoEntry, Block
  <2> QED
      BY <2>1, <2>2, <2>3, <2>4 DEF Keeping, Exclusive, Kept
<1>8. ZerosKnown
    BY <1>3, <1>5 DEF ZerosKnown, Zeroed, NoFrame
<1>9. GuardsKnown
    BY <1>5 DEF GuardsKnown, UntaggedAt, NoFrame
<1>10. OldestIsSet
    BY <1>3 DEF OldestIsSet
<1> QED
    BY <1>4, <1>6, <1>7, <1>8, <1>9, <1>10 DEF CacheInv

\* The block of an entry is one, and that of no entry is none.
LEMMA EntryFacts ==
    ASSUME NEW e \in Entry \cup {NoEntry}
    PROVE  /\ e # NoEntry <=> e.block \in Blocks
           /\ e # NoEntry => e \in Entry /\ e.time \in Nat
BY MapCacheAssumption DEF MapCacheAssumption, Entry, NoEntry

\* What the type invariant says of a call's locals.
LEMMA FrameFacts ==
    ASSUME CacheTypes, NEW t \in Threads
    PROVE  /\ frame[t] \in Frame /\ pc[t] \in WithBlock \cup WithoutBlock
           /\ frame[t].tag \in BOOLEAN /\ frame[t].size \in Nat
           /\ frame[t].every \in Int /\ frame[t].now \in Nat
           /\ frame[t].entry \in Entry \cup {NoEntry}
           /\ frame[t].evicted \subseteq Blocks
           /\ frame[t].entry # NoEntry <=> Block(t) \in Blocks
           /\ frame[t].entry # NoEntry => frame[t].entry \in Entry
<1>1. frame[t] \in Frame /\ pc[t] \in WithBlock \cup WithoutBlock
    BY DEF CacheTypes
<1>2. /\ frame[t].tag \in BOOLEAN /\ frame[t].size \in Nat
      /\ frame[t].every \in Int /\ frame[t].now \in Nat
      /\ frame[t].entry \in Entry \cup {NoEntry}
      /\ frame[t].evicted \subseteq Blocks
    BY <1>1 DEF Frame
<1> QED
    BY <1>1, <1>2, EntryFacts DEF Block

\* Steps that move no block and change no entry.
Unmoved(u) ==
    \/ frame'[u] = frame[u] /\ pc'[u] = pc[u]
    \/ /\ frame'[u].entry = frame[u].entry /\ frame'[u].evicted = frame[u].evicted
       /\ InFrame(u)' /\ UntaggedAt(u)'

\* They keep the invariant.
LEMMA QuietStep ==
    ASSUME CacheInv, CacheTypes', mutex' = mutex,
           UNCHANGED <<lru, quarantine, quarPos, oldest, mapped, guarded, zeroed, live>>,
           \A u \in Threads : Unmoved(u),
           tagging' => tagging,
           ~tagging' => quarPos = -1 \/ (guarded = {} /\ \A u \in Threads : ~frame'[u].tag)
    PROVE  CacheInv'
<1> USE DEF CacheInv
<1>1. /\ lru' = lru /\ quarantine' = quarantine /\ quarPos' = quarPos /\ oldest' = oldest
      /\ mapped' = mapped /\ guarded' = guarded /\ zeroed' = zeroed /\ live' = live
    OBVIOUS
<1>2. \A u \in Threads : /\ frame'[u].entry = frame[u].entry
                         /\ frame'[u].evicted = frame[u].evicted
                         /\ Block(u)' = Block(u)
    BY DEF Unmoved, Block
<1>3. \A u \in Threads : InFrame(u)'
    BY DEF Unmoved, InFrame
<1>4. \A u \in Threads : UntaggedAt(u)'
    BY <1>1, <1>2 DEF Unmoved, UntaggedAt, GuardsKnown
<1>5. Keeping'
    BY <1>1, <1>2 DEF Keeping, Exclusive, Kept, Distinct, BlocksIn
<1>6. ZerosKnown'
    BY <1>1, <1>2 DEF ZerosKnown, Zeroed
<1>7. GuardsKnown'
    BY <1>1, <1>4 DEF GuardsKnown, BlocksIn
<1>8. OldestIsSet'
    BY <1>1 DEF OldestIsSet
<1> QED
    BY <1>3, <1>5, <1>6, <1>7, <1>8

\* One call moves on, the others stay where they are.
OnlyMoves(t, stage, work) ==
    /\ pc' = [pc EXCEPT ![t] = stage]
    /\ frame' = [frame EXCEPT ![t] = work]

\* The locals and the stage of every call after such a step.
LEMMA MoveFacts ==
    ASSUME CacheTypes, NEW t \in Threads, NEW stage \in WithBlock \cup WithoutBlock,
           NEW work \in Frame, OnlyMoves(t, stage, work)
    PROVE  /\ pc' \in [Threads -> WithBlock \cup WithoutBlock] /\ frame' \in [Threads -> Frame]
           /\ pc'[t] = stage /\ frame'[t] = work
           /\ \A u \in Threads \ {t} :
                 pc'[u] = pc[u] /\ frame'[u] = frame[u] /\ Block(u)' = Block(u)
           /\ Block(t)' = work.entry.block
BY DEF OnlyMoves, CacheTypes, Block

\* A call that is over has nothing in its locals.
LEMMA NoFrameIsFrame ==
    /\ NoFrame \in Frame /\ NoFrame.entry = NoEntry /\ NoFrame.evicted = {} /\ ~NoFrame.tag
    /\ "idle" \in WithBlock \cup WithoutBlock
BY DEF NoFrame, Frame, WithoutBlock

\* The start of an allocation.
LEMMA A_CallKeeps == ASSUME CacheInv, NEW t \in Threads, A_Call(t) PROVE CacheInv'
<1> USE DEF CacheInv
<1>1. PICK size \in Sizes :
          OnlyMoves(t, IF CanCache(RoundUpToPages(size + HeaderUnits)) THEN "retrieve" ELSE "map",
                       [NoFrame EXCEPT !.tag = tagging, !.size = size])
    BY DEF A_Call, Goto, OnlyMoves
<1> DEFINE stage == IF CanCache(RoundUpToPages(size + HeaderUnits)) THEN "retrieve" ELSE "map"
           work == [NoFrame EXCEPT !.tag = tagging, !.size = size]
<1>2. /\ stage \in WithoutBlock /\ stage \notin WithBlock
      /\ stage \notin {"evict", "use", "prepare", "lock"}
    BY DEF WithoutBlock, WithBlock
<1>3. /\ work \in Frame /\ work.tag = tagging /\ work.entry = NoEntry /\ work.evicted = {}
  <2>1. tagging \in BOOLEAN /\ size \in Nat
      BY MapCacheAssumption DEF MapCacheAssumption, CacheTypes
  <2> QED
      BY <2>1, NoFrameIsFrame DEF Frame
<1> HIDE DEF stage, work
<1>4. /\ pc' \in [Threads -> WithBlock \cup WithoutBlock] /\ frame' \in [Threads -> Frame]
      /\ pc'[t] = stage /\ frame'[t] = work
      /\ \A u \in Threads \ {t} : pc'[u] = pc[u] /\ frame'[u] = frame[u]
    BY <1>1, <1>2, <1>3, MoveFacts DEF stage, work
<1>5. /\ UNCHANGED <<mutex, lru, quarantine, quarPos, oldest, mapped, guarded, zeroed, live>>
      /\ UNCHANGED <<maxEntries, interval, tagging, clock>> /\ pc[t] = "idle"
    BY DEF A_Call, cacheVars, settings, memory
<1>6. frame[t].entry = NoEntry /\ frame[t].evicted = {} /\ mutex # t
    BY <1>5 DEF InFrame, WithBlock
<1>7. Unmoved(t)
    BY <1>2, <1>3, <1>4, <1>5, <1>6 DEF Unmoved, InFrame, UntaggedAt
<1>8. \A u \in Threads : Unmoved(u)
    BY <1>4, <1>7 DEF Unmoved
<1>9. CacheTypes'
    BY <1>4, <1>5 DEF CacheTypes
<1>10. ~tagging' => quarPos = -1 \/ (guarded = {} /\ \A u \in Threads : ~frame'[u].tag)
    BY <1>3, <1>4, <1>5 DEF GuardsKnown
<1> QED
    BY <1>5, <1>8, <1>9, <1>10, QuietStep

\* mmap refuses, and the call returns nullptr.
LEMMA A_FailKeeps == ASSUME CacheInv, NEW t \in Threads, A_Fail(t) PROVE CacheInv'
<1> USE DEF CacheInv
<1>1. OnlyMoves(t, "idle", NoFrame)
    BY DEF A_Fail, Return, Goto, OnlyMoves
<1>2. /\ pc' \in [Threads -> WithBlock \cup WithoutBlock] /\ frame' \in [Threads -> Frame]
      /\ pc'[t] = "idle" /\ frame'[t] = NoFrame
      /\ \A u \in Threads \ {t} : pc'[u] = pc[u] /\ frame'[u] = frame[u]
    BY <1>1, MoveFacts, NoFrameIsFrame
<1>3. /\ UNCHANGED <<mutex, lru, quarantine, quarPos, oldest, mapped, guarded, zeroed, live>>
      /\ UNCHANGED <<maxEntries, interval, tagging, clock>> /\ pc[t] = "map"
    BY DEF A_Fail, cacheVars, settings, memory
<1>4. frame[t].entry = NoEntry /\ frame[t].evicted = {} /\ mutex # t
    BY <1>3 DEF InFrame, WithBlock
<1>5. Unmoved(t)
    BY <1>2, <1>3, <1>4, NoFrameIsFrame DEF Unmoved, InFrame, UntaggedAt, WithBlock
<1>6. \A u \in Threads : Unmoved(u)
    BY <1>2, <1>5 DEF Unmoved
<1>7. CacheTypes'
    BY <1>2, <1>3 DEF CacheTypes
<1>8. ~tagging' => quarPos = -1 \/ (guarded = {} /\ \A u \in Threads : ~frame'[u].tag)
    BY <1>2, <1>3, NoFrameIsFrame DEF GuardsKnown
<1> QED
    BY <1>3, <1>6, <1>7, <1>8, QuietStep

\* Options change and time passes.
LEMMA SettingsKeep ==
    ASSUME CacheInv,
           \/ \E n \in Counts : SetMaxEntries(n)
           \/ \E i \in Intervals : SetInterval(i)
           \/ ClearTaggingOption
           \/ Tick
           \/ UNCHANGED vars
    PROVE  CacheInv'
<1> USE MapCacheAssumption DEF CacheInv, MapCacheAssumption
<1>1. UNCHANGED <<mutex, lru, quarantine, quarPos, oldest, mapped, guarded, zeroed, live, pc, frame>>
    BY DEF SetMaxEntries, SetInterval, ClearTaggingOption, Tick, vars, cacheVars, memory
<1>2. maxEntries' \in Nat /\ interval' \in Int
    BY DEF SetMaxEntries, SetInterval, ClearTaggingOption, Tick, vars, settings, CacheTypes, Capped
<1>3. clock' \in Nat \ {0} /\ tagging' \in BOOLEAN
  <2>1. clock \in Nat \ {0} /\ tagging \in BOOLEAN
      BY DEF CacheTypes
  <2>2. clock' = clock \/ clock' = clock + 1
      BY DEF SetMaxEntries, SetInterval, ClearTaggingOption, Tick, vars
  <2>3. tagging' = tagging \/ tagging' = FALSE
      BY DEF SetMaxEntries, SetInterval, ClearTaggingOption, Tick, vars, settings
  <2>4. clock' \in Nat \ {0}
      BY <2>1, <2>2
  <2>5. tagging' \in BOOLEAN
      BY <2>1, <2>3
  <2> QED
      BY <2>4, <2>5
<1>4. /\ tagging' => tagging
      /\ ~tagging' => ~tagging \/ quarPos = -1
    BY DEF SetMaxEntries, SetInterval, ClearTaggingOption, MayClearOption, Tick, vars, settings,
           CacheTypes
<1>5. CacheTypes'
    BY <1>1, <1>2, <1>3 DEF CacheTypes
<1>6. \A u \in Threads : Unmoved(u)
    BY <1>1 DEF Unmoved
<1>7. ~tagging' => quarPos = -1 \/ (guarded = {} /\ \A u \in Threads : ~frame'[u].tag)
    BY <1>1, <1>4 DEF GuardsKnown
<1> QED
    BY <1>1, <1>4, <1>5, <1>6, <1>7, QuietStep

\* An entry leaves the cache for the hands of a call.
LEMMA A_RetrieveKeeps == ASSUME CacheInv, NEW t \in Threads, A_Retrieve(t) PROVE CacheInv'
<1> USE DEF CacheInv
<1> DEFINE i == Choice(frame[t].size)
           e == lru[i]
           work == [frame[t] EXCEPT !.entry = e]
<1>0. /\ UNCHANGED <<mutex, quarantine, quarPos, oldest, mapped, guarded, zeroed, live>>
      /\ UNCHANGED <<maxEntries, interval, tagging, clock>>
      /\ pc[t] = "retrieve" /\ mutex = None
    BY DEF A_Retrieve, settings, memory
<1>1. /\ frame[t] \in Frame /\ frame[t].entry = NoEntry /\ frame[t].evicted = {} /\ mutex # t
      /\ frame[t].size \in Nat
    BY <1>0, FrameFacts DEF InFrame, WithBlock
<1>2. CASE i = 0
  <2>1. OnlyMoves(t, "map", frame[t]) /\ lru' = lru
    <3>1. pc' = [pc EXCEPT ![t] = "map"] /\ frame' = frame /\ lru' = lru
        BY <1>2 DEF A_Retrieve, Goto
    <3>2. frame' = [frame EXCEPT ![t] = frame[t]]
        BY <3>1 DEF CacheTypes
    <3> QED
        BY <3>1, <3>2 DEF OnlyMoves
  <2>2. /\ pc' \in [Threads -> WithBlock \cup WithoutBlock] /\ frame' \in [Threads -> Frame]
        /\ pc'[t] = "map" /\ frame'[t] = frame[t]
        /\ \A u \in Threads \ {t} : pc'[u] = pc[u] /\ frame'[u] = frame[u]
      BY <1>1, <2>1, MoveFacts DEF WithoutBlock
  <2>3. Unmoved(t)
      BY <1>0, <1>1, <2>2 DEF Unmoved, InFrame, UntaggedAt, WithBlock, GuardsKnown
  <2>4. \A u \in Threads : Unmoved(u)
      BY <2>2, <2>3 DEF Unmoved
  <2>5. CacheTypes'
      BY <1>0, <2>1, <2>2 DEF CacheTypes
  <2>6. ~tagging' => quarPos = -1 \/ (guarded = {} /\ \A u \in Threads : ~frame'[u].tag)
      BY <1>0, <2>2 DEF GuardsKnown
  <2> QED
      BY <1>0, <2>1, <2>4, <2>5, <2>6, QuietStep
<1>3. CASE i # 0
  <2>1. lru \in Seq(Entry) /\ Distinct(lru) /\ i \in DOMAIN lru
      BY <1>1, <1>3, ChoiceIsEntry DEF CacheTypes, Keeping
  <2>2. lru' = RemoveAt(lru, i) /\ OnlyMoves(t, "use", work)
      BY <1>3 DEF A_Retrieve, Goto, OnlyMoves
  <2>3. Without(lru', lru, e)
      BY <2>1, <2>2, RemoveAtRemoves
  <2> HIDE DEF i
  <2>4. e \in Entry /\ e.block \in BlocksIn(lru) /\ e.block \in Blocks /\ e # NoEntry /\ Zeroed(e)
    <3>1. e \in Entry /\ e.block \in BlocksIn(lru)
        BY <2>1 DEF BlocksIn
    <3>2. e.block \in Blocks /\ e # NoEntry
        BY <3>1, MapCacheAssumption DEF MapCacheAssumption, Entry, NoEntry
    <3>3. Zeroed(e)
        BY <2>1 DEF ZerosKnown
    <3> QED
        BY <3>1, <3>2, <3>3
  <2>5. work \in Frame /\ work.entry = e /\ work.evicted = {} /\ work.tag = frame[t].tag
    <3> HIDE DEF e
    <3> QED
        BY <1>1, <2>4 DEF Frame
  <2> HIDE DEF e, work
  <2>6. /\ pc' \in [Threads -> WithBlock \cup WithoutBlock] /\ frame' \in [Threads -> Frame]
        /\ pc'[t] = "use" /\ frame'[t] = work
        /\ \A u \in Threads \ {t} :
              pc'[u] = pc[u] /\ frame'[u] = frame[u] /\ Block(u)' = Block(u)
        /\ Block(t)' = e.block
      BY <2>2, <2>5, MoveFacts DEF WithBlock
  <2>7. /\ lru' \in Seq(Entry) /\ Distinct(lru)' /\ BlocksIn(lru)' = BlocksIn(lru) \ {e.block}
        /\ \A j \in DOMAIN lru' : \E k \in DOMAIN lru : lru'[j] = lru[k]
      BY <2>3 DEF Without
  <2>8. CacheTypes'
      BY <1>0, <2>6, <2>7 DEF CacheTypes
  <2>9. \A u \in Threads : InFrame(u)'
      BY <1>0, <1>1, <2>4, <2>5, <2>6 DEF InFrame, WithBlock
  <2>10. Keeping'
    <3>1. \A u \in Threads : frame'[u].evicted = frame[u].evicted
        BY <1>1, <2>5, <2>6
    <3>2. Block(t) \notin Blocks
        BY <1>1, FrameFacts
    <3>3. ASSUME NEW b \in Blocks
          PROVE  Exclusive(b)'
        BY <1>0, <2>4, <2>6, <2>7, <3>1, <3>2 DEF Keeping, Exclusive
    <3>4. ASSUME NEW b \in Blocks
          PROVE  Kept(b)'
        BY <1>0, <2>4, <2>6, <2>7, <3>1, <3>2 DEF Keeping, Kept
    <3> QED
        BY <2>7, <3>3, <3>4 DEF Keeping
  <2>11. ZerosKnown'
      BY <1>0, <2>4, <2>5, <2>6, <2>7 DEF ZerosKnown, Zeroed
  <2>12. UntaggedAt(t)'
    <3>1. ~frame[t].tag => ~tagging
        BY <1>0 DEF GuardsKnown, UntaggedAt
    <3>2. ~tagging => e.block \notin guarded
        BY <2>4 DEF GuardsKnown
    <3> QED
        BY <1>0, <2>5, <2>6, <3>1, <3>2 DEF UntaggedAt
  <2>13. GuardsKnown'
    <3>1. \A u \in Threads : UntaggedAt(u)'
        BY <1>0, <2>6, <2>12 DEF GuardsKnown, UntaggedAt
    <3>2. \A u \in Threads : frame'[u].tag = frame[u].tag
        BY <2>5, <2>6
    <3> QED
        BY <1>0, <2>7, <3>1, <3>2 DEF GuardsKnown
  <2>14. OldestIsSet'
      BY <1>0, <2>7 DEF OldestIsSet
  <2> QED
      BY <2>8, <2>9, <2>10, <2>11, <2>13, <2>14
<1> QED
    BY <1>2, <1>3

\* The block that a call has in hand, and nobody else.
LEMMA InHand ==
    ASSUME CacheInv, NEW t \in Threads, pc[t] \in WithBlock
    PROVE  /\ frame[t].entry \in Entry /\ Block(t) \in Blocks
           /\ Block(t) \in mapped /\ Block(t) \notin live /\ Block(t) \notin BlocksIn(lru)
           /\ \A s \in Slots : quarantine[s].block # Block(t)
           /\ \A u \in Threads \ {t} : Block(u) # Block(t)
           /\ \A u \in Threads : Block(t) \notin frame[u].evicted
<1>1. frame[t].entry \in Entry /\ Block(t) \in Blocks
    BY FrameFacts DEF CacheInv, InFrame
<1> DEFINE b == Block(t)
<1> HIDE DEF b
<1>2. Exclusive(b) /\ Kept(b) /\ b = Block(t)
    BY <1>1 DEF CacheInv, Keeping, b
<1>3. /\ b \in mapped /\ b \notin live /\ b \notin BlocksIn(lru)
      /\ \A s \in Slots : quarantine[s].block # b
      /\ \A u \in Threads \ {t} : Block(u) # b
    BY <1>2 DEF Exclusive, Kept
<1>4. \A u \in Threads : b \notin frame[u].evicted
    BY <1>2 DEF Exclusive
<1> QED
    BY <1>1, <1>3, <1>4 DEF b

\* The client gets it: it is opened if it can be closed.
LEMMA A_UseKeeps == ASSUME CacheInv, NEW t \in Threads, A_Use(t) PROVE CacheInv'
<1> USE DEF CacheInv
<1> DEFINE b == Block(t)
<1>0. /\ UNCHANGED <<mutex, lru, quarantine, quarPos, oldest, mapped>>
      /\ UNCHANGED <<maxEntries, interval, tagging, clock>>
      /\ pc[t] = "use" /\ OnlyMoves(t, "idle", NoFrame)
      /\ live' = live \cup {b} /\ zeroed' = zeroed \ {b}
      /\ guarded' = IF frame[t].tag THEN guarded \ {b} ELSE guarded
    BY DEF A_Use, cacheVars, settings, Return, Goto, OnlyMoves
<1>1. /\ frame[t].evicted = {} /\ mutex # t /\ frame[t].tag \in BOOLEAN
      /\ b \in Blocks /\ b \in mapped /\ b \notin BlocksIn(lru)
      /\ \A s \in Slots : quarantine[s].block # b
      /\ \A u \in Threads \ {t} : Block(u) # b
      /\ \A u \in Threads : b \notin frame[u].evicted
    BY <1>0, FrameFacts, InHand DEF InFrame, WithBlock
<1>2. b \notin guarded'
    BY <1>0, <1>1 DEF GuardsKnown, UntaggedAt
<1>3. Block(t) = b
    OBVIOUS
<1> HIDE DEF b
<1>4. /\ pc' \in [Threads -> WithBlock \cup WithoutBlock] /\ frame' \in [Threads -> Frame]
      /\ pc'[t] = "idle" /\ frame'[t] = NoFrame
      /\ \A u \in Threads \ {t} :
            pc'[u] = pc[u] /\ frame'[u] = frame[u] /\ Block(u)' = Block(u)
      /\ Block(t)' \notin Blocks
    BY <1>0, MoveFacts, NoFrameIsFrame, EntryFacts
<1>5. CacheTypes'
    BY <1>0, <1>1, <1>4 DEF CacheTypes
<1>6. \A u \in Threads : InFrame(u)'
    BY <1>0, <1>1, <1>4, NoFrameIsFrame DEF InFrame, WithBlock
<1>7. Keeping'
  <2>1. \A u \in Threads : frame'[u].evicted = frame[u].evicted
      BY <1>1, <1>4, NoFrameIsFrame
  <2>2. ASSUME NEW c \in Blocks
        PROVE  Exclusive(c)'
      BY <1>0, <1>1, <1>3, <1>4, <2>1 DEF Keeping, Exclusive
  <2>3. ASSUME NEW c \in Blocks
        PROVE  Kept(c)'
      BY <1>0, <1>1, <1>3, <1>4, <2>1 DEF Keeping, Kept
  <2> QED
      BY <1>0, <2>2, <2>3 DEF Keeping
<1>8. ZerosKnown'
  <2>1. zeroed' \subseteq mapped' /\ zeroed' \cap live' = {}
      BY <1>0 DEF ZerosKnown
  <2>2. \A j \in DOMAIN lru' : Zeroed(lru[j])'
      BY <1>0, <1>1 DEF ZerosKnown, Zeroed, BlocksIn
  <2>3. \A s \in Slots : Zeroed(quarantine[s])'
      BY <1>0, <1>1 DEF ZerosKnown, Zeroed
  <2>4. \A u \in Threads : Zeroed(frame[u].entry)'
      BY <1>0, <1>1, <1>4, NoFrameIsFrame DEF ZerosKnown, Zeroed, Block
  <2> QED
      BY <2>1, <2>2, <2>3, <2>4 DEF ZerosKnown
<1>9. GuardsKnown'
  <2>1. guarded' \subseteq guarded
      BY <1>0
  <2>2. \A u \in Threads : UntaggedAt(u)'
      BY <1>0, <1>4, <2>1 DEF GuardsKnown, UntaggedAt
  <2> QED
      BY <1>0, <1>2, <1>4, <2>1, <2>2, NoFrameIsFrame DEF GuardsKnown
<1>10. OldestIsSet'
    BY <1>0 DEF OldestIsSet
<1> QED
    BY <1>5, <1>6, <1>7, <1>8, <1>9, <1>10

\* The block is mapped for the client.
LEMMA A_MapKeeps == ASSUME CacheInv, NEW t \in Threads, A_Map(t) PROVE CacheInv'
<1> USE DEF CacheInv
<1>0. PICK b \in Blocks \ mapped :
          /\ UNCHANGED <<mutex, lru, quarantine, quarPos, oldest, guarded, zeroed>>
          /\ UNCHANGED <<maxEntries, interval, tagging, clock>>
          /\ pc[t] = "map" /\ OnlyMoves(t, "idle", NoFrame)
          /\ live' = live \cup {b} /\ mapped' = mapped \cup {b}
    BY DEF A_Map, cacheVars, settings, Return, Goto, OnlyMoves
<1>1. frame[t].evicted = {} /\ mutex # t /\ Block(t) \notin Blocks
    BY <1>0, FrameFacts DEF InFrame, WithBlock
<1>2. /\ pc' \in [Threads -> WithBlock \cup WithoutBlock] /\ frame' \in [Threads -> Frame]
      /\ pc'[t] = "idle" /\ frame'[t] = NoFrame
      /\ \A u \in Threads \ {t} :
            pc'[u] = pc[u] /\ frame'[u] = frame[u] /\ Block(u)' = Block(u)
      /\ Block(t)' \notin Blocks
    BY <1>0, MoveFacts, NoFrameIsFrame, EntryFacts
<1>3. CacheTypes'
    BY <1>0, <1>2 DEF CacheTypes
<1>4. \A u \in Threads : InFrame(u)'
    BY <1>0, <1>1, <1>2, NoFrameIsFrame DEF InFrame, WithBlock
<1>5. Keeping'
  <2>1. \A u \in Threads : frame'[u].evicted = frame[u].evicted
      BY <1>1, <1>2, NoFrameIsFrame
  <2>2. Kept(b) /\ Exclusive(b)
      BY DEF Keeping
  <2>3. ASSUME NEW c \in Blocks
        PROVE  Exclusive(c)'
      BY <1>0, <1>1, <1>2, <2>1, <2>2 DEF Keeping, Exclusive, Kept
  <2>4. ASSUME NEW c \in Blocks
        PROVE  Kept(c)'
      BY <1>0, <1>1, <1>2, <2>1, <2>2 DEF Keeping, Kept
  <2> QED
      BY <1>0, <2>3, <2>4 DEF Keeping
<1>6. ZerosKnown'
    BY <1>0, <1>2, NoFrameIsFrame DEF ZerosKnown, Zeroed
<1>7. GuardsKnown'
  <2>1. \A u \in Threads : UntaggedAt(u)'
      BY <1>0, <1>2 DEF GuardsKnown, UntaggedAt
  <2> QED
      BY <1>0, <1>2, <2>1, NoFrameIsFrame DEF GuardsKnown
<1>8. OldestIsSet'
    BY <1>0 DEF OldestIsSet
<1> QED
    BY <1>3, <1>4, <1>5, <1>6, <1>7, <1>8

\* The client gives a block back.
LEMMA D_CallKeeps == ASSUME CacheInv, NEW t \in Threads, D_Call(t) PROVE CacheInv'
<1> USE DEF CacheInv
<1>0. PICK b \in live :
          /\ UNCHANGED <<mutex, lru, quarantine, quarPos, oldest, mapped, guarded, zeroed>>
          /\ UNCHANGED <<maxEntries, interval, tagging, clock>>
          /\ pc[t] = "idle" /\ live' = live \ {b}
          /\ OnlyMoves(t, IF CanCache(PagesOf[b]) THEN "prepare" ELSE "unmap",
                       [NoFrame EXCEPT !.tag = tagging,
                                       !.entry = [block |-> b, time |-> MaxTime]])
    BY DEF D_Call, cacheVars, settings, memory, Goto, OnlyMoves
<1> DEFINE stage == IF CanCache(PagesOf[b]) THEN "prepare" ELSE "unmap"
           e == [block |-> b, time |-> MaxTime]
           work == [NoFrame EXCEPT !.tag = tagging, !.entry = e]
<1>1. /\ frame[t].evicted = {} /\ mutex # t /\ Block(t) \notin Blocks
      /\ b \in Blocks /\ tagging \in BOOLEAN
    BY <1>0, FrameFacts DEF InFrame, WithBlock, CacheTypes
<1>2. e \in Entry /\ e.block = b /\ e.time # 0
    BY <1>1, MapCacheAssumption DEF MapCacheAssumption, Entry
<1>3. OnlyMoves(t, stage, work)
    BY <1>0
<1>4. stage \in {"prepare", "unmap"}
    OBVIOUS
<1> HIDE DEF e, stage
<1>5. work \in Frame /\ work.tag = tagging /\ work.entry = e /\ work.evicted = {}
    BY <1>1, <1>2, NoFrameIsFrame DEF Frame
<1> HIDE DEF work
<1>6. /\ pc' \in [Threads -> WithBlock \cup WithoutBlock] /\ frame' \in [Threads -> Frame]
      /\ pc'[t] = stage /\ frame'[t] = work
      /\ \A u \in Threads \ {t} :
            pc'[u] = pc[u] /\ frame'[u] = frame[u] /\ Block(u)' = Block(u)
      /\ Block(t)' = b
    BY <1>2, <1>3, <1>4, <1>5, MoveFacts DEF WithBlock
<1>7. CacheTypes'
    BY <1>0, <1>6 DEF CacheTypes
<1>8. \A u \in Threads : InFrame(u)'
    BY <1>0, <1>1, <1>2, <1>4, <1>5, <1>6, EntryFacts DEF InFrame, WithBlock
<1>9. Keeping'
  <2>1. \A u \in Threads : frame'[u].evicted = frame[u].evicted
      BY <1>1, <1>5, <1>6
  <2>2. Kept(b) /\ Exclusive(b)
      BY <1>1 DEF Keeping
  <2>3. ASSUME NEW c \in Blocks
        PROVE  Exclusive(c)'
    <3>1. CASE c = b
        BY <1>0, <1>1, <1>6, <2>1, <2>2, <3>1 DEF Exclusive
    <3>2. CASE c # b
        BY <1>0, <1>1, <1>6, <2>1, <3>2 DEF Keeping, Exclusive
    <3> QED
        BY <3>1, <3>2
  <2>4. ASSUME NEW c \in Blocks
        PROVE  Kept(c)'
      BY <1>0, <1>1, <1>6, <2>1, <2>2 DEF Keeping, Kept
  <2> QED
      BY <1>0, <2>3, <2>4 DEF Keeping
<1>10. ZerosKnown'
    BY <1>0, <1>2, <1>5, <1>6 DEF ZerosKnown, Zeroed
<1>11. GuardsKnown'
  <2>1. \A u \in Threads : UntaggedAt(u)'
    <3>1. b \notin guarded
        BY <1>0 DEF GuardsKnown
    <3> QED
        BY <1>0, <1>4, <1>5, <1>6, <3>1 DEF GuardsKnown, UntaggedAt
  <2> QED
      BY <1>0, <1>5, <1>6, <2>1 DEF GuardsKnown
<1>12. OldestIsSet'
    BY <1>0 DEF OldestIsSet
<1> QED
    BY <1>7, <1>8, <1>9, <1>10, <1>11, <1>12

\* A call unmaps the block that it has in hand, at once or when it finds tagging disabled.
LEMMA UnmapKeeps ==
    ASSUME CacheInv, NEW t \in Threads, pc[t] \in {"unmap", "lock"},
           NEW stage \in {"idle", "drop"}, NEW work \in Frame,
           work.entry = NoEntry, work.evicted = {},
           stage = "idle" => ~work.tag, work.tag => frame[t].tag,
           stage # "idle" /\ ~work.tag => ~frame[t].tag,
           OnlyMoves(t, stage, work),
           UNCHANGED <<mutex, lru, quarantine, quarPos, oldest, live>>,
           UNCHANGED <<maxEntries, interval, tagging, clock>>,
           mapped' = mapped \ {Block(t)}, guarded' = guarded \ {Block(t)},
           zeroed' = zeroed \ {Block(t)}
    PROVE  CacheInv'
<1> USE DEF CacheInv
<1> DEFINE b == Block(t)
<1>1. /\ frame[t].evicted = {} /\ mutex # t
      /\ b \in Blocks /\ b \in mapped /\ b \notin live /\ b \notin BlocksIn(lru)
      /\ \A s \in Slots : quarantine[s].block # b
      /\ \A u \in Threads \ {t} : Block(u) # b
      /\ \A u \in Threads : b \notin frame[u].evicted
    BY FrameFacts, InHand DEF InFrame, WithBlock
<1>2. /\ Block(t) = b /\ mapped' = mapped \ {b} /\ guarded' = guarded \ {b}
      /\ zeroed' = zeroed \ {b}
    OBVIOUS
<1> HIDE DEF b
<1>3. /\ pc' \in [Threads -> WithBlock \cup WithoutBlock] /\ frame' \in [Threads -> Frame]
      /\ pc'[t] = stage /\ frame'[t] = work
      /\ \A u \in Threads \ {t} :
            pc'[u] = pc[u] /\ frame'[u] = frame[u] /\ Block(u)' = Block(u)
      /\ Block(t)' \notin Blocks
    BY MoveFacts, EntryFacts DEF WithoutBlock
<1>4. CacheTypes'
    BY <1>2, <1>3 DEF CacheTypes
<1>5. \A u \in Threads : InFrame(u)'
    BY <1>1, <1>3 DEF InFrame, WithBlock
<1>6. Keeping'
  <2>1. \A u \in Threads : frame'[u].evicted = frame[u].evicted
      BY <1>1, <1>3
  <2>2. ASSUME NEW c \in Blocks
        PROVE  Exclusive(c)'
      BY <1>1, <1>3, <2>1 DEF Keeping, Exclusive
  <2>3. ASSUME NEW c \in Blocks
        PROVE  Kept(c)'
      BY <1>1, <1>2, <1>3, <2>1 DEF Keeping, Kept
  <2> QED
      BY <2>2, <2>3 DEF Keeping
<1>7. ZerosKnown'
  <2>1. zeroed' \subseteq mapped' /\ zeroed' \cap live' = {}
      BY <1>2 DEF ZerosKnown
  <2>2. \A j \in DOMAIN lru' : Zeroed(lru[j])'
      BY <1>1, <1>2 DEF ZerosKnown, Zeroed, BlocksIn
  <2>3. \A s \in Slots : Zeroed(quarantine[s])'
      BY <1>1, <1>2 DEF ZerosKnown, Zeroed
  <2>4. \A u \in Threads : Zeroed(frame[u].entry)'
      BY <1>1, <1>2, <1>3 DEF ZerosKnown, Zeroed, Block
  <2> QED
      BY <2>1, <2>2, <2>3, <2>4 DEF ZerosKnown
<1>8. GuardsKnown'
  <2>1. \A u \in Threads : UntaggedAt(u)'
      BY <1>1, <1>2, <1>3 DEF GuardsKnown, UntaggedAt
  <2>2. ~tagging' => quarPos' = -1 \/ (guarded' = {} /\ \A u \in Threads : ~frame'[u].tag)
      BY <1>2, <1>3 DEF GuardsKnown
  <2> QED
      BY <1>1, <1>2, <2>1, <2>2 DEF GuardsKnown
<1>9. OldestIsSet'
    BY DEF OldestIsSet
<1> QED
    BY <1>4, <1>5, <1>6, <1>7, <1>8, <1>9

\* A block that may not be cached is unmapped.
LEMMA D_UnmapKeeps == ASSUME CacheInv, NEW t \in Threads, D_Unmap(t) PROVE CacheInv'
<1>1. /\ OnlyMoves(t, "idle", NoFrame) /\ pc[t] = "unmap"
      /\ UNCHANGED <<mutex, lru, quarantine, quarPos, oldest, live>>
      /\ UNCHANGED <<maxEntries, interval, tagging, clock>>
      /\ mapped' = mapped \ {Block(t)} /\ guarded' = guarded \ {Block(t)}
      /\ zeroed' = zeroed \ {Block(t)}
    BY DEF D_Unmap, cacheVars, settings, Return, Goto, OnlyMoves
<1> QED
    BY <1>1, NoFrameIsFrame, UnmapKeeps

\* store closes a block of a call that saw tagging.
LEMMA S_PrepareKeeps == ASSUME CacheInv, NEW t \in Threads, S_Prepare(t) PROVE CacheInv'
<1> USE DEF CacheInv
<1> DEFINE b == Block(t)
           remapped == frame[t].tag /\ interval = 0
           e == [frame[t].entry EXCEPT !.time = IF remapped THEN 0 ELSE frame[t].entry.time]
           work == frame'[t]
<1>0. /\ UNCHANGED <<mutex, lru, quarantine, quarPos, oldest, mapped, live>>
      /\ UNCHANGED <<maxEntries, interval, tagging, clock>>
      /\ pc[t] = "prepare" /\ pc' = [pc EXCEPT ![t] = "lock"]
      /\ zeroed' = IF remapped THEN zeroed \cup {b} ELSE zeroed
      /\ guarded' = IF frame[t].tag THEN guarded \cup {b} ELSE guarded
    BY DEF S_Prepare, cacheVars, settings, Goto
<1>1. /\ frame[t].evicted = {} /\ mutex # t /\ frame[t].tag \in BOOLEAN
      /\ b \in Blocks /\ b \in mapped /\ b \notin live /\ b \notin BlocksIn(lru)
      /\ \A s \in Slots : quarantine[s].block # b
      /\ \A u \in Threads \ {t} : Block(u) # b
      /\ \A u \in Threads : b \notin frame[u].evicted
      /\ frame[t].entry \in Entry
    BY <1>0, FrameFacts, InHand DEF InFrame, WithBlock
<1>2. /\ e \in Entry /\ e.block = b /\ e # NoEntry
      /\ e.time = 0 => remapped \/ frame[t].entry.time = 0
  <2>1. /\ frame[t].entry.time \in Nat /\ frame[t].entry.block = b
      BY <1>1 DEF Entry, Block
  <2>2. e \in Entry /\ e.block = b /\ e.time = IF remapped THEN 0 ELSE frame[t].entry.time
      BY <1>1, <2>1 DEF Entry
  <2> HIDE DEF e, remapped
  <2>3. e # NoEntry
      BY <1>1, <2>2, EntryFacts
  <2> QED
      BY <2>2, <2>3
<1>3. /\ frame' \in [Threads -> Frame] /\ work.entry = e
      /\ work.tag = frame[t].tag /\ work.evicted = {}
      /\ \A u \in Threads \ {t} : frame'[u] = frame[u]
  <2>1. frame' = [frame EXCEPT ![t].every = interval,
                               ![t].entry.time = IF remapped THEN 0 ELSE @]
      BY DEF S_Prepare
  <2>2. frame \in [Threads -> Frame] /\ interval \in Int
      BY DEF CacheTypes
  <2>3. \A u \in Threads \ {t} : frame'[u] = frame[u]
      BY <2>1, <2>2
  <2>4. work = [frame[t] EXCEPT !.every = interval, !.entry = e]
      BY <2>1, <2>2
  <2>5. frame' = [frame EXCEPT ![t] = [frame[t] EXCEPT !.every = interval, !.entry = e]]
      BY <2>1, <2>2
  <2> HIDE DEF e
  <2>6. work \in Frame /\ work.entry = e /\ work.tag = frame[t].tag /\ work.evicted = {}
      BY <1>1, <1>2, <2>2, <2>4 DEF Frame
  <2>7. frame' \in [Threads -> Frame]
      BY <2>2, <2>4, <2>5, <2>6
  <2> QED
      BY <2>3, <2>6, <2>7
<1>4. Block(t) = b /\ (remapped => frame[t].tag)
    OBVIOUS
<1> HIDE DEF b, e, work, remapped
<1>5. /\ pc' \in [Threads -> WithBlock \cup WithoutBlock] /\ pc'[t] = "lock"
      /\ \A u \in Threads \ {t} : pc'[u] = pc[u] /\ Block(u)' = Block(u)
      /\ Block(t)' = b /\ frame'[t].entry = e
    BY <1>0, <1>2, <1>3 DEF CacheTypes, WithBlock, Block, work
<1>6. CacheTypes'
    BY <1>0, <1>3, <1>5 DEF CacheTypes
<1>7. \A u \in Threads : InFrame(u)'
    BY <1>0, <1>1, <1>2, <1>3, <1>5 DEF InFrame, WithBlock, work
<1>8. \A u \in Threads : frame'[u].evicted = frame[u].evicted /\ Block(u)' = Block(u)
    BY <1>1, <1>3, <1>4, <1>5 DEF work
<1>9. Keeping'
    BY <1>0, <1>8 DEF Keeping, Exclusive, Kept
<1>10. ZerosKnown'
  <2>1. zeroed' \subseteq mapped' /\ zeroed' \cap live' = {} /\ zeroed \subseteq zeroed'
      BY <1>0, <1>1 DEF ZerosKnown
  <2>2. \A j \in DOMAIN lru' : Zeroed(lru[j])'
      BY <1>0, <2>1 DEF ZerosKnown, Zeroed
  <2>3. \A s \in Slots : Zeroed(quarantine[s])'
      BY <1>0, <2>1 DEF ZerosKnown, Zeroed
  <2>4. Zeroed(frame[t].entry)'
      BY <1>0, <1>1, <1>2, <1>4, <1>5, EntryFacts DEF ZerosKnown, Zeroed, Block
  <2>5. \A u \in Threads \ {t} : Zeroed(frame[u].entry)'
      BY <1>3, <2>1 DEF ZerosKnown, Zeroed
  <2> QED
      BY <2>1, <2>2, <2>3, <2>4, <2>5 DEF ZerosKnown
<1>11. \A u \in Threads : frame'[u].tag = frame[u].tag
    BY <1>3 DEF work
<1>12. GuardsKnown'
  <2>1. UntaggedAt(t)'
      BY <1>0, <1>4, <1>5, <1>8, <1>11 DEF GuardsKnown, UntaggedAt
  <2>2. \A u \in Threads \ {t} : UntaggedAt(u)'
      BY <1>0, <1>1, <1>3, <1>5 DEF GuardsKnown, UntaggedAt
  <2>3. ~tagging' => quarPos' = -1 \/ (guarded' = {} /\ \A u \in Threads : ~frame'[u].tag)
      BY <1>0, <1>11 DEF GuardsKnown
  <2> QED
      BY <1>0, <1>1, <2>1, <2>2, <2>3 DEF GuardsKnown
<1>13. OldestIsSet'
    BY <1>0 DEF OldestIsSet
<1> QED
    BY <1>6, <1>7, <1>9, <1>10, <1>12, <1>13

\* A block closed before tagging was disabled is unmapped.
LEMMA S_OrphanKeeps == ASSUME CacheInv, NEW t \in Threads, S_Orphan(t) PROVE CacheInv'
<1> DEFINE work == [frame[t] EXCEPT !.now = clock, !.entry = NoEntry]
<1>1. /\ pc[t] = "lock" /\ mutex = None /\ frame[t].tag
      /\ pc' = [pc EXCEPT ![t] = "drop"]
      /\ UNCHANGED <<mutex, lru, quarantine, quarPos, oldest, live>>
      /\ UNCHANGED <<maxEntries, interval, tagging, clock>>
      /\ mapped' = mapped \ {Block(t)} /\ guarded' = guarded \ {Block(t)}
      /\ zeroed' = zeroed \ {Block(t)}
    BY DEF S_Orphan, cacheVars, settings, Goto
<1>2. OnlyMoves(t, "drop", work)
  <2>1. frame \in [Threads -> Frame]
      BY DEF CacheInv, CacheTypes
  <2>2. frame' = [frame EXCEPT ![t].now = clock, ![t].entry = NoEntry]
      BY DEF S_Orphan
  <2>3. frame' = [frame EXCEPT ![t] = work]
      BY <2>1, <2>2
  <2> QED
      BY <1>1, <2>3 DEF OnlyMoves
<1>3. work \in Frame /\ work.entry = NoEntry /\ work.evicted = {} /\ work.tag
  <2>1. frame[t].evicted = {} /\ frame[t] \in Frame /\ clock \in Nat
      BY <1>1, FrameFacts DEF CacheInv, CacheTypes, InFrame
  <2> QED
      BY <1>1, <2>1 DEF Frame
<1> HIDE DEF work
<1> QED
    BY <1>1, <1>2, <1>3, UnmapKeeps

\* The entry as it joins the quarantine or the cache.
LEMMA StampedFacts ==
    ASSUME CacheInv, NEW t \in Threads, pc[t] \in WithBlock
    PROVE  /\ Stamped(t) \in Entry /\ Stamped(t) # NoEntry /\ Stamped(t).block = Block(t)
           /\ Zeroed(Stamped(t))
           /\ Block(t) \in Blocks
<1>1. /\ frame[t].entry \in Entry /\ Block(t) \in Blocks /\ clock \in Nat \ {0}
      /\ Zeroed(frame[t].entry)
    BY InHand DEF CacheInv, CacheTypes, ZerosKnown
<1>2. frame[t].entry.time \in Nat /\ frame[t].entry.block = Block(t)
    BY <1>1 DEF Entry, Block
<1> DEFINE e == Stamped(t)
<1>3. /\ e \in Entry /\ e.block = Block(t)
      /\ e.time = IF frame[t].entry.time = 0 THEN 0 ELSE clock
    BY <1>1, <1>2 DEF Stamped, Entry
<1> HIDE DEF e
<1>4. e # NoEntry
    BY <1>1, <1>3, EntryFacts
<1>5. Zeroed(e)
    BY <1>1, <1>2, <1>3, EntryFacts DEF Zeroed
<1> QED
    BY <1>1, <1>3, <1>4, <1>5 DEF e

\* QuarantinePos stays in the quarantine, and is not the mark of a disabled one.
LEMMA NextSlotIsSlot ==
    ASSUME CacheInv, QuarantineSize > 0
    PROVE  NextSlot \in Slots /\ NextSlot # -1
<1>1. quarPos + 1 \in Int /\ QuarantineSize \in Nat /\ QuarantineSize > 0
    BY MapCacheAssumption DEF MapCacheAssumption, CacheInv, CacheTypes
<1>2. \A x \in Int, y \in Nat : y > 0 => x % y \in 0 .. y - 1
    OBVIOUS
<1>3. NextSlot \in 0 .. (QuarantineSize - 1)
    BY <1>1, <1>2 DEF NextSlot
<1>4. NextSlot # -1
    BY <1>1, <1>3
<1> QED
    BY <1>3, <1>4 DEF Slots

\* The quarantine takes the block.
LEMMA S_QuarantineKeeps == ASSUME CacheInv, NEW t \in Threads, S_Quarantine(t) PROVE CacheInv'
<1> USE DEF CacheInv
<1> DEFINE b == Block(t)
           n == NextSlot
           e == Stamped(t)
<1>0. /\ UNCHANGED <<mutex, lru, oldest, mapped, guarded, zeroed, live>>
      /\ UNCHANGED <<maxEntries, interval, tagging, clock>>
      /\ pc[t] = "lock" /\ OnlyMoves(t, "idle", NoFrame)
      /\ frame[t].tag /\ quarPos # -1 /\ quarantine[n] = NoEntry
      /\ quarantine' = [quarantine EXCEPT ![n] = e] /\ quarPos' = n
    BY DEF S_Quarantine, memory, settings, Return, Goto, OnlyMoves
<1>1. /\ frame[t].evicted = {} /\ mutex # t
      /\ b \in Blocks /\ b \in mapped /\ b \notin live /\ b \notin BlocksIn(lru)
      /\ \A s \in Slots : quarantine[s].block # b
      /\ \A u \in Threads \ {t} : Block(u) # b
      /\ \A u \in Threads : b \notin frame[u].evicted
    BY <1>0, FrameFacts, InHand DEF InFrame, WithBlock
<1>2. e \in Entry /\ e # NoEntry /\ e.block = b /\ Zeroed(e)
    BY <1>0, StampedFacts DEF WithBlock
<1>3. n \in Slots /\ n # -1 /\ n \in Int
    BY NextSlotIsSlot DEF S_Quarantine, Slots
<1>4. Block(t) = b /\ NoEntry.block \notin Blocks
    BY EntryFacts
<1> HIDE DEF b, n, e
<1>5. /\ quarantine' \in [Slots -> Entry \cup {NoEntry}] /\ quarantine'[n] = e
      /\ \A s \in Slots \ {n} : quarantine'[s] = quarantine[s]
    BY <1>0, <1>2, <1>3 DEF CacheTypes
<1>6. /\ pc' \in [Threads -> WithBlock \cup WithoutBlock] /\ frame' \in [Threads -> Frame]
      /\ pc'[t] = "idle" /\ frame'[t] = NoFrame
      /\ \A u \in Threads \ {t} :
            pc'[u] = pc[u] /\ frame'[u] = frame[u] /\ Block(u)' = Block(u)
      /\ Block(t)' \notin Blocks
    BY <1>0, MoveFacts, NoFrameIsFrame, EntryFacts
<1>7. CacheTypes'
    BY <1>0, <1>3, <1>5, <1>6 DEF CacheTypes
<1>8. \A u \in Threads : InFrame(u)'
    BY <1>0, <1>1, <1>6, NoFrameIsFrame DEF InFrame, WithBlock
<1>9. Keeping'
  <2>1. \A u \in Threads : frame'[u].evicted = frame[u].evicted
      BY <1>1, <1>6, NoFrameIsFrame
  <2>2. ASSUME NEW c \in Blocks
        PROVE  Exclusive(c)'
    <3>1. CASE c = b
        BY <1>0, <1>1, <1>2, <1>5, <1>6, <2>1, <3>1 DEF Exclusive
    <3>2. CASE c # b
        BY <1>0, <1>2, <1>4, <1>5, <1>6, <2>1, <3>2 DEF Keeping, Exclusive
    <3> QED
        BY <3>1, <3>2
  <2>3. ASSUME NEW c \in Blocks
        PROVE  Kept(c)'
    <3>1. CASE c = b
        BY <1>0, <1>1, <1>2, <1>3, <1>5, <3>1 DEF Kept
    <3>2. CASE c # b
        BY <1>0, <1>2, <1>4, <1>5, <1>6, <2>1, <3>2 DEF Keeping, Kept
    <3> QED
        BY <3>1, <3>2
  <2> QED
      BY <1>0, <2>2, <2>3 DEF Keeping
<1>10. ZerosKnown'
    BY <1>0, <1>2, <1>5, <1>6, NoFrameIsFrame DEF ZerosKnown, Zeroed
<1>11. GuardsKnown'
  <2>1. tagging
      BY <1>0 DEF GuardsKnown
  <2>2. \A u \in Threads : UntaggedAt(u)'
      BY <1>0, <1>3, <1>6 DEF GuardsKnown, UntaggedAt
  <2> QED
      BY <1>0, <1>3, <2>1, <2>2 DEF GuardsKnown
<1>12. OldestIsSet'
    BY <1>0 DEF OldestIsSet
<1> QED
    BY <1>7, <1>8, <1>9, <1>10, <1>11, <1>12

\* It takes the block and gives an older one for it.
LEMMA S_ExchangeKeeps == ASSUME CacheInv, NEW t \in Threads, S_Exchange(t) PROVE CacheInv'
<1> USE DEF CacheInv
<1> DEFINE b == Block(t)
           n == NextSlot
           e == Stamped(t)
           o == quarantine[n]
           work == [frame[t] EXCEPT !.now = clock, !.entry = o]
<1>0. /\ UNCHANGED <<lru, mapped, guarded, zeroed, live>>
      /\ UNCHANGED <<maxEntries, interval, tagging, clock>>
      /\ pc[t] = "lock" /\ pc' = [pc EXCEPT ![t] = "evict"]
      /\ frame[t].tag /\ quarPos # -1 /\ o # NoEntry
      /\ quarantine' = [quarantine EXCEPT ![n] = e] /\ quarPos' = n
      /\ oldest' = OldestAfter(e) /\ mutex = None /\ mutex' = t
    BY DEF S_Exchange, memory, settings, Goto
<1>1. /\ frame[t].evicted = {} /\ mutex # t /\ frame[t] \in Frame
      /\ b \in Blocks /\ b \in mapped /\ b \notin live /\ b \notin BlocksIn(lru)
      /\ \A s \in Slots : quarantine[s].block # b
      /\ \A u \in Threads \ {t} : Block(u) # b
      /\ \A u \in Threads : b \notin frame[u].evicted
    BY <1>0, FrameFacts, InHand DEF InFrame, WithBlock
<1>2. e \in Entry /\ e # NoEntry /\ e.block = b /\ Zeroed(e) /\ e.time \in Nat
    BY <1>0, StampedFacts, EntryFacts DEF WithBlock
<1>3. n \in Slots /\ n # -1 /\ n \in Int
    BY NextSlotIsSlot DEF S_Exchange, Slots
<1>4. OnlyMoves(t, "evict", work)
  <2>1. frame \in [Threads -> Frame]
      BY DEF CacheTypes
  <2>2. frame' = [frame EXCEPT ![t].now = clock, ![t].entry = o]
      BY DEF S_Exchange
  <2>3. frame' = [frame EXCEPT ![t] = work]
      BY <2>1, <2>2
  <2> QED
      BY <1>0, <2>3 DEF OnlyMoves
<1>5. o \in Entry /\ o.block \in Blocks /\ o.block # b /\ Zeroed(o)
  <2>1. o \in Entry \cup {NoEntry} /\ Zeroed(o)
      BY <1>3 DEF CacheTypes, ZerosKnown
  <2> HIDE DEF o
  <2>2. o \in Entry /\ o.block \in Blocks
      BY <1>0, <2>1, EntryFacts
  <2> QED
      BY <1>1, <1>3, <2>1, <2>2 DEF o
<1>6. work \in Frame /\ work.entry = o /\ work.evicted = {} /\ work.tag = frame[t].tag
  <2> HIDE DEF o
  <2>1. clock \in Nat
      BY DEF CacheTypes
  <2> QED
      BY <1>1, <1>5, <2>1 DEF Frame
<1>7. Block(t) = b /\ o = quarantine[n]
    OBVIOUS
<1> HIDE DEF b, n, e, o, work
<1>8. /\ quarantine' \in [Slots -> Entry \cup {NoEntry}] /\ quarantine'[n] = e
      /\ \A s \in Slots \ {n} : quarantine'[s] = quarantine[s]
    BY <1>0, <1>2, <1>3 DEF CacheTypes
<1>9. /\ pc' \in [Threads -> WithBlock \cup WithoutBlock] /\ frame' \in [Threads -> Frame]
      /\ pc'[t] = "evict" /\ frame'[t] = work
      /\ \A u \in Threads \ {t} :
            pc'[u] = pc[u] /\ frame'[u] = frame[u] /\ Block(u)' = Block(u)
      /\ Block(t)' = o.block
    BY <1>4, <1>6, MoveFacts DEF WithBlock
<1>10. oldest' \in Nat /\ (oldest # 0 => oldest' # 0)
    BY <1>0, <1>2 DEF CacheTypes, OldestAfter
<1>11. CacheTypes'
    BY <1>0, <1>3, <1>8, <1>9, <1>10 DEF CacheTypes
<1>12. \A u \in Threads : InFrame(u)'
  <2>1. InFrame(t)'
      BY <1>0, <1>5, <1>6, <1>9, EntryFacts DEF InFrame, WithBlock
  <2>2. \A u \in Threads \ {t} : InFrame(u)'
    <3>1. \A u \in Threads : None # u
        BY MapCacheAssumption DEF MapCacheAssumption
    <3> QED
        BY <1>0, <1>9, <3>1 DEF InFrame
  <2> QED
      BY <2>1, <2>2
<1>13. Keeping'
  <2>1. \A u \in Threads : frame'[u].evicted = frame[u].evicted
      BY <1>1, <1>6, <1>9
  <2>2. Exclusive(o.block)
      BY <1>5 DEF Keeping
  <2>3. /\ o.block \notin live /\ o.block \notin BlocksIn(lru)
        /\ \A s \in Slots \ {n} : quarantine[s].block # o.block
        /\ \A u \in Threads : Block(u) # o.block /\ o.block \notin frame[u].evicted
      BY <1>3, <1>7, <2>2 DEF Exclusive
  <2>4. ASSUME NEW c \in Blocks
        PROVE  Exclusive(c)'
    <3>1. CASE c = b
        BY <1>0, <1>1, <1>2, <1>5, <1>8, <1>9, <2>1, <3>1 DEF Exclusive
    <3>2. CASE c = o.block
        BY <1>0, <1>2, <1>5, <1>8, <1>9, <2>1, <2>3, <3>2 DEF Exclusive
    <3>3. CASE c # b /\ c # o.block
        BY <1>0, <1>2, <1>7, <1>8, <1>9, <2>1, <3>3 DEF Keeping, Exclusive
    <3> QED
        BY <3>1, <3>2, <3>3
  <2>5. ASSUME NEW c \in Blocks
        PROVE  Kept(c)'
    <3>1. CASE c = b
        BY <1>0, <1>1, <1>2, <1>3, <1>8, <3>1 DEF Kept
    <3>2. CASE c = o.block
      <4>1. Kept(c)
          BY DEF Keeping
      <4>2. c \in mapped
          BY <1>3, <1>7, <3>2, <4>1 DEF Kept
      <4> QED
          BY <1>0, <1>9, <3>2, <4>2 DEF Kept
    <3>3. CASE c # b /\ c # o.block
        BY <1>0, <1>2, <1>7, <1>8, <1>9, <2>1, <3>3 DEF Keeping, Kept
    <3> QED
        BY <3>1, <3>2, <3>3
  <2> QED
      BY <1>0, <2>4, <2>5 DEF Keeping
<1>14. ZerosKnown'
    BY <1>0, <1>2, <1>5, <1>6, <1>8, <1>9 DEF ZerosKnown, Zeroed
<1>15. GuardsKnown'
  <2>1. tagging
      BY <1>0 DEF GuardsKnown
  <2>2. \A u \in Threads : UntaggedAt(u)'
      BY <1>0, <1>3, <1>6, <1>9 DEF GuardsKnown, UntaggedAt
  <2> QED
      BY <1>0, <1>3, <2>1, <2>2 DEF GuardsKnown
<1>16. OldestIsSet'
    BY <1>0, <1>10 DEF OldestIsSet
<1> QED
    BY <1>11, <1>12, <1>13, <1>14, <1>15, <1>16

\* The call takes Mutex with its own block in hand.
LEMMA S_EnterKeeps == ASSUME CacheInv, NEW t \in Threads, S_Enter(t) PROVE CacheInv'
<1> USE DEF CacheInv
<1> DEFINE e == Stamped(t)
           work == [frame[t] EXCEPT !.now = clock, !.entry = e]
<1>0. /\ UNCHANGED <<lru, quarantine, quarPos, oldest, mapped, guarded, zeroed, live>>
      /\ UNCHANGED <<maxEntries, interval, tagging, clock>>
      /\ pc[t] = "lock" /\ pc' = [pc EXCEPT ![t] = "evict"]
      /\ mutex = None /\ mutex' = t
      /\ quarPos = -1 => ~frame[t].tag
    BY DEF S_Enter, cacheVars, memory, settings, Goto
<1>1. /\ frame[t].evicted = {} /\ mutex # t /\ frame[t] \in Frame
    BY <1>0, FrameFacts DEF InFrame, WithBlock
<1>2. e \in Entry /\ e # NoEntry /\ e.block = Block(t) /\ Zeroed(e)
    BY <1>0, StampedFacts DEF WithBlock
<1>3. OnlyMoves(t, "evict", work)
  <2>1. frame \in [Threads -> Frame]
      BY DEF CacheTypes
  <2>2. frame' = [frame EXCEPT ![t].now = clock, ![t].entry = e]
      BY DEF S_Enter
  <2>3. frame' = [frame EXCEPT ![t] = work]
      BY <2>1, <2>2
  <2> QED
      BY <1>0, <2>3 DEF OnlyMoves
<1> HIDE DEF e
<1>4. work \in Frame /\ work.entry = e /\ work.evicted = {} /\ work.tag = frame[t].tag
  <2>1. clock \in Nat
      BY DEF CacheTypes
  <2> QED
      BY <1>1, <1>2, <2>1 DEF Frame
<1> HIDE DEF work
<1>5. /\ pc' \in [Threads -> WithBlock \cup WithoutBlock] /\ frame' \in [Threads -> Frame]
      /\ pc'[t] = "evict" /\ frame'[t] = work
      /\ \A u \in Threads \ {t} :
            pc'[u] = pc[u] /\ frame'[u] = frame[u] /\ Block(u)' = Block(u)
      /\ Block(t)' = Block(t)
    BY <1>2, <1>3, <1>4, MoveFacts DEF WithBlock
<1>6. CacheTypes'
    BY <1>0, <1>5 DEF CacheTypes
<1>7. \A u \in Threads : InFrame(u)'
  <2>1. InFrame(t)'
      BY <1>0, <1>2, <1>4, <1>5 DEF InFrame, WithBlock
  <2>2. \A u \in Threads : None # u
      BY MapCacheAssumption DEF MapCacheAssumption
  <2>3. \A u \in Threads \ {t} : InFrame(u)'
      BY <1>0, <1>5, <2>2 DEF InFrame
  <2> QED
      BY <2>1, <2>3
<1>8. \A u \in Threads : /\ frame'[u].evicted = frame[u].evicted /\ Block(u)' = Block(u)
                         /\ frame'[u].tag = frame[u].tag
    BY <1>1, <1>4, <1>5
<1>9. Keeping'
    BY <1>0, <1>8 DEF Keeping, Exclusive, Kept
<1>10. ZerosKnown'
    BY <1>0, <1>2, <1>4, <1>5 DEF ZerosKnown, Zeroed
<1>11. GuardsKnown'
  <2>1. UntaggedAt(t)
      BY DEF GuardsKnown
  <2>2. UntaggedAt(t)'
      BY <1>0, <1>4, <1>5, <2>1 DEF UntaggedAt
  <2>3. \A u \in Threads \ {t} : UntaggedAt(u)'
      BY <1>0, <1>5 DEF GuardsKnown, UntaggedAt
  <2> QED
      BY <1>0, <1>8, <2>2, <2>3 DEF GuardsKnown
<1>12. OldestIsSet'
    BY <1>0 DEF OldestIsSet
<1> QED
    BY <1>6, <1>7, <1>9, <1>10, <1>11, <1>12

\* The last entry leaves the cache for the call's list of evicted blocks.
LEMMA S_EvictKeeps == ASSUME CacheInv, NEW t \in Threads, S_Evict(t) PROVE CacheInv'
<1> USE DEF CacheInv
<1> DEFINE e == Last(lru)
           b == e.block
           work == [frame[t] EXCEPT !.evicted = frame[t].evicted \cup {b}]
<1>0. /\ UNCHANGED <<mutex, quarantine, quarPos, oldest, mapped, guarded, zeroed, live, pc>>
      /\ UNCHANGED <<maxEntries, interval, tagging, clock>>
      /\ pc[t] = "evict" /\ lru # <<>> /\ lru' = Front(lru)
    BY DEF S_Evict, memory, settings
<1>1. /\ lru \in Seq(Entry) /\ Distinct(lru)
      /\ frame[t] \in Frame /\ pc \in [Threads -> WithBlock \cup WithoutBlock]
    BY DEF CacheTypes, Keeping
<1>2. Without(lru', lru, e) /\ e \in Entry /\ b \in BlocksIn(lru)
    BY <1>0, <1>1, FrontRemoves
<1>3. b \in Blocks
    BY <1>2 DEF Entry
<1>4. /\ frame' = [frame EXCEPT ![t] = work]
      /\ frame \in [Threads -> Frame]
  <2>1. frame \in [Threads -> Frame]
      BY DEF CacheTypes
  <2>2. frame' = [frame EXCEPT ![t].evicted = @ \cup {b}]
      BY DEF S_Evict
  <2> QED
      BY <2>1, <2>2
<1>5. /\ lru' \in Seq(Entry) /\ Distinct(lru)' /\ BlocksIn(lru)' = BlocksIn(lru) \ {b}
      /\ \A j \in DOMAIN lru' : \E k \in DOMAIN lru : lru'[j] = lru[k]
    BY <1>2 DEF Without
<1> HIDE DEF b, e
<1>6. /\ work \in Frame /\ work.entry = frame[t].entry /\ work.tag = frame[t].tag
      /\ work.evicted = frame[t].evicted \cup {b}
    BY <1>1, <1>3 DEF Frame
<1> HIDE DEF work
<1>7. /\ frame' \in [Threads -> Frame] /\ frame'[t] = work
      /\ \A u \in Threads \ {t} : frame'[u] = frame[u]
    BY <1>4, <1>6
<1>8. /\ \A u \in Threads : /\ frame'[u].entry = frame[u].entry /\ Block(u)' = Block(u)
                            /\ frame'[u].tag = frame[u].tag
      /\ \A u \in Threads \ {t} : frame'[u].evicted = frame[u].evicted
      /\ frame'[t].evicted = frame[t].evicted \cup {b}
    BY <1>6, <1>7 DEF Block
<1>9. CacheTypes'
    BY <1>0, <1>1, <1>5, <1>7 DEF CacheTypes
<1>10. \A u \in Threads : InFrame(u)'
    BY <1>0, <1>8 DEF InFrame
<1>11. Keeping'
  <2>1. Exclusive(b)
      BY <1>3 DEF Keeping
  <2>2. /\ b \notin live
        /\ \A s \in Slots : quarantine[s].block # b
        /\ \A u \in Threads : Block(u) # b /\ b \notin frame[u].evicted
      BY <1>2, <2>1 DEF Exclusive
  <2>3. ASSUME NEW c \in Blocks
        PROVE  Exclusive(c)'
    <3>1. CASE c = b
        BY <1>0, <1>5, <1>8, <2>2, <3>1 DEF Exclusive
    <3>2. CASE c # b
      <4>1. Exclusive(c)
          BY DEF Keeping
      <4>2. \A u \in Threads : c \in frame'[u].evicted <=> c \in frame[u].evicted
          BY <1>8, <3>2
      <4>3. c \in BlocksIn(lru)' <=> c \in BlocksIn(lru)
          BY <1>5, <3>2
      <4> QED
          BY <1>0, <1>8, <4>1, <4>2, <4>3 DEF Exclusive
    <3> QED
        BY <3>1, <3>2
  <2>4. ASSUME NEW c \in Blocks
        PROVE  Kept(c)'
    <3>1. Kept(c)
        BY DEF Keeping
    <3>2. CASE c = b
        BY <1>0, <1>2, <1>8, <3>1, <3>2 DEF Kept
    <3>3. CASE c # b
      <4>1. \A u \in Threads : c \in frame'[u].evicted <=> c \in frame[u].evicted
          BY <1>8, <3>3
      <4>2. c \in BlocksIn(lru)' <=> c \in BlocksIn(lru)
          BY <1>5, <3>3
      <4> QED
          BY <1>0, <1>8, <3>1, <4>1, <4>2 DEF Kept
    <3> QED
        BY <3>2, <3>3
  <2> QED
      BY <1>5, <2>3, <2>4 DEF Keeping
<1>12. ZerosKnown'
    BY <1>0, <1>5, <1>8 DEF ZerosKnown, Zeroed
<1>13. GuardsKnown'
  <2>1. \A u \in Threads : UntaggedAt(u)'
      BY <1>0, <1>8 DEF GuardsKnown, UntaggedAt
  <2> QED
      BY <1>0, <1>5, <1>8, <2>1 DEF GuardsKnown
<1>14. OldestIsSet'
    BY <1>0, <1>5 DEF OldestIsSet
<1> QED
    BY <1>9, <1>10, <1>11, <1>12, <1>13, <1>14

\* The entry in hand joins the cache, and Mutex is given back.
LEMMA S_InsertKeeps == ASSUME CacheInv, NEW t \in Threads, S_Insert(t) PROVE CacheInv'
<1> USE DEF CacheInv
<1> DEFINE e == frame[t].entry
           b == Block(t)
           work == [frame[t] EXCEPT !.entry = NoEntry]
<1>0. /\ UNCHANGED <<quarantine, quarPos, mapped, guarded, zeroed, live>>
      /\ UNCHANGED <<maxEntries, interval, tagging, clock>>
      /\ pc[t] = "evict" /\ OnlyMoves(t, "drop", work) /\ mutex' = None
      /\ lru' = <<e>> \o lru /\ oldest' = OldestAfter(e)
    BY DEF S_Insert, memory, settings, Goto, OnlyMoves, Inserted
<1>1. /\ frame[t] \in Frame /\ mutex = t /\ lru \in Seq(Entry) /\ Distinct(lru)
      /\ e \in Entry /\ e.block = b /\ e.time \in Nat /\ Zeroed(e)
      /\ b \in Blocks /\ b \in mapped /\ b \notin live /\ b \notin BlocksIn(lru)
      /\ \A s \in Slots : quarantine[s].block # b
      /\ \A u \in Threads \ {t} : Block(u) # b
      /\ \A u \in Threads : b \notin frame[u].evicted
  <2>1. e \in Entry /\ e.time \in Nat /\ e.block = b
      BY <1>0, InHand DEF WithBlock, Entry, Block
  <2> QED
      BY <1>0, <2>1, FrameFacts, InHand
         DEF InFrame, WithBlock, CacheTypes, Keeping, ZerosKnown
<1>2. Block(t) = b /\ frame[t].entry = e
    OBVIOUS
<1> HIDE DEF e, b
<1>3. /\ lru' \in Seq(Entry) /\ Distinct(lru)' /\ BlocksIn(lru)' = BlocksIn(lru) \cup {b}
      /\ \A j \in DOMAIN lru' : lru'[j] = e \/ \E k \in DOMAIN lru : lru'[j] = lru[k]
    BY <1>0, <1>1, InsertedAdds
<1>4. /\ work \in Frame /\ work.entry = NoEntry /\ work.tag = frame[t].tag
      /\ work.evicted = frame[t].evicted
    BY <1>1 DEF Frame
<1> HIDE DEF work
<1>5. /\ pc' \in [Threads -> WithBlock \cup WithoutBlock] /\ frame' \in [Threads -> Frame]
      /\ pc'[t] = "drop" /\ frame'[t] = work
      /\ \A u \in Threads \ {t} :
            pc'[u] = pc[u] /\ frame'[u] = frame[u] /\ Block(u)' = Block(u)
      /\ Block(t)' \notin Blocks
  <2>1. OnlyMoves(t, "drop", work)
      BY <1>0
  <2>2. NoEntry.block \notin Blocks
      BY EntryFacts
  <2> QED
      BY <1>4, <2>1, <2>2, MoveFacts DEF WithoutBlock
<1>6. oldest' \in Nat /\ (e.time # 0 \/ oldest # 0 => oldest' # 0)
    BY <1>0, <1>1 DEF CacheTypes, OldestAfter
<1>7. CacheTypes'
    BY <1>0, <1>3, <1>5, <1>6 DEF CacheTypes
<1>8. \A u \in Threads : InFrame(u)'
  <2>1. \A u \in Threads : None # u
      BY MapCacheAssumption DEF MapCacheAssumption
  <2>2. InFrame(t)'
      BY <1>0, <1>4, <1>5, <2>1 DEF InFrame, WithBlock
  <2>3. \A u \in Threads \ {t} : InFrame(u)'
      BY <1>0, <1>1, <1>5, <2>1 DEF InFrame
  <2> QED
      BY <2>2, <2>3
<1>9. Keeping'
  <2>1. \A u \in Threads : frame'[u].evicted = frame[u].evicted
      BY <1>4, <1>5
  <2>2. ASSUME NEW c \in Blocks
        PROVE  Exclusive(c)'
    <3>1. CASE c = b
        BY <1>0, <1>1, <1>3, <1>5, <2>1, <3>1 DEF Exclusive
    <3>2. CASE c # b
      <4>1. Exclusive(c)
          BY DEF Keeping
      <4>2. c \in BlocksIn(lru)' <=> c \in BlocksIn(lru)
          BY <1>3, <3>2
      <4>3. \A u \in Threads : Block(u)' = c => Block(u) = c
          BY <1>5
      <4> QED
          BY <1>0, <2>1, <4>1, <4>2, <4>3 DEF Exclusive
    <3> QED
        BY <3>1, <3>2
  <2>3. ASSUME NEW c \in Blocks
        PROVE  Kept(c)'
    <3>1. CASE c = b
        BY <1>0, <1>1, <1>3, <3>1 DEF Kept
    <3>2. CASE c # b
      <4>1. Kept(c)
          BY DEF Keeping
      <4>2. c \in BlocksIn(lru)' <=> c \in BlocksIn(lru)
          BY <1>3, <3>2
      <4>3. \A u \in Threads : Block(u)' = c <=> Block(u) = c
          BY <1>2, <1>5, <3>2
      <4> QED
          BY <1>0, <2>1, <4>1, <4>2, <4>3 DEF Kept
    <3> QED
        BY <3>1, <3>2
  <2> QED
      BY <1>3, <2>2, <2>3 DEF Keeping
<1>10. ZerosKnown'
  <2>1. \A j \in DOMAIN lru' : Zeroed(lru'[j])
      BY <1>1, <1>3 DEF ZerosKnown
  <2>2. Zeroed(NoEntry)
      BY DEF Zeroed
  <2>3. \A u \in Threads : Zeroed(frame'[u].entry)
      BY <1>4, <1>5, <2>2 DEF ZerosKnown
  <2> QED
      BY <1>0, <2>1, <2>3 DEF ZerosKnown, Zeroed
<1>11. GuardsKnown'
  <2>1. \A u \in Threads : UntaggedAt(u)
      BY DEF GuardsKnown
  <2>2. UntaggedAt(t)'
      BY <1>0, <1>4, <1>5, <2>1 DEF UntaggedAt
  <2>3. \A u \in Threads \ {t} : UntaggedAt(u)'
      BY <1>0, <1>5, <2>1 DEF UntaggedAt
  <2>4. quarPos = -1 => b \notin guarded
      BY <1>0, <1>2, <2>1 DEF UntaggedAt
  <2>5. quarPos' = -1 => BlocksIn(lru)' \cap guarded' = {}
      BY <1>0, <1>3, <2>4 DEF GuardsKnown
  <2>6. \A u \in Threads : frame'[u].tag = frame[u].tag
      BY <1>4, <1>5
  <2>7. ~tagging' => quarPos' = -1 \/ (guarded' = {} /\ \A u \in Threads : ~frame'[u].tag)
      BY <1>0, <2>6 DEF GuardsKnown
  <2> QED
      BY <1>0, <2>2, <2>3, <2>5, <2>7 DEF GuardsKnown
<1>12. OldestIsSet'
    BY <1>3, <1>6 DEF OldestIsSet
<1> QED
    BY <1>7, <1>8, <1>9, <1>10, <1>11, <1>12

\* The call unmaps what it evicted.
LEMMA S_DropKeeps == ASSUME CacheInv, NEW t \in Threads, S_Drop(t) PROVE CacheInv'
<1> USE DEF CacheInv
<1> DEFINE gone == frame[t].evicted
           stage == IF frame[t].every >= 0 THEN "release" ELSE "idle"
           work == IF frame[t].every >= 0 THEN [frame[t] EXCEPT !.evicted = {}] ELSE NoFrame
<1>0. /\ UNCHANGED <<mutex, lru, quarantine, quarPos, oldest, live>>
      /\ UNCHANGED <<maxEntries, interval, tagging, clock>>
      /\ pc[t] = "drop"
      /\ mapped' = mapped \ gone /\ guarded' = guarded \ gone /\ zeroed' = zeroed \ gone
    BY DEF S_Drop, Unmapped, cacheVars, settings
<1>1. OnlyMoves(t, stage, work)
  <2>1. CASE frame[t].every >= 0
    <3>1. frame \in [Threads -> Frame]
        BY DEF CacheTypes
    <3>2. frame' = [frame EXCEPT ![t].evicted = {}] /\ pc' = [pc EXCEPT ![t] = "release"]
        BY <2>1 DEF S_Drop, Goto
    <3> QED
        BY <2>1, <3>1, <3>2 DEF OnlyMoves
  <2>2. CASE ~(frame[t].every >= 0)
      BY <2>2 DEF S_Drop, Return, Goto, OnlyMoves
  <2> QED
      BY <2>1, <2>2
<1>2. /\ frame[t] \in Frame /\ frame[t].entry = NoEntry /\ mutex # t /\ Block(t) \notin Blocks
      /\ gone \subseteq Blocks
    BY <1>0, FrameFacts DEF InFrame, WithBlock
<1>3. ASSUME NEW c \in gone
      PROVE  /\ c \notin live /\ c \notin BlocksIn(lru)
             /\ \A s \in Slots : quarantine[s].block # c
             /\ \A u \in Threads : Block(u) # c
             /\ \A u \in Threads \ {t} : c \notin frame[u].evicted
  <2>1. c \in Blocks /\ Exclusive(c) /\ c \in frame[t].evicted
      BY <1>2 DEF Keeping
  <2> QED
      BY <2>1 DEF Exclusive
<1>4. frame[t].evicted = gone
    OBVIOUS
<1> HIDE DEF gone
<1>5. /\ work \in Frame /\ work.entry = NoEntry /\ work.evicted = {}
      /\ work.tag => frame[t].tag
      /\ stage # "idle" => work.tag = frame[t].tag
  <2>1. CASE frame[t].every >= 0
      BY <1>2, <2>1 DEF Frame
  <2>2. CASE ~(frame[t].every >= 0)
      BY <2>2, NoFrameIsFrame
  <2> QED
      BY <2>1, <2>2
<1>6. stage \in {"release", "idle"}
    OBVIOUS
<1> HIDE DEF work, stage
<1>7. /\ pc' \in [Threads -> WithBlock \cup WithoutBlock] /\ frame' \in [Threads -> Frame]
      /\ pc'[t] = stage /\ frame'[t] = work
      /\ \A u \in Threads \ {t} :
            pc'[u] = pc[u] /\ frame'[u] = frame[u] /\ Block(u)' = Block(u)
      /\ Block(t)' \notin Blocks
  <2>1. NoEntry.block \notin Blocks
      BY EntryFacts
  <2>2. stage \in WithBlock \cup WithoutBlock
      BY <1>6 DEF WithoutBlock
  <2> QED
      BY <1>1, <1>5, <2>1, <2>2, MoveFacts
<1>8. CacheTypes'
    BY <1>0, <1>7 DEF CacheTypes
<1>9. \A u \in Threads : InFrame(u)'
    BY <1>0, <1>2, <1>5, <1>6, <1>7 DEF InFrame, WithBlock
<1>10. /\ frame'[t].evicted = {}
       /\ \A u \in Threads \ {t} : frame'[u].evicted = frame[u].evicted
    BY <1>5, <1>7
<1>11. Keeping'
  <2>1. ASSUME NEW c \in Blocks
        PROVE  Exclusive(c)'
    <3>1. Exclusive(c)
        BY DEF Keeping
    <3>2. /\ \A u \in Threads : c \in frame'[u].evicted => c \in frame[u].evicted
          /\ \A u \in Threads : Block(u)' = c => Block(u) = c
        BY <1>7, <1>10
    <3>3. BlocksIn(lru)' = BlocksIn(lru)
        BY <1>0
    <3> QED
        BY <1>0, <3>1, <3>2, <3>3 DEF Exclusive
  <2>2. ASSUME NEW c \in Blocks
        PROVE  Kept(c)'
    <3>1. Kept(c)
        BY DEF Keeping
    <3>2. BlocksIn(lru)' = BlocksIn(lru)
        BY <1>0
    <3>3. CASE c \in gone
        BY <1>0, <1>3, <1>7, <1>10, <3>2, <3>3 DEF Kept
    <3>4. CASE c \notin gone
      <4>1. /\ \A u \in Threads : c \in frame'[u].evicted <=> c \in frame[u].evicted
            /\ \A u \in Threads : Block(u)' = c <=> Block(u) = c
          BY <1>2, <1>4, <1>7, <1>10, <3>4
      <4> QED
          BY <1>0, <3>1, <3>2, <3>4, <4>1 DEF Kept
    <3> QED
        BY <3>3, <3>4
  <2> QED
      BY <1>0, <2>1, <2>2 DEF Keeping
<1>12. ZerosKnown'
  <2>1. zeroed' \subseteq mapped' /\ zeroed' \cap live' = {}
      BY <1>0 DEF ZerosKnown
  <2>2. \A j \in DOMAIN lru' : Zeroed(lru[j])'
      BY <1>0, <1>3 DEF ZerosKnown, Zeroed, BlocksIn
  <2>3. \A s \in Slots : Zeroed(quarantine[s])'
      BY <1>0, <1>3 DEF ZerosKnown, Zeroed
  <2>4. \A u \in Threads : Zeroed(frame[u].entry)'
      BY <1>0, <1>3, <1>5, <1>7 DEF ZerosKnown, Zeroed, Block
  <2> QED
      BY <2>1, <2>2, <2>3, <2>4 DEF ZerosKnown
<1>13. GuardsKnown'
  <2>1. \A u \in Threads : UntaggedAt(u)
      BY DEF GuardsKnown
  <2>2. UntaggedAt(t)'
      BY <1>0, <1>5, <1>6, <1>7, <2>1 DEF UntaggedAt
  <2>3. \A u \in Threads \ {t} : UntaggedAt(u)'
      BY <1>0, <1>7, <2>1 DEF UntaggedAt
  <2>4. \A u \in Threads : frame'[u].tag => frame[u].tag
      BY <1>5, <1>7
  <2>5. ~tagging' => quarPos' = -1 \/ (guarded' = {} /\ \A u \in Threads : ~frame'[u].tag)
      BY <1>0, <2>4 DEF GuardsKnown
  <2>6. guarded' \subseteq mapped' /\ guarded' \cap live' = {}
      BY <1>0 DEF GuardsKnown
  <2>7. quarPos' = -1 => BlocksIn(lru)' \cap guarded' = {}
      BY <1>0 DEF GuardsKnown
  <2> QED
      BY <2>2, <2>3, <2>5, <2>6, <2>7 DEF GuardsKnown
<1>14. OldestIsSet'
    BY <1>0 DEF OldestIsSet
<1> QED
    BY <1>8, <1>9, <1>11, <1>12, <1>13, <1>14

\* An entry after a release of what is as old as time.
Aged(e, time) == IF Stale(e, time) THEN [e EXCEPT !.time = 0] ELSE e

\* It is of the same block.
LEMMA AgedFacts ==
    ASSUME NEW e \in Entry \cup {NoEntry}, NEW time \in Nat
    PROVE  /\ Aged(e, time) \in Entry \cup {NoEntry}
           /\ e \in Entry => Aged(e, time) \in Entry
           /\ Aged(e, time) = NoEntry <=> e = NoEntry
           /\ Aged(e, time).block = e.block
           /\ Aged(e, time).time # 0 => e.time > time
           /\ e # NoEntry /\ Aged(e, time).time = 0 => e.time = 0 \/ Stale(e, time)
<1>1. CASE e = NoEntry
  <2>1. e.time = 0 /\ Aged(e, time) = e /\ e \notin Entry
      BY <1>1, EntryFacts DEF Aged, Stale, NoEntry, Entry
  <2> QED
      BY <1>1, <2>1
<1>2. CASE e # NoEntry
  <2>1. e \in Entry /\ e.time \in Nat /\ e.block \in Blocks
      BY <1>2, EntryFacts
  <2>2. CASE Stale(e, time)
    <3> DEFINE a == Aged(e, time)
    <3>1. a \in Entry /\ a.block = e.block /\ a.time = 0
        BY <2>1, <2>2 DEF Aged, Entry
    <3> HIDE DEF a
    <3>2. a # NoEntry
        BY <2>1, <3>1, EntryFacts
    <3> QED
        BY <1>2, <2>2, <3>1, <3>2 DEF a
  <2>3. CASE ~Stale(e, time)
    <3>1. Aged(e, time) = e
        BY <2>3 DEF Aged
    <3>2. e.time # 0 => e.time > time
        BY <1>2, <2>1, <2>3 DEF Stale
    <3> QED
        BY <1>2, <2>1, <3>1, <3>2
  <2> QED
      BY <2>2, <2>3
<1> QED
    BY <1>1, <1>2

\* What releaseOlderThan does to the entries, the memory and OldestTime.
LEMMA ReleaseFacts ==
    ASSUME CacheInv, NEW time \in Nat, ReleaseOlderThan(time)
    PROVE  /\ lru' \in Seq(Entry) /\ DOMAIN lru' = DOMAIN lru
           /\ \A i \in DOMAIN lru : lru'[i].block = lru[i].block /\ Zeroed(lru[i])'
           /\ quarantine' \in [Slots -> Entry \cup {NoEntry}]
           /\ \A s \in Slots : quarantine'[s].block = quarantine[s].block
                               /\ Zeroed(quarantine[s])'
           /\ oldest' \in Nat /\ OldestIsSet'
           /\ zeroed \subseteq zeroed'
           /\ \A b \in zeroed' : \/ b \in zeroed
                                 \/ b \in BlocksIn(lru)
                                 \/ \E s \in Slots : quarantine[s].block = b
           /\ zeroed' \subseteq zeroed \cup Blocks
<1> USE DEF CacheInv
<1>1. /\ lru \in Seq(Entry) /\ quarantine \in [Slots -> Entry \cup {NoEntry}] /\ oldest \in Nat
      /\ \A i \in DOMAIN lru : Zeroed(lru[i])
      /\ \A s \in Slots : Zeroed(quarantine[s])
    BY DEF CacheTypes, ZerosKnown
<1>2. CASE GivesUp(time)
  <2>1. UNCHANGED <<lru, quarantine, oldest, zeroed>>
      BY <1>2 DEF ReleaseOlderThan
  <2> QED
      BY <1>1, <2>1 DEF Zeroed, OldestIsSet
<1>3. CASE ~GivesUp(time)
  <2> DEFINE kept == {e.time : e \in {x \in Cached : x.time > time}}
  <2>1. /\ lru' = [i \in DOMAIN lru |-> Aged(lru[i], time)]
        /\ quarantine' = [s \in Slots |-> Aged(quarantine[s], time)]
        /\ oldest' = IF kept = {} THEN 0 ELSE CHOOSE x \in kept : \A y \in kept : x <= y
        /\ zeroed' = zeroed \cup ReleasedBlocks(time)
      BY <1>3 DEF ReleaseOlderThan, Aged
  <2>2. \A i \in DOMAIN lru : lru[i] \in Entry /\ lru[i] \in Cached
      BY <1>1 DEF Cached
  <2>3. \A s \in Slots : quarantine[s] \in Entry \cup {NoEntry} /\ quarantine[s] \in Cached
      BY <1>1 DEF Cached
  <2>4. \A x \in Cached : x \in Entry \cup {NoEntry}
      BY <2>2, <2>3 DEF Cached
  <2>5. \A i \in DOMAIN lru : Aged(lru[i], time) \in Entry
      BY <2>2, AgedFacts
  <2>6. lru' \in Seq(Entry) /\ DOMAIN lru' = DOMAIN lru
    <3>1. DOMAIN lru = 1 .. Len(lru) /\ Len(lru) \in Nat
        BY <1>1
    <3> QED
        BY <2>1, <2>5, <3>1
  <2>7. quarantine' \in [Slots -> Entry \cup {NoEntry}]
      BY <2>1, <2>3, AgedFacts
  <2>8. /\ zeroed \subseteq zeroed'
        /\ \A b \in zeroed' : \/ b \in zeroed
                              \/ b \in BlocksIn(lru)
                              \/ \E s \in Slots : quarantine[s].block = b
      BY <2>1 DEF ReleasedBlocks, Cached, BlocksIn
  <2>9. zeroed' \subseteq zeroed \cup Blocks
    <3>1. \A x \in Cached : Stale(x, time) => x.block \in Blocks
        BY <2>4, EntryFacts DEF Stale
    <3> QED
        BY <2>1, <3>1 DEF ReleasedBlocks
  <2>10. ASSUME NEW x \in Cached, Zeroed(x), NEW a, a = Aged(x, time)
         PROVE  a.block = x.block /\ (a # NoEntry /\ a.time = 0 => a.block \in zeroed')
    <3>1. x \in Entry \cup {NoEntry}
        BY <2>4
    <3>2. a.block = x.block
        BY <2>10, <3>1, AgedFacts
    <3>3. ASSUME a # NoEntry, a.time = 0
          PROVE  x.block \in zeroed'
      <4>1. x # NoEntry /\ (x.time = 0 \/ Stale(x, time))
          BY <2>10, <3>1, <3>3, AgedFacts
      <4>2. Stale(x, time) => x.block \in ReleasedBlocks(time)
          BY DEF ReleasedBlocks
      <4> QED
          BY <2>1, <2>10, <4>1, <4>2 DEF Zeroed
    <3> QED
        BY <3>2, <3>3
  <2>11. \A i \in DOMAIN lru : lru'[i].block = lru[i].block /\ Zeroed(lru[i])'
      BY <1>1, <2>1, <2>2, <2>10 DEF Zeroed
  <2>12. \A s \in Slots : quarantine'[s].block = quarantine[s].block /\ Zeroed(quarantine[s])'
      BY <1>1, <2>1, <2>3, <2>10 DEF Zeroed
  <2>13. \A k \in kept : k \in Nat /\ k # 0
    <3> SUFFICES ASSUME NEW x \in Cached, x.time > time
                 PROVE  x.time \in Nat /\ x.time # 0
        OBVIOUS
    <3>1. x.time \in Nat
        BY <2>4, EntryFacts DEF NoEntry
    <3> QED
        BY <3>1
  <2>14. \A i \in DOMAIN lru : lru'[i].time # 0 => lru[i].time \in kept
    <3> SUFFICES ASSUME NEW i \in DOMAIN lru, lru'[i].time # 0
                 PROVE  lru[i].time \in kept
        OBVIOUS
    <3>1. lru[i].time > time
        BY <2>1, <2>2, AgedFacts
    <3> QED
        BY <2>2, <3>1
  <2> HIDE DEF kept
  <2>15. kept # {} => oldest' \in kept
    <3> SUFFICES ASSUME kept # {} PROVE oldest' \in kept
        OBVIOUS
    <3>1. \E m \in kept : \A y \in kept : m <= y
        BY <2>13, LeastNumber
    <3>2. oldest' = CHOOSE x \in kept : \A y \in kept : x <= y
        BY <2>1
    <3> QED
        BY <3>1, <3>2
  <2>16. oldest' \in Nat
      BY <2>1, <2>13, <2>15
  <2>17. OldestIsSet'
      BY <2>6, <2>13, <2>14, <2>15 DEF OldestIsSet
  <2> QED
      BY <2>6, <2>7, <2>8, <2>9, <2>11, <2>12, <2>16, <2>17
<1> QED
    BY <1>2, <1>3

\* A release of old entries, whoever makes it.
LEMMA ReleaseKeeps ==
    ASSUME CacheInv, NEW time \in Nat, ReleaseOlderThan(time),
           UNCHANGED <<mutex, quarPos, maxEntries, interval, tagging, clock>>,
           UNCHANGED <<mapped, guarded, live>>,
           pc' \in [Threads -> WithBlock \cup WithoutBlock], frame' \in [Threads -> Frame],
           \A u \in Threads :
              /\ frame'[u].entry = frame[u].entry /\ frame'[u].evicted = frame[u].evicted
              /\ frame'[u].tag => frame[u].tag
              /\ InFrame(u)' /\ UntaggedAt(u)'
    PROVE  CacheInv'
<1> USE DEF CacheInv
<1>1. /\ lru' \in Seq(Entry) /\ DOMAIN lru' = DOMAIN lru
      /\ \A i \in DOMAIN lru : lru'[i].block = lru[i].block /\ Zeroed(lru[i])'
      /\ quarantine' \in [Slots -> Entry \cup {NoEntry}]
      /\ \A s \in Slots : quarantine'[s].block = quarantine[s].block /\ Zeroed(quarantine[s])'
      /\ oldest' \in Nat /\ OldestIsSet'
      /\ zeroed \subseteq zeroed' /\ zeroed' \subseteq zeroed \cup Blocks
      /\ \A b \in zeroed' : \/ b \in zeroed
                            \/ b \in BlocksIn(lru)
                            \/ \E s \in Slots : quarantine[s].block = b
    BY ReleaseFacts
<1>2. CacheTypes'
    BY <1>1 DEF CacheTypes
<1>3. BlocksIn(lru)' = BlocksIn(lru) /\ Distinct(lru)'
  <2>1. BlocksIn(lru)' = BlocksIn(lru)
      BY <1>1 DEF BlocksIn
  <2>2. Distinct(lru)'
      BY <1>1 DEF Keeping, Distinct
  <2> QED
      BY <2>1, <2>2
<1>4. /\ \A u \in Threads : Block(u)' = Block(u) /\ frame'[u].evicted = frame[u].evicted
      /\ \A s \in Slots : quarantine'[s].block = quarantine[s].block
      /\ live' = live /\ mapped' = mapped
    BY <1>1 DEF Block
<1>5. Keeping'
  <2>1. ASSUME NEW c \in Blocks
        PROVE  Exclusive(c)'
    <3>1. Exclusive(c)
        BY DEF Keeping
    <3> QED
        BY <1>3, <1>4, <3>1 DEF Exclusive
  <2>2. ASSUME NEW c \in Blocks
        PROVE  Kept(c)'
    <3>1. Kept(c)
        BY DEF Keeping
    <3> QED
        BY <1>3, <1>4, <3>1 DEF Kept
  <2> QED
      BY <1>3, <2>1, <2>2 DEF Keeping
<1>6. ZerosKnown'
  <2>1. ASSUME NEW b \in zeroed'
        PROVE  b \in mapped /\ b \notin live
    <3>1. CASE b \in zeroed
        BY <3>1 DEF ZerosKnown
    <3>2. CASE b \notin zeroed
      <4>1. b \in Blocks /\ Exclusive(b) /\ Kept(b)
          BY <1>1, <3>2 DEF Keeping
      <4>2. b \in BlocksIn(lru) \/ \E s \in Slots : quarantine[s].block = b
          BY <1>1, <3>2
      <4> QED
          BY <4>1, <4>2 DEF Exclusive, Kept
    <3> QED
        BY <3>1, <3>2
  <2>2. \A u \in Threads : Zeroed(frame[u].entry)'
      BY <1>1 DEF ZerosKnown, Zeroed
  <2> QED
      BY <1>1, <2>1, <2>2 DEF ZerosKnown
<1>7. GuardsKnown'
    BY <1>3 DEF GuardsKnown
<1> QED
    BY <1>1, <1>2, <1>5, <1>6, <1>7

\* store releases old entries at its end.
LEMMA S_ReleaseKeeps == ASSUME CacheInv, NEW t \in Threads, S_Release(t) PROVE CacheInv'
<1> USE DEF CacheInv
<1> DEFINE time == Before(frame[t].now, frame[t].every)
<1>1. /\ UNCHANGED <<mutex, quarPos, maxEntries, interval, tagging, clock>>
      /\ UNCHANGED <<mapped, guarded, live>>
      /\ pc[t] = "release" /\ OnlyMoves(t, "idle", NoFrame) /\ ReleaseOlderThan(time)
    BY DEF S_Release, settings, Return, Goto, OnlyMoves
<1>2. frame[t].entry = NoEntry /\ frame[t].evicted = {} /\ mutex # t
    BY <1>1 DEF InFrame, WithBlock
<1>3. time \in Nat
  <2>1. frame[t].now \in Nat /\ frame[t].every \in Int /\ MaxTime \in Nat
      BY FrameFacts, MapCacheAssumption DEF MapCacheAssumption
  <2> QED
      BY <2>1 DEF Before
<1>4. /\ pc' \in [Threads -> WithBlock \cup WithoutBlock] /\ frame' \in [Threads -> Frame]
      /\ pc'[t] = "idle" /\ frame'[t] = NoFrame
      /\ \A u \in Threads \ {t} :
            pc'[u] = pc[u] /\ frame'[u] = frame[u] /\ Block(u)' = Block(u)
    BY <1>1, MoveFacts, NoFrameIsFrame
<1> HIDE DEF time
<1>5. \A u \in Threads : InFrame(u)'
    BY <1>1, <1>2, <1>4, NoFrameIsFrame DEF InFrame, WithBlock
<1>6. \A u \in Threads : UntaggedAt(u)'
    BY <1>1, <1>4 DEF GuardsKnown, UntaggedAt
<1>7. \A u \in Threads :
         /\ frame'[u].entry = frame[u].entry /\ frame'[u].evicted = frame[u].evicted
         /\ frame'[u].tag => frame[u].tag
    BY <1>2, <1>4, NoFrameIsFrame
<1> QED
    BY <1>1, <1>3, <1>4, <1>5, <1>6, <1>7, ReleaseKeeps

\* releaseToOS releases whatever was not released.
LEMMA ReleaseToOSKeeps == ASSUME CacheInv, ReleaseToOS PROVE CacheInv'
<1> USE DEF CacheInv
<1>1. /\ UNCHANGED <<mutex, quarPos, maxEntries, interval, tagging, clock>>
      /\ UNCHANGED <<mapped, guarded, live, pc, frame>>
      /\ ReleaseOlderThan(MaxTime) /\ MaxTime \in Nat
    BY MapCacheAssumption DEF MapCacheAssumption, ReleaseToOS, settings
<1>2. \A u \in Threads : InFrame(u)' /\ UntaggedAt(u)'
    BY <1>1 DEF InFrame, GuardsKnown, UntaggedAt, Block
<1>3. /\ pc' \in [Threads -> WithBlock \cup WithoutBlock]
      /\ frame' \in [Threads -> Frame]
    BY <1>1 DEF CacheTypes
<1> QED
    BY <1>1, <1>2, <1>3, ReleaseKeeps

\* The quarantine is emptied and unmapped, and the cache is opened.  Nobody is in
\* store's critical section, so no call has left it with a closed block for the cache.
LEMMA DisableCacheTaggingKeeps == ASSUME CacheInv, DisableCacheTagging PROVE CacheInv'
<1> USE DEF CacheInv
<1> DEFINE gone == {quarantine[s].block : s \in Slots}
<1>1. /\ UNCHANGED <<mutex, lru, oldest, live, pc, frame>>
      /\ UNCHANGED <<maxEntries, interval, tagging, clock>>
      /\ mutex = None
      /\ mapped' = mapped \ gone /\ zeroed' = zeroed \ gone
      /\ guarded' = guarded \ (gone \cup BlocksIn(lru))
      /\ quarantine' = [s \in Slots |-> NoEntry] /\ quarPos' = -1
    BY DEF DisableCacheTagging, settings, BlocksIn
<1>2. \A s \in Slots : quarantine[s].block \in gone
    OBVIOUS
<1>3. \A c \in gone : \E s \in Slots : quarantine[s].block = c
    OBVIOUS
<1> HIDE DEF gone
<1>4. quarantine' \in [Slots -> Entry \cup {NoEntry}] /\ quarPos' \in Int
    BY <1>1
<1>5. CacheTypes'
    BY <1>1, <1>4 DEF CacheTypes
<1>6. \A u \in Threads : InFrame(u)' /\ Block(u)' = Block(u) /\ pc[u] # "evict"
    BY <1>1, MapCacheAssumption DEF MapCacheAssumption, InFrame, Block
<1>7. \A s \in Slots : quarantine'[s].block = None
    BY <1>1 DEF NoEntry
<1>8. \A c \in Blocks : c # None
    BY MapCacheAssumption DEF MapCacheAssumption
<1>9. ASSUME NEW c \in Blocks, c \in gone
      PROVE  /\ c \notin live /\ c \notin BlocksIn(lru)
             /\ \A u \in Threads : Block(u) # c /\ c \notin frame[u].evicted
  <2>1. Exclusive(c) /\ \E s \in Slots : quarantine[s].block = c
      BY <1>3, <1>9 DEF Keeping
  <2> QED
      BY <2>1 DEF Exclusive
<1>10. Keeping'
  <2>1. ASSUME NEW c \in Blocks
        PROVE  Exclusive(c)'
    <3>1. Exclusive(c)
        BY DEF Keeping
    <3> QED
        BY <1>1, <1>6, <1>7, <1>8, <3>1 DEF Exclusive
  <2>2. ASSUME NEW c \in Blocks
        PROVE  Kept(c)'
    <3>1. Kept(c)
        BY DEF Keeping
    <3>2. CASE c \in gone
        BY <1>1, <1>6, <1>7, <1>8, <1>9, <3>2 DEF Kept
    <3>3. CASE c \notin gone
        BY <1>1, <1>2, <1>6, <1>7, <1>8, <3>1, <3>3 DEF Kept
    <3> QED
        BY <3>2, <3>3
  <2> QED
      BY <1>1, <2>1, <2>2 DEF Keeping
<1>11. ZerosKnown'
  <2>1. ASSUME NEW i \in DOMAIN lru
        PROVE  lru[i].block \in Blocks
    <3>1. lru[i] \in Entry
        BY DEF CacheTypes
    <3> QED
        BY <3>1 DEF Entry
  <2>2. \A i \in DOMAIN lru' : Zeroed(lru[i])'
      BY <1>1, <1>9, <2>1 DEF ZerosKnown, Zeroed, BlocksIn
  <2>3. \A s \in Slots : Zeroed(quarantine[s])'
      BY <1>1 DEF Zeroed
  <2>4. \A u \in Threads : Zeroed(frame[u].entry)'
    <3> SUFFICES ASSUME NEW u \in Threads, frame[u].entry # NoEntry, frame[u].entry.time = 0
                 PROVE  frame[u].entry.block \in zeroed'
        BY <1>1 DEF Zeroed
    <3>1. Block(u) \in Blocks /\ Block(u) = frame[u].entry.block
        BY FrameFacts DEF Block
    <3>2. Block(u) \notin gone
        BY <1>9, <3>1
    <3> QED
        BY <1>1, <3>1, <3>2 DEF ZerosKnown, Zeroed
  <2>5. zeroed' \subseteq mapped' /\ zeroed' \cap live' = {}
      BY <1>1 DEF ZerosKnown
  <2> QED
      BY <2>2, <2>3, <2>4, <2>5 DEF ZerosKnown
<1>12. GuardsKnown'
  <2>1. \A u \in Threads : UntaggedAt(u)'
      BY <1>1, <1>6 DEF GuardsKnown, UntaggedAt
  <2>2. guarded' \subseteq mapped' /\ guarded' \cap live' = {}
      BY <1>1 DEF GuardsKnown
  <2>3. BlocksIn(lru)' \cap guarded' = {}
      BY <1>1
  <2> QED
      BY <1>1, <2>1, <2>2, <2>3 DEF GuardsKnown
<1>13. OldestIsSet'
    BY <1>1 DEF OldestIsSet
<1> QED
    BY <1>5, <1>6, <1>10, <1>11, <1>12, <1>13

\* Every step keeps the invariant.
LEMMA CacheInvStep == CacheInv /\ [Next]_vars => CacheInv'
<1> SUFFICES ASSUME CacheInv, [Next]_vars PROVE CacheInv'
    OBVIOUS
<1>1. ASSUME NEW t \in Threads, Allocate(t)
      PROVE  CacheInv'
    BY <1>1, A_CallKeeps, A_RetrieveKeeps, A_UseKeeps, A_MapKeeps, A_FailKeeps DEF Allocate
<1>2. ASSUME NEW t \in Threads, Deallocate(t)
      PROVE  CacheInv'
    BY <1>2, D_CallKeeps, D_UnmapKeeps, S_PrepareKeeps, S_OrphanKeeps, S_QuarantineKeeps,
       S_ExchangeKeeps, S_EnterKeeps, S_EvictKeeps, S_InsertKeeps, S_DropKeeps, S_ReleaseKeeps
       DEF Deallocate, Store
<1> QED
    BY <1>1, <1>2, SettingsKeep, ReleaseToOSKeeps, DisableCacheTaggingKeeps DEF Next

\* The invariant holds throughout.
THEOREM CacheInvariant == Spec => []CacheInv
<1> QED
    BY CacheInvInit, CacheInvStep, PTL DEF Spec

\* One who has the block and no others, or nobody.
LEMMA KeeperOfBlock ==
    ASSUME CacheInv, NEW b \in Blocks
    PROVE  Cardinality(Keepers(b)) = IF b \in mapped THEN 1 ELSE 0
<1>1. Exclusive(b) /\ Kept(b) /\ Distinct(lru)
    BY DEF CacheInv, Keeping
<1> DEFINE inClient == live \cap {b}
           inCache == {j \in DOMAIN lru : lru[j].block = b}
           inQuarantine == {q \in Slots : quarantine[q].block = b}
           inCall == {u \in Threads : Block(u) = b}
           inEviction == {u \in Threads : b \in frame[u].evicted}
<1>2. Keepers(b) = {<<"client", 0>> : x \in inClient} \cup {<<"cache", i>> : i \in inCache}
                   \cup {<<"quarantine", s>> : s \in inQuarantine}
                   \cup {<<"call", t>> : t \in inCall} \cup {<<"eviction", t>> : t \in inEviction}
    BY DEF Keepers
<1>3. /\ inClient = {} <=> b \notin live
      /\ inCache = {} <=> b \notin BlocksIn(lru)
      /\ inQuarantine = {} <=> \A s \in Slots : quarantine[s].block # b
      /\ inCall = {} <=> \A t \in Threads : Block(t) # b
      /\ inEviction = {} <=> \A t \in Threads : b \notin frame[t].evicted
    BY DEF BlocksIn
<1>4. \A i \in inCache : inCache = {i}
    BY <1>1 DEF Distinct
<1>5. \A s \in inQuarantine : inQuarantine = {s}
    BY <1>1 DEF Exclusive
<1>6. \A t \in inCall : inCall = {t}
    BY <1>1 DEF Exclusive
<1>7. \A t \in inEviction : inEviction = {t}
    BY <1>1 DEF Exclusive
<1>8. b \in live => inClient = {b}
    OBVIOUS
<1> HIDE DEF inClient, inCache, inQuarantine, inCall, inEviction
<1>9. CASE b \notin mapped
  <2>1. Keepers(b) = {}
      BY <1>1, <1>2, <1>3, <1>9 DEF Kept
  <2> QED
      BY <1>9, <2>1, FS_EmptySet
<1>10. CASE b \in mapped
  <2>1. \E k : Keepers(b) = {k}
    <3>1. CASE inClient # {}
      <4>1. inCache = {} /\ inQuarantine = {} /\ inCall = {} /\ inEviction = {}
          BY <1>1, <1>3, <3>1 DEF Exclusive
      <4>2. Keepers(b) = {<<"client", 0>>}
          BY <1>2, <1>3, <1>8, <3>1, <4>1
      <4> QED
          BY <4>2
    <3>2. ASSUME NEW i \in inCache
          PROVE  \E k : Keepers(b) = {k}
      <4>1. inClient = {} /\ inQuarantine = {} /\ inCall = {} /\ inEviction = {}
          BY <1>1, <1>3, <3>2 DEF Exclusive
      <4>2. Keepers(b) = {<<"cache", i>>}
          BY <1>2, <1>4, <3>2, <4>1
      <4> QED
          BY <4>2
    <3>3. ASSUME NEW s \in inQuarantine
          PROVE  \E k : Keepers(b) = {k}
      <4>1. inClient = {} /\ inCache = {} /\ inCall = {} /\ inEviction = {}
          BY <1>1, <1>3, <3>3 DEF Exclusive
      <4>2. Keepers(b) = {<<"quarantine", s>>}
          BY <1>2, <1>5, <3>3, <4>1
      <4> QED
          BY <4>2
    <3>4. ASSUME NEW t \in inCall
          PROVE  \E k : Keepers(b) = {k}
      <4>1. inClient = {} /\ inCache = {} /\ inQuarantine = {} /\ inEviction = {}
          BY <1>1, <1>3, <3>4 DEF Exclusive
      <4>2. Keepers(b) = {<<"call", t>>}
          BY <1>2, <1>6, <3>4, <4>1
      <4> QED
          BY <4>2
    <3>5. ASSUME NEW t \in inEviction
          PROVE  \E k : Keepers(b) = {k}
      <4>1. inClient = {} /\ inCache = {} /\ inQuarantine = {} /\ inCall = {}
          BY <1>1, <1>3, <3>5 DEF Exclusive
      <4>2. Keepers(b) = {<<"eviction", t>>}
          BY <1>2, <1>7, <3>5, <4>1
      <4> QED
          BY <4>2
    <3>6. \/ inClient # {} \/ inCache # {} \/ inQuarantine # {} \/ inCall # {}
          \/ inEviction # {}
        BY <1>1, <1>3, <1>10 DEF Kept
    <3> QED
        BY <3>1, <3>2, <3>3, <3>4, <3>5, <3>6
  <2>2. PICK k : Keepers(b) = {k}
      BY <2>1
  <2> QED
      BY <1>10, <2>2, FS_Singleton
<1> QED
    BY <1>9, <1>10

\* However calls to allocate and deallocate, releases and disableMemoryTagging interleave,
\* a mapped block is with exactly one of those who will use, hand on or unmap it, and an
\* unmapped one with nobody.
THEOREM BlocksHaveOneKeeper == Spec => []OneKeeper
<1>1. CacheInv => OneKeeper
    BY KeeperOfBlock DEF OneKeeper
<1> QED
    BY <1>1, CacheInvariant, PTL

\* tryAllocateFromCache is right not to clear the memory of an entry with Time 0.
THEOREM ReleasedMemoryIsZero == Spec => []ReleasedIsZero
<1>1. CacheInv => ReleasedIsZero
  <2> SUFFICES ASSUME CacheInv,
                      NEW e \in Cached \cup {frame[t].entry : t \in {u \in Threads : pc[u] = "use"}},
                      e # NoEntry, e.time = 0
               PROVE  e.block \in zeroed
      BY DEF ReleasedIsZero
  <2>1. Zeroed(e)
      BY DEF CacheInv, ZerosKnown, Cached
  <2> QED
      BY <2>1 DEF Zeroed
<1> QED
    BY <1>1, CacheInvariant, PTL

\* Neither a release nor the end of tagging reaches into the client's blocks, whichever
\* Options word the calls under way read.
THEOREM ClientMemoryStaysIntact == Spec => []ClientMemoryIntact
<1>1. CacheInv => ClientMemoryIntact
    BY DEF CacheInv, ZerosKnown, GuardsKnown, ClientMemoryIntact
<1> QED
    BY <1>1, CacheInvariant, PTL

-----------------------------------------------------------------------------
(* OldestTime and the entries it is later than.                            *)

\* The entry that store has in hand between the quarantine and the cache.
Carried == {frame[t].entry : t \in {u \in Threads : pc[u] = "evict"}}

Ageing == Cached \cup Carried

\* The entries older than OldestTime whose memory was not released.
Late == {e \in Ageing : e.time # 0 /\ e.time < oldest}

\* No entry is from the future, nor is OldestTime; few entries are late.
LateInv ==
    /\ oldest <= clock
    /\ \A e \in Ageing : e.time <= clock
    /\ IsFiniteSet(Late)
    /\ Cardinality(Late) <= QuarantineSize

\* Entries have times, or are none and have time 0.
LEMMA AgeingTypes ==
    ASSUME CacheInv
    PROVE  /\ \A e \in Ageing : e \in Entry \cup {NoEntry} /\ e.time \in Nat
           /\ \A i \in DOMAIN lru : lru[i] \in Ageing
           /\ \A s \in Slots : quarantine[s] \in Ageing
           /\ \A t \in Threads : pc[t] = "evict" => frame[t].entry \in Ageing
           /\ oldest \in Nat /\ clock \in Nat
<1>1. CacheTypes
    BY DEF CacheInv
<1>2. \A i \in DOMAIN lru : lru[i] \in Entry
    BY <1>1 DEF CacheTypes
<1>3. \A s \in Slots : quarantine[s] \in Entry \cup {NoEntry}
    BY <1>1 DEF CacheTypes
<1>4. \A t \in Threads : frame[t].entry \in Entry \cup {NoEntry}
    BY <1>1, FrameFacts
<1>5. \A e \in Ageing : e \in Entry \cup {NoEntry}
    BY <1>2, <1>3, <1>4 DEF Ageing, Cached, Carried
<1>6. \A e \in Entry \cup {NoEntry} : e.time \in Nat
    BY DEF Entry, NoEntry
<1>7. oldest \in Nat /\ clock \in Nat
    BY <1>1 DEF CacheTypes
<1> QED
    BY <1>5, <1>6, <1>7 DEF Ageing, Cached, Carried

\* A step that leaves OldestTime alone makes nothing late: an entry it brings has Time 0
\* or the time of now.
LEMMA NothingGetsLate ==
    ASSUME CacheInv, CacheInv', LateInv, oldest' = oldest, clock' >= clock,
           \A e \in Ageing' : e \in Ageing \/ e.time = 0 \/ e.time = clock
    PROVE  LateInv'
<1>1. \A e \in Ageing : e.time <= clock
    BY DEF LateInv
<1>2. oldest <= clock /\ oldest \in Nat /\ clock \in Nat /\ clock' \in Nat
    BY AgeingTypes DEF LateInv, CacheInv, CacheTypes
<1>3. \A e \in Ageing : e.time \in Nat
    BY AgeingTypes
<1>4. ASSUME NEW e \in Ageing'
      PROVE  e.time \in Nat /\ e.time <= clock
    BY <1>1, <1>2, <1>3, <1>4
<1>5. Late' \subseteq Late
  <2> SUFFICES ASSUME NEW e \in Ageing', e.time # 0, e.time < oldest
               PROVE  e \in Ageing
      BY DEF Late
  <2> QED
      BY <1>2
<1>6. IsFiniteSet(Late') /\ Cardinality(Late') <= Cardinality(Late)
    BY <1>5, FS_Subset DEF LateInv
<1>7. Cardinality(Late) \in Nat /\ Cardinality(Late') \in Nat
    BY <1>6, FS_CardinalityType DEF LateInv
<1>8. Cardinality(Late') <= QuarantineSize
    BY <1>6, <1>7, MapCacheAssumption DEF LateInv, MapCacheAssumption
<1>9. \A e \in Ageing' : e.time <= clock'
    BY <1>2, <1>4
<1>10. oldest' <= clock'
    BY <1>2
<1> QED
    BY <1>6, <1>8, <1>9, <1>10 DEF LateInv

\* The quarantine has at most as many entries as slots.
LEMMA QuarantineIsSmall ==
    ASSUME CacheInv
    PROVE  /\ IsFiniteSet({quarantine[s] : s \in Slots})
           /\ Cardinality({quarantine[s] : s \in Slots}) <= QuarantineSize
<1>1. QuarantineSize \in Nat
    BY MapCacheAssumption DEF MapCacheAssumption
<1>2. IsFiniteSet(Slots) /\ Cardinality(Slots) = QuarantineSize
  <2>1. CASE QuarantineSize = 0
    <3>1. Slots = {}
        BY <2>1 DEF Slots
    <3> QED
        BY <2>1, <3>1, FS_EmptySet
  <2>2. CASE QuarantineSize # 0
    <3>1. 0 \in Int /\ QuarantineSize - 1 \in Int /\ ~(0 > QuarantineSize - 1)
        BY <1>1, <2>2
    <3>2. /\ IsFiniteSet(0 .. (QuarantineSize - 1))
          /\ Cardinality(0 .. (QuarantineSize - 1)) = QuarantineSize
        BY <1>1, <3>1, FS_Interval
    <3> QED
        BY <3>2 DEF Slots
  <2> QED
      BY <2>1, <2>2
<1>3. quarantine \in Surjection(Slots, {quarantine[s] : s \in Slots})
  <2>1. quarantine \in [Slots -> Entry \cup {NoEntry}]
      BY DEF CacheInv, CacheTypes
  <2>2. quarantine \in [Slots -> {quarantine[s] : s \in Slots}]
      BY <2>1
  <2> QED
      BY <2>2 DEF Surjection
<1> QED
    BY ONLY <1>2, <1>3, FS_Surjection

\* A step that sets OldestTime makes late only what stands in the quarantine.
LEMMA QuarantineGetsLate ==
    ASSUME CacheInv, CacheInv', LateInv, clock' = clock,
           oldest' = 0 \/ (\E e \in Ageing : oldest' = e.time) \/ oldest' = clock,
           \A e \in Ageing' : \/ e \in {quarantine[s] : s \in Slots}
                              \/ e.time = 0
                              \/ e.time \in oldest' .. clock
    PROVE  LateInv'
<1>1. \A e \in Ageing : e.time <= clock
    BY DEF LateInv
<1>2. clock \in Nat /\ oldest' \in Nat
    BY AgeingTypes DEF CacheInv, CacheTypes
<1>3. oldest' <= clock'
    BY <1>1, <1>2
<1>4. \A e \in {quarantine[s] : s \in Slots} : e \in Ageing
    BY DEF Ageing, Cached
<1>5. \A e \in Ageing' : e.time <= clock'
    BY <1>1, <1>2, <1>4
<1>6. Late' \subseteq {quarantine[s] : s \in Slots}
  <2> SUFFICES ASSUME NEW e \in Ageing', e.time # 0, e.time < oldest'
               PROVE  e \in {quarantine[s] : s \in Slots}
      BY DEF Late
  <2> QED
      BY <1>2
<1>7. IsFiniteSet({quarantine[s] : s \in Slots})
      /\ Cardinality({quarantine[s] : s \in Slots}) <= QuarantineSize
    BY QuarantineIsSmall
<1>8. IsFiniteSet(Late') /\ Cardinality(Late') <= Cardinality({quarantine[s] : s \in Slots})
    BY <1>6, <1>7, FS_Subset
<1>9. Cardinality(Late') <= QuarantineSize
  <2>1. /\ Cardinality(Late') \in Nat /\ QuarantineSize \in Nat
        /\ Cardinality({quarantine[s] : s \in Slots}) \in Nat
      BY <1>7, <1>8, FS_CardinalityType, MapCacheAssumption DEF MapCacheAssumption
  <2> QED
      BY <1>7, <1>8, <2>1
<1> QED
    BY <1>3, <1>5, <1>8, <1>9 DEF LateInv

\* What is in the quarantine, the cache and the hands of store after a step.
LEMMA AgeingAfter ==
    ASSUME NEW e \in Ageing'
    PROVE  \/ \E s \in Slots : e = quarantine'[s]
           \/ \E i \in DOMAIN lru' : e = lru'[i]
           \/ \E u \in Threads : pc'[u] = "evict" /\ e = frame'[u].entry
BY DEF Ageing, Cached, Carried

\* One call moves on, the others keep their locals.
LEMMA OthersStay ==
    ASSUME CacheInv, NEW t \in Threads, NEW stage, NEW work, OnlyMoves(t, stage, work)
    PROVE  /\ pc'[t] = stage /\ frame'[t] = work
           /\ \A u \in Threads \ {t} : pc'[u] = pc[u] /\ frame'[u] = frame[u]
BY DEF OnlyMoves, CacheInv, CacheTypes

\* Only who has Mutex is in store's critical section.
LEMMA OneCarries ==
    ASSUME CacheInv, NEW u \in Threads, pc[u] = "evict"
    PROVE  mutex = u /\ mutex # None
BY MapCacheAssumption DEF CacheInv, InFrame, MapCacheAssumption

\* Steps away from the entries.
LEMMA SettledSteps ==
    ASSUME CacheInv, CacheInv', LateInv, UNCHANGED <<lru, quarantine, oldest>>, clock' >= clock,
           \A u \in Threads : pc'[u] = "evict" =>
                                pc[u] = "evict" /\ frame'[u].entry = frame[u].entry
    PROVE  LateInv'
<1>1. \A e \in Ageing' : e \in Ageing
    BY DEF Ageing, Cached, Carried
<1> QED
    BY <1>1, NothingGetsLate

\* A call that does not touch the entries and goes elsewhere than to the eviction.
LEMMA SettledMove ==
    ASSUME CacheInv, CacheInv', LateInv, UNCHANGED <<lru, quarantine, oldest, clock>>,
           NEW t \in Threads, NEW stage, stage # "evict", NEW work, OnlyMoves(t, stage, work)
    PROVE  LateInv'
<1>1. \A u \in Threads : pc'[u] = "evict" =>
                            pc[u] = "evict" /\ frame'[u].entry = frame[u].entry
    BY OthersStay
<1>2. clock' >= clock
    BY AgeingTypes
<1> QED
    BY <1>1, <1>2, SettledSteps

\* The calls and the parts of store that do so.
LEMMA SettledCalls ==
    ASSUME CacheInv, CacheInv', LateInv, NEW t \in Threads,
           \/ A_Call(t) \/ A_Use(t) \/ A_Map(t) \/ A_Fail(t)
           \/ D_Call(t) \/ D_Unmap(t) \/ S_Prepare(t) \/ S_Orphan(t) \/ S_Drop(t)
    PROVE  LateInv'
<1>1. UNCHANGED <<lru, quarantine, oldest, clock>>
    BY DEF A_Call, A_Use, A_Map, A_Fail, D_Call, D_Unmap, S_Prepare, S_Orphan, S_Drop,
           cacheVars
<1>2. \E stage, work : stage # "evict" /\ OnlyMoves(t, stage, work)
  <2>1. CASE A_Call(t)
      BY <2>1 DEF A_Call, Goto, OnlyMoves
  <2>2. CASE A_Use(t) \/ A_Map(t) \/ A_Fail(t) \/ D_Unmap(t)
      BY <2>2 DEF A_Use, A_Map, A_Fail, D_Unmap, Return, Goto, OnlyMoves
  <2>3. CASE D_Call(t)
      BY <2>3 DEF D_Call, Goto, OnlyMoves
  <2>4. CASE S_Prepare(t)
    <3>1. PICK work : frame' = [frame EXCEPT ![t] = work]
      <4>1. \E x : frame' = [frame EXCEPT ![t].every = interval, ![t].entry.time = x]
          BY <2>4 DEF S_Prepare
      <4> QED
          BY <4>1
    <3> QED
        BY <2>4, <3>1 DEF S_Prepare, Goto, OnlyMoves
  <2>5. CASE S_Orphan(t)
      BY <2>5 DEF S_Orphan, Goto, OnlyMoves
  <2>6. CASE S_Drop(t)
      BY <2>6 DEF S_Drop, Return, Goto, OnlyMoves
  <2> QED
      BY <2>1, <2>2, <2>3, <2>4, <2>5, <2>6
<1> QED
    BY <1>1, <1>2, SettledMove

\* Neither settings nor the clock make an entry late.
LEMMA SettledOptions ==
    ASSUME CacheInv, CacheInv', LateInv,
           \/ \E n \in Counts : SetMaxEntries(n)
           \/ \E i \in Intervals : SetInterval(i)
           \/ ClearTaggingOption
           \/ Tick
           \/ UNCHANGED vars
    PROVE  LateInv'
<1>1. UNCHANGED <<lru, quarantine, oldest, pc, frame>>
    BY DEF SetMaxEntries, SetInterval, ClearTaggingOption, Tick, vars, cacheVars
<1>2. clock' = clock \/ clock' = clock + 1
    BY DEF SetMaxEntries, SetInterval, ClearTaggingOption, Tick, vars
<1>3. clock' >= clock
    BY <1>2, AgeingTypes
<1> QED
    BY <1>1, <1>3, SettledSteps

\* The time of a stamped entry.
LEMMA StampedTime ==
    ASSUME CacheInv, NEW t \in Threads, pc[t] \in WithBlock
    PROVE  Stamped(t).time = 0 \/ Stamped(t).time = clock
<1>1. frame[t].entry \in Entry
    BY InHand DEF CacheInv, CacheTypes
<1> QED
    BY <1>1 DEF Stamped, Entry

\* retrieve takes an entry away.
LEMMA A_RetrieveMissesFew ==
    ASSUME CacheInv, CacheInv', LateInv, NEW t \in Threads, A_Retrieve(t)
    PROVE  LateInv'
<1>1. /\ UNCHANGED <<quarantine, oldest, clock>>
      /\ pc'[t] # "evict"
      /\ \A u \in Threads \ {t} : pc'[u] = pc[u] /\ frame'[u] = frame[u]
    BY DEF A_Retrieve, Goto, CacheInv, CacheTypes
<1>2. \A j \in DOMAIN lru' : \E k \in DOMAIN lru : lru'[j] = lru[k]
  <2> DEFINE i == Choice(frame[t].size)
  <2>1. i = 0 \/ i \in DOMAIN lru
      BY ChoiceIsEntry, FrameFacts DEF CacheInv, CacheTypes
  <2>2. CASE i = 0
      BY <2>2 DEF A_Retrieve
  <2>3. CASE i # 0
    <3>1. lru' = RemoveAt(lru, i)
        BY <2>3 DEF A_Retrieve
    <3>2. lru \in Seq(Entry) /\ Distinct(lru) /\ i \in DOMAIN lru
        BY <2>1, <2>3 DEF CacheInv, CacheTypes, Keeping
    <3> HIDE DEF i
    <3>3. Without(RemoveAt(lru, i), lru, lru[i])
        BY <3>2, RemoveAtRemoves
    <3> QED
        BY <3>1, <3>3 DEF Without
  <2> QED
      BY <2>2, <2>3
<1>3. \A e \in Ageing' : e \in Ageing
    BY <1>1, <1>2 DEF Ageing, Cached, Carried
<1>4. clock' >= clock
    BY <1>1, AgeingTypes
<1> QED
    BY <1>1, <1>3, <1>4, NothingGetsLate

\* The quarantine takes an entry of this moment.
LEMMA S_QuarantineMissesFew ==
    ASSUME CacheInv, CacheInv', LateInv, NEW t \in Threads, S_Quarantine(t)
    PROVE  LateInv'
<1>1. /\ UNCHANGED <<lru, oldest, clock>>
      /\ pc[t] = "lock" /\ pc'[t] # "evict"
      /\ quarantine' = [quarantine EXCEPT ![NextSlot] = Stamped(t)]
      /\ \A u \in Threads \ {t} : pc'[u] = pc[u] /\ frame'[u] = frame[u]
    BY DEF S_Quarantine, Return, Goto, settings, CacheInv, CacheTypes
<1>2. Stamped(t).time = 0 \/ Stamped(t).time = clock
    BY <1>1, StampedTime DEF WithBlock
<1>3. \A s \in Slots : quarantine'[s] = quarantine[s] \/ quarantine'[s] = Stamped(t)
    BY <1>1 DEF CacheInv, CacheTypes
<1>4. \A e \in Ageing' : e \in Ageing \/ e = Stamped(t)
    BY <1>1, <1>3 DEF Ageing, Cached, Carried
<1>5. clock' >= clock
    BY <1>1, AgeingTypes
<1> QED
    BY <1>1, <1>2, <1>4, <1>5, NothingGetsLate

\* Without a quarantine store takes the new entry on to the cache itself.
LEMMA S_EnterMissesFew ==
    ASSUME CacheInv, CacheInv', LateInv, NEW t \in Threads, S_Enter(t)
    PROVE  LateInv'
<1>1. /\ UNCHANGED <<lru, quarantine, oldest, clock>> /\ pc[t] = "lock"
      /\ frame'[t].entry = Stamped(t)
      /\ \A u \in Threads \ {t} : pc'[u] = pc[u] /\ frame'[u] = frame[u]
  <2>1. frame[t] \in Frame /\ frame \in [Threads -> Frame] /\ pc \in [Threads -> WithBlock \cup WithoutBlock]
      BY DEF CacheInv, CacheTypes
  <2>2. \A x, y : frame' = [frame EXCEPT ![t].now = x, ![t].entry = y] =>
            frame'[t].entry = y /\ \A u \in Threads \ {t} : frame'[u] = frame[u]
      BY <2>1 DEF Frame
  <2> QED
      BY <2>1, <2>2 DEF S_Enter, Goto, cacheVars, settings
<1>2. Stamped(t).time = 0 \/ Stamped(t).time = clock
    BY <1>1, StampedTime DEF WithBlock
<1>3. \A e \in Ageing' : e \in Ageing \/ e = Stamped(t)
    BY <1>1 DEF Ageing, Cached, Carried
<1>4. clock' >= clock
    BY <1>1, AgeingTypes
<1> QED
    BY <1>1, <1>2, <1>3, <1>4, NothingGetsLate

\* Evicted entries go.
LEMMA S_EvictMissesFew ==
    ASSUME CacheInv, CacheInv', LateInv, NEW t \in Threads, S_Evict(t)
    PROVE  LateInv'
<1>1. /\ UNCHANGED <<quarantine, oldest, clock, pc>>
      /\ lru # <<>> /\ lru' = Front(lru)
      /\ \A u \in Threads : frame'[u].entry = frame[u].entry
  <2>1. frame \in [Threads -> Frame]
      BY DEF CacheInv, CacheTypes
  <2>2. \A x : frame' = [frame EXCEPT ![t].evicted = x] =>
                  \A u \in Threads : frame'[u].entry = frame[u].entry
      BY <2>1 DEF Frame
  <2>3. \E x : frame' = [frame EXCEPT ![t].evicted = x]
      BY DEF S_Evict
  <2> QED
      BY <2>2, <2>3 DEF S_Evict, settings
<1>2. \A j \in DOMAIN lru' : \E k \in DOMAIN lru : lru'[j] = lru[k]
  <2>1. lru \in Seq(Entry) /\ Distinct(lru)
      BY DEF CacheInv, CacheTypes, Keeping
  <2> QED
      BY <1>1, <2>1, FrontRemoves DEF Without
<1>3. \A e \in Ageing' : e \in Ageing
    BY <1>1, <1>2 DEF Ageing, Cached, Carried
<1>4. clock' >= clock
    BY <1>1, AgeingTypes
<1> QED
    BY <1>1, <1>3, <1>4, NothingGetsLate

\* When OldestTime is 0, all that is not released stands in the quarantine.
LEMMA UnsetOldest ==
    ASSUME CacheInv, oldest = 0, NEW i \in DOMAIN lru
    PROVE  lru[i].time = 0
BY DEF CacheInv, OldestIsSet

\* OldestTime when an entry joins the others.
LEMMA OldestAfterFacts ==
    ASSUME NEW e, oldest' = OldestAfter(e)
    PROVE  IF oldest = 0 THEN oldest' = e.time ELSE oldest' = oldest
BY DEF OldestAfter

\* The new entry sets OldestTime, if nothing did before, while the one it displaces from
\* the quarantine goes on to the cache.
LEMMA S_ExchangeMissesFew ==
    ASSUME CacheInv, CacheInv', LateInv, NEW t \in Threads, S_Exchange(t)
    PROVE  LateInv'
<1> DEFINE n == NextSlot
           new == Stamped(t)
<1>1. /\ UNCHANGED <<lru, clock>> /\ pc[t] = "lock" /\ mutex = None
      /\ quarantine' = [quarantine EXCEPT ![n] = new]
      /\ oldest' = OldestAfter(new)
      /\ frame'[t].entry = quarantine[n]
      /\ \A u \in Threads \ {t} : pc'[u] = pc[u] /\ frame'[u] = frame[u]
  <2>1. frame[t] \in Frame /\ frame \in [Threads -> Frame] /\ pc \in [Threads -> WithBlock \cup WithoutBlock]
      BY DEF CacheInv, CacheTypes
  <2>2. \A x, y : frame' = [frame EXCEPT ![t].now = x, ![t].entry = y] =>
            frame'[t].entry = y /\ \A u \in Threads \ {t} : frame'[u] = frame[u]
      BY <2>1 DEF Frame
  <2> QED
      BY <2>1, <2>2 DEF S_Exchange, Goto, settings
<1>2. n \in Slots
    BY NextSlotIsSlot DEF S_Exchange
<1>3. new.time = 0 \/ new.time = clock
    BY <1>1, StampedTime DEF WithBlock
<1> HIDE DEF n, new
<1>4. \A s \in Slots : quarantine'[s] = quarantine[s] \/ quarantine'[s] = new
    BY <1>1 DEF CacheInv, CacheTypes
<1>5. \A u \in Threads : pc[u] # "evict"
    BY <1>1, OneCarries
<1>6. clock' >= clock
    BY <1>1, AgeingTypes
<1>7. CASE oldest # 0
  <2>1. oldest' = oldest
      BY <1>1, <1>7, OldestAfterFacts
  <2>2. ASSUME NEW e \in Ageing'
        PROVE  e \in Ageing \/ e = new
    <3>1. CASE \E s \in Slots : e = quarantine'[s]
        BY <1>4, <3>1 DEF Ageing, Cached
    <3>2. CASE \E i \in DOMAIN lru' : e = lru'[i]
        BY <1>1, <3>2 DEF Ageing, Cached
    <3>3. CASE \E u \in Threads : pc'[u] = "evict" /\ e = frame'[u].entry
      <4>1. e = quarantine[n]
          BY <1>1, <1>5, <3>3
      <4> QED
          BY <1>2, <4>1 DEF Ageing, Cached
    <3> QED
        BY <3>1, <3>2, <3>3, AgeingAfter
  <2> QED
      BY <1>3, <1>6, <2>1, <2>2, NothingGetsLate
<1>8. CASE oldest = 0
  <2>1. oldest' = new.time
      BY <1>1, <1>8, OldestAfterFacts
  <2>2. new.time = 0 \/ new.time \in oldest' .. clock
      BY <1>3, <2>1, AgeingTypes
  <2>3. ASSUME NEW e \in Ageing'
        PROVE  e \in {quarantine[s] : s \in Slots} \/ e = new \/ e.time = 0
    <3>1. CASE \E s \in Slots : e = quarantine'[s]
        BY <1>4, <3>1
    <3>2. CASE \E i \in DOMAIN lru' : e = lru'[i]
        BY <1>1, <1>8, <3>2, UnsetOldest
    <3>3. CASE \E u \in Threads : pc'[u] = "evict" /\ e = frame'[u].entry
        BY <1>1, <1>2, <1>5, <3>3
    <3> QED
        BY <3>1, <3>2, <3>3, AgeingAfter
  <2> QED
      BY <1>1, <1>3, <2>1, <2>2, <2>3, QuarantineGetsLate
<1> QED
    BY <1>7, <1>8

\* So does the entry that joins the cache.
LEMMA S_InsertMissesFew ==
    ASSUME CacheInv, CacheInv', LateInv, NEW t \in Threads, S_Insert(t)
    PROVE  LateInv'
<1> DEFINE new == frame[t].entry
<1>1. /\ UNCHANGED <<quarantine, clock>> /\ pc[t] = "evict"
      /\ lru' = <<new>> \o lru /\ oldest' = OldestAfter(new)
      /\ pc'[t] # "evict"
      /\ \A u \in Threads \ {t} : pc'[u] = pc[u]
    BY DEF S_Insert, Inserted, Goto, settings, CacheInv, CacheTypes
<1>2. \A u \in Threads : pc'[u] # "evict"
    BY <1>1, OneCarries
<1>3. new \in Entry /\ new \in Ageing /\ new.time \in Nat
    BY <1>1, InHand, AgeingTypes DEF CacheInv, WithBlock, Block
<1> HIDE DEF new
<1>4. new.time <= clock
    BY <1>3 DEF LateInv
<1>5. \A j \in DOMAIN lru' : lru'[j] = new \/ \E k \in DOMAIN lru : lru'[j] = lru[k]
  <2>1. lru \in Seq(Entry) /\ <<new>> \in Seq(Entry)
      BY <1>3 DEF CacheInv, CacheTypes
  <2>2. /\ Len(<<new>>) = 1 /\ <<new>>[1] = new
        /\ Len(lru) \in Nat /\ DOMAIN lru = 1 .. Len(lru)
      BY <2>1
  <2>3. /\ lru' \in Seq(Entry) /\ Len(lru') = 1 + Len(lru)
        /\ \A j \in 1 .. 1 + Len(lru) : lru'[j] = IF j <= 1 THEN new ELSE lru[j - 1]
      BY <1>1, <2>1, <2>2, ConcatProperties
  <2> QED
      BY <2>2, <2>3
<1>6. \A e \in Ageing' : \/ \E s \in Slots : e = quarantine[s]
                         \/ e = new
                         \/ \E i \in DOMAIN lru : e = lru[i]
    BY <1>1, <1>2, <1>5, AgeingAfter
<1>7. CASE oldest # 0
  <2>1. oldest' = oldest
      BY <1>1, <1>7, OldestAfterFacts
  <2>2. \A e \in Ageing' : e \in Ageing
      BY <1>3, <1>6, AgeingTypes
  <2>3. clock' >= clock
      BY <1>1, AgeingTypes
  <2> QED
      BY <2>1, <2>2, <2>3, NothingGetsLate
<1>8. CASE oldest = 0
  <2>1. oldest' = new.time
      BY <1>1, <1>8, OldestAfterFacts
  <2>2. new.time \in oldest' .. clock
      BY <1>3, <1>4, <2>1, AgeingTypes
  <2>3. \A e \in Ageing' : e \in {quarantine[s] : s \in Slots} \/ e = new \/ e.time = 0
      BY <1>6, <1>8, UnsetOldest
  <2> QED
      BY <1>1, <1>3, <2>1, <2>2, <2>3, QuarantineGetsLate
<1> QED
    BY <1>7, <1>8

\* A release makes OldestTime the least of the times that are left.
LEMMA ReleaseMissesFew ==
    ASSUME CacheInv, CacheInv', LateInv, NEW time \in Nat, ReleaseOlderThan(time),
           clock' = clock, \A u \in Threads : pc'[u] # "evict"
    PROVE  LateInv'
<1>1. CASE GivesUp(time)
  <2>1. UNCHANGED <<lru, quarantine, oldest, zeroed>>
      BY <1>1 DEF ReleaseOlderThan
  <2>2. clock' >= clock
      BY AgeingTypes
  <2> QED
      BY <2>1, <2>2, SettledSteps
<1>2. CASE ~GivesUp(time)
  <2> DEFINE kept == {e.time : e \in {x \in Cached : x.time > time}}
  <2>1. /\ lru' = [i \in DOMAIN lru |-> Aged(lru[i], time)]
        /\ quarantine' = [s \in Slots |-> Aged(quarantine[s], time)]
        /\ oldest' = IF kept = {} THEN 0 ELSE CHOOSE x \in kept : \A y \in kept : x <= y
      BY <1>2 DEF ReleaseOlderThan, Aged
  <2>2. \A x \in Cached : x \in Ageing /\ x \in Entry \cup {NoEntry} /\ x.time \in Nat
      BY AgeingTypes DEF Ageing
  <2>3. ASSUME NEW x \in Cached, Aged(x, time).time # 0
        PROVE  Aged(x, time) = x /\ x.time \in kept
    <3>1. x.time > time
        BY <2>2, <2>3, AgedFacts
    <3>2. ~Stale(x, time)
        BY <2>2, <3>1 DEF Stale
    <3> QED
        BY <3>1, <3>2 DEF Aged
  <2>4. \A k \in kept : k \in Nat /\ \E x \in Ageing : k = x.time
      BY <2>2
  <2> HIDE DEF kept
  <2>5. kept # {} => oldest' \in kept /\ \A k \in kept : oldest' <= k
    <3> SUFFICES ASSUME kept # {}
                 PROVE  oldest' \in kept /\ \A k \in kept : oldest' <= k
        OBVIOUS
    <3>1. \E m \in kept : \A y \in kept : m <= y
        BY <2>4, LeastNumber
    <3>2. oldest' = CHOOSE x \in kept : \A y \in kept : x <= y
        BY <2>1
    <3> QED
        BY <3>1, <3>2
  <2>6. oldest' = 0 \/ \E x \in Ageing : oldest' = x.time
      BY <2>1, <2>4, <2>5
  <2>7. ASSUME NEW e \in Ageing'
        PROVE  e.time = 0 \/ e.time \in oldest' .. clock
    <3>1. \E x \in Cached : e = Aged(x, time)
      <4>1. CASE \E s \in Slots : e = quarantine'[s]
          BY <2>1, <4>1 DEF Cached
      <4>2. CASE \E i \in DOMAIN lru' : e = lru'[i]
          BY <2>1, <4>2 DEF Cached
      <4> QED
          BY <4>1, <4>2, AgeingAfter
    <3>2. PICK x \in Cached : e = Aged(x, time)
        BY <3>1
    <3>3. CASE e.time # 0
      <4>1. e = x /\ x.time \in kept /\ x \in Ageing /\ x.time \in Nat
          BY <2>2, <2>3, <3>2, <3>3
      <4>2. oldest' <= x.time /\ oldest' \in Nat
          BY <2>4, <2>5, <4>1
      <4>3. x.time <= clock /\ clock \in Nat
          BY <4>1, AgeingTypes DEF LateInv
      <4> QED
          BY <4>1, <4>2, <4>3
    <3> QED
        BY <3>3
  <2> QED
      BY <2>6, <2>7, QuarantineGetsLate
<1> QED
    BY <1>1, <1>2

\* The release at the end of store,
LEMMA S_ReleaseMissesFew ==
    ASSUME CacheInv, CacheInv', LateInv, NEW t \in Threads, S_Release(t)
    PROVE  LateInv'
<1> DEFINE time == Before(frame[t].now, frame[t].every)
<1>1. /\ mutex = None /\ clock' = clock /\ ReleaseOlderThan(time) /\ pc'[t] # "evict"
      /\ \A u \in Threads \ {t} : pc'[u] = pc[u]
    BY DEF S_Release, settings, Return, Goto, CacheInv, CacheTypes
<1>2. time \in Nat
  <2>1. frame[t].now \in Nat /\ frame[t].every \in Int /\ MaxTime \in Nat
      BY FrameFacts, MapCacheAssumption DEF MapCacheAssumption, CacheInv
  <2> QED
      BY <2>1 DEF Before
<1> HIDE DEF time
<1>3. \A u \in Threads : pc'[u] # "evict"
    BY <1>1, OneCarries
<1> QED
    BY <1>1, <1>2, <1>3, ReleaseMissesFew

\* and the one that releaseToOS makes.
LEMMA ReleaseToOSMissesFew ==
    ASSUME CacheInv, CacheInv', LateInv, ReleaseToOS
    PROVE  LateInv'
<1>1. /\ mutex = None /\ clock' = clock /\ pc' = pc
      /\ ReleaseOlderThan(MaxTime) /\ MaxTime \in Nat
    BY MapCacheAssumption DEF MapCacheAssumption, ReleaseToOS, settings
<1>2. \A u \in Threads : pc'[u] # "evict"
    BY <1>1, OneCarries
<1> QED
    BY <1>1, <1>2, ReleaseMissesFew

\* The entries of the quarantine go.
LEMMA DisableMissesFew ==
    ASSUME CacheInv, CacheInv', LateInv, DisableCacheTagging
    PROVE  LateInv'
<1>1. /\ UNCHANGED <<lru, oldest, clock, pc, frame>>
      /\ quarantine' = [s \in Slots |-> NoEntry]
    BY DEF DisableCacheTagging, settings
<1>2. \A e \in Ageing' : e \in Ageing \/ e.time = 0
    BY <1>1 DEF Ageing, Cached, Carried, NoEntry
<1>3. clock' >= clock
    BY <1>1, AgeingTypes
<1> QED
    BY <1>1, <1>2, <1>3, NothingGetsLate

\* Nothing is late at first.
LEMMA LateInvInit == Init => LateInv
<1> SUFFICES ASSUME Init PROVE LateInv
    OBVIOUS
<1>1. \A e \in Ageing : e = NoEntry
  <2>1. lru = <<>> /\ DOMAIN lru = {}
      BY DEF Init
  <2>2. \A u \in Threads : pc[u] = "idle"
      BY DEF Init
  <2>3. \A s \in Slots : quarantine[s] = NoEntry
      BY DEF Init
  <2> QED
      BY <2>1, <2>2, <2>3 DEF Ageing, Cached, Carried
<1>2. oldest = 0 /\ clock = 1 /\ NoEntry.time = 0
    BY DEF Init, NoEntry
<1>3. Late = {}
    BY <1>1, <1>2 DEF Late
<1>4. IsFiniteSet(Late) /\ Cardinality(Late) = 0
    BY <1>3, FS_EmptySet
<1> QED
    BY <1>1, <1>2, <1>4, MapCacheAssumption DEF LateInv, MapCacheAssumption

\* Every step keeps this.
LEMMA LateInvStep == CacheInv /\ CacheInv' /\ LateInv /\ [Next]_vars => LateInv'
<1> SUFFICES ASSUME CacheInv, CacheInv', LateInv, [Next]_vars PROVE LateInv'
    OBVIOUS
<1>1. ASSUME NEW t \in Threads, Allocate(t)
      PROVE  LateInv'
    BY <1>1, SettledCalls, A_RetrieveMissesFew DEF Allocate
<1>2. ASSUME NEW t \in Threads, Deallocate(t)
      PROVE  LateInv'
    BY <1>2, SettledCalls, S_QuarantineMissesFew, S_ExchangeMissesFew, S_EnterMissesFew,
       S_EvictMissesFew, S_InsertMissesFew, S_ReleaseMissesFew DEF Deallocate, Store
<1> QED
    BY <1>1, <1>2, SettledOptions, ReleaseToOSMissesFew, DisableMissesFew DEF Next

\* What a release that gives up leaves is in the quarantine, when OldestTime is 0 or the
\* cache is empty, and late otherwise.
LEMMA SkippedAreFew ==
    ASSUME CacheInv, LateInv, NEW time \in Nat, GivesUp(time)
    PROVE  Cardinality({e \in Cached : Stale(e, time)}) <= QuarantineSize
<1> DEFINE skipped == {e \in Cached : Stale(e, time)}
           held == {quarantine[s] : s \in Slots}
<1>1. IsFiniteSet(held) /\ Cardinality(held) <= QuarantineSize
    BY QuarantineIsSmall
<1>2. CASE lru = <<>> \/ oldest = 0
  <2>1. skipped \subseteq held
    <3>1. \A i \in DOMAIN lru : lru[i].time = 0
        BY <1>2, UnsetOldest
    <3> QED
        BY <3>1 DEF Cached, Stale
  <2> HIDE DEF skipped, held
  <2>2. IsFiniteSet(skipped) /\ Cardinality(skipped) <= Cardinality(held)
      BY <1>1, <2>1, FS_Subset
  <2>3. Cardinality(skipped) \in Nat /\ Cardinality(held) \in Nat /\ QuarantineSize \in Nat
      BY <1>1, <2>2, FS_CardinalityType, MapCacheAssumption DEF MapCacheAssumption
  <2>4. Cardinality(skipped) <= QuarantineSize
      BY <1>1, <2>2, <2>3
  <2> QED
      BY <2>4 DEF skipped
<1>3. CASE oldest > time
  <2>1. skipped \subseteq Late
      BY <1>3, AgeingTypes DEF Late, Ageing, Stale
  <2> HIDE DEF skipped
  <2>2. IsFiniteSet(skipped) /\ Cardinality(skipped) <= Cardinality(Late)
      BY <2>1, FS_Subset DEF LateInv
  <2>3. Cardinality(skipped) \in Nat /\ Cardinality(Late) \in Nat /\ QuarantineSize \in Nat
      BY <2>2, FS_CardinalityType, MapCacheAssumption DEF LateInv, MapCacheAssumption
  <2>4. Cardinality(skipped) <= QuarantineSize
      BY <2>2, <2>3 DEF LateInv
  <2> QED
      BY <2>4 DEF skipped
<1> QED
    BY <1>2, <1>3 DEF GivesUp

\* Whenever releaseOlderThan may be called, an early return skips no more entries that
\* are old enough than the quarantine has slots, and none when there is no quarantine.
THEOREM EarlyReturnsSkipFew == Spec => []EarlyReturnSkipsFew
<1>1. CacheInv /\ LateInv => EarlyReturnSkipsFew
  <2> SUFFICES ASSUME CacheInv, LateInv, NEW time \in 0 .. MaxTime, GivesUp(time)
               PROVE  Cardinality({e \in Cached : Stale(e, time)}) <= QuarantineSize
      BY DEF EarlyReturnSkipsFew
  <2> QED
      BY SkippedAreFew
<1>2. Spec => []LateInv
    BY CacheInvariant, LateInvInit, LateInvStep, PTL DEF Spec
<1> QED
    BY <1>1, <1>2, CacheInvariant, PTL
=============================================================================
