----------------------- MODULE FrontendBlocks_proofs ------------------------
(***************************************************************************)
(* The blocks of the combined allocator.  Every block has a location, one  *)
(* of the places that can hold blocks (a set of blocks, a list of batches, *)
(* or a call at a stage), and what the header of its chunk says fits the   *)
(* place.  Each step moves blocks from one place to another.  It follows   *)
(* that no block has two holders, that chunks the program has fit their    *)
(* blocks, that an iteration reports them all, and that the quarantine     *)
(* counts the bytes of what it holds.                                      *)
(***************************************************************************)
EXTENDS Frontend_proofs

-----------------------------------------------------------------------------
(* Where the blocks lie.                                                   *)

\* The class counts are bounded by the largest.
LEMMA MostBlocks ==
    LET most == Max({NumBlocks[c] : c \in ClassIds})
    IN  most \in Nat /\ \A c \in ClassIds : NumBlocks[c] \in Nat /\ NumBlocks[c] <= most
<1>1. /\ LargestClassId \in Nat \ {0} /\ ClassIds = 1 .. LargestClassId
      /\ \A c \in ClassIds : NumBlocks[c] \in Nat
    BY ClassesAssumption, LayoutAssumption DEF ClassesAssumption, LayoutAssumption, ClassIds
<1> DEFINE Bounds(k, m) == \A c \in ClassIds : c <= k => NumBlocks[c] <= m
           Bad == {k \in Nat : ~ \E m \in Nat : Bounds(k, m)}
<1>2. Bad = {}
  <2> SUFFICES ASSUME Bad # {} PROVE FALSE
      OBVIOUS
  <2>1. PICK k \in Bad : \A j \in Bad : k <= j
      BY LeastNumber
  <2>2. k \in Nat /\ k # 0
    <3>1. Bounds(0, 0)
        BY <1>1
    <3> QED
        BY <2>1, <3>1
  <2>3. PICK m \in Nat : Bounds(k - 1, m)
      BY <2>1, <2>2
  <2>4. \E j \in Nat : Bounds(k, j)
    <3>1. CASE k \notin ClassIds
      <4>1. \A c \in ClassIds : c <= k => c <= k - 1
          BY <1>1, <2>2, <3>1
      <4> QED
          BY <2>3, <4>1
    <3>2. CASE k \in ClassIds
      <4>0. NumBlocks[k] \in Nat
          BY <1>1, <3>2
      <4>1. NumBlocks[k] + m \in Nat
          BY <4>0
      <4>2. ASSUME NEW c \in ClassIds, c <= k PROVE NumBlocks[c] <= NumBlocks[k] + m
        <5>1. c = k \/ c <= k - 1
            BY <1>1, <2>2, <4>2
        <5>2. NumBlocks[c] \in Nat
            BY <1>1
        <5>3. c <= k - 1 => NumBlocks[c] <= m
            BY <2>3
        <5> QED
            BY <4>0, <5>1, <5>2, <5>3
      <4> QED
          BY <4>1, <4>2
    <3> QED
        BY <3>1, <3>2
  <2> QED
      BY <2>1, <2>4
<1>3. PICK m \in Nat : Bounds(LargestClassId, m)
    BY <1>1, <1>2
<1> DEFINE T == {NumBlocks[c] : c \in ClassIds}
<1>4. T \in SUBSET (0 .. m) /\ T # {}
  <2>1. 1 \in ClassIds
      BY <1>1
  <2>2. \A c \in ClassIds : NumBlocks[c] \in 0 .. m
      BY <1>1, <1>3
  <2> QED
      BY <2>1, <2>2
<1>5. Max(T) \in T /\ \A y \in T : Max(T) >= y
    BY <1>4, MaxIn
<1> QED
    BY <1>1, <1>4, <1>5

\* A block of a class lies in the region of the class.
LEMMA InRegion ==
    ASSUME NEW c \in ClassIds, NEW b \in BlocksOf(c)
    PROVE  /\ b \in Nat \ {0} /\ RegionSize \in Nat /\ RegionBegin(c) \in Nat
           /\ SizeOf(c) \in Nat \ {0}
           /\ RegionBegin(c) <= b /\ b + SizeOf(c) <= RegionBegin(c) + RegionSize
<1>1. /\ LargestClassId \in Nat \ {0} /\ ClassIds = 1 .. LargestClassId
      /\ MaxSize \in Nat /\ SizeOf(c) \in 1 .. MaxSize
    BY ClassesAssumption DEF ClassesAssumption, ClassIds
<1>2. PICK most \in Nat : /\ most = Max({NumBlocks[d] : d \in ClassIds})
                          /\ \A d \in ClassIds : NumBlocks[d] \in Nat /\ NumBlocks[d] <= most
    BY MostBlocks
<1>3. PICK s \in Nat : s = SizeOf(c) /\ s >= 1 /\ s <= MaxSize
    BY <1>1
<1>4. PICK i \in 0 .. NumBlocks[c] - 1 : b = RegionBegin(c) + i * s
    BY <1>3 DEF BlocksOf
<1>5. /\ i \in Nat /\ i + 1 <= most /\ i + 1 \in Nat
    BY <1>2, <1>4
<1>6. (i + 1) * s <= most * MaxSize /\ most * MaxSize \in Nat /\ (i + 1) * s \in Nat
    BY <1>1, <1>3, <1>5, Products
<1>7. (i + 1) * s = i * s + s /\ i * s \in Nat
    BY <1>3, <1>5
<1>8. RegionSize = 2 * (most * MaxSize) /\ RegionSize \in Nat
  <2>1. PICK n \in Nat : n = MaxSize
      BY <1>1
  <2>2. RegionSize = (2 * n) * most
      BY <1>2, <2>1 DEF RegionSize
  <2>3. (2 * n) * most = 2 * (most * n) /\ most * n \in Nat
      OBVIOUS
  <2> QED
      BY <2>1, <2>2, <2>3
<1>9. RegionSize >= s /\ i * s + s <= RegionSize
    BY <1>3, <1>6, <1>7, <1>8
<1>10. c \in Nat /\ c >= 1
    BY <1>1
<1>11. RegionBegin(c) \in Nat /\ RegionBegin(c) >= RegionSize
  <2>1. 1 * RegionSize <= c * RegionSize /\ c * RegionSize \in Nat
      BY <1>8, <1>10, Products
  <2> QED
      BY <1>8, <2>1 DEF RegionBegin
<1> QED
    BY <1>3, <1>4, <1>7, <1>8, <1>9, <1>11

\* Blocks of different classes, and different blocks of a class, lie apart.
LEMMA ClassesApart ==
    ASSUME NEW c \in ClassIds, NEW d \in ClassIds, NEW a \in BlocksOf(c), NEW b \in BlocksOf(d),
           c # d \/ a # b
    PROVE  a + SizeOf(c) <= b \/ b + SizeOf(d) <= a
<1>1. ClassIds \subseteq Nat
    BY ClassesAssumption DEF ClassesAssumption, ClassIds
<1>2. ASSUME NEW x \in ClassIds, NEW y \in ClassIds, x < y, NEW p \in BlocksOf(x), NEW q \in BlocksOf(y)
      PROVE  p + SizeOf(x) <= q
  <2>1. /\ p + SizeOf(x) <= RegionBegin(x) + RegionSize /\ RegionBegin(y) <= q
        /\ RegionSize \in Nat /\ RegionBegin(x) \in Nat /\ RegionBegin(y) \in Nat
        /\ p \in Nat /\ q \in Nat /\ SizeOf(x) \in Nat
      BY InRegion
  <2>2. (x + 1) * RegionSize <= y * RegionSize
      BY <1>1, <1>2, <2>1, Products
  <2>3. (x + 1) * RegionSize = x * RegionSize + RegionSize
      BY <1>1, <2>1
  <2> QED
      BY <1>1, <2>1, <2>2, <2>3 DEF RegionBegin
<1>3. CASE c = d
  <2>1. PICK s \in Nat : s = SizeOf(c)
      BY InRegion
  <2>2. PICK i \in 0 .. NumBlocks[c] - 1 : a = RegionBegin(c) + i * s
      BY <2>1 DEF BlocksOf
  <2>3. PICK j \in 0 .. NumBlocks[c] - 1 : b = RegionBegin(c) + j * s
      BY <1>3, <2>1 DEF BlocksOf
  <2>4. NumBlocks[c] \in Nat /\ RegionBegin(c) \in Nat
      BY MostBlocks, InRegion
  <2>5. i \in Nat /\ j \in Nat /\ i # j
      BY <1>3, <2>2, <2>3, <2>4
  <2>6. i * s \in Nat /\ j * s \in Nat /\ (i + 1) * s = i * s + s /\ (j + 1) * s = j * s + s
      BY <2>1, <2>5
  <2>7. (i + 1) * s <= j * s \/ (j + 1) * s <= i * s
    <3>1. i + 1 <= j \/ j + 1 <= i
        BY <2>5
    <3> QED
        BY <2>1, <2>5, <3>1, Products
  <2> QED
      BY <1>3, <2>1, <2>2, <2>3, <2>4, <2>6, <2>7
<1> QED
    BY <1>1, <1>2, <1>3

\* Blocks of the Primary know their class, and where every block ends.
LEMMA BlockFacts ==
    /\ \A c \in ClassIds : \A b \in BlocksOf(c) :
         b \in Blocks /\ b \notin SecondaryBlocks /\ ClassOfBlock(b) = c /\ c # 0
    /\ \A b \in SecondaryBlocks : b \in Blocks /\ ClassOfBlock(b) = 0
    /\ \A b \in Blocks : b \in SecondaryBlocks \/ \E c \in ClassIds : b \in BlocksOf(c)
<1>1. ASSUME NEW c \in ClassIds, NEW b \in BlocksOf(c)
      PROVE  b \in Blocks /\ b \notin SecondaryBlocks /\ ClassOfBlock(b) = c /\ c # 0
  <2>1. b \in PrimaryBlocks /\ b \notin SecondaryBlocks
      BY ApartAssumption DEF PrimaryBlocks, ApartAssumption
  <2>2. \A d \in ClassIds : b \in BlocksOf(d) => d = c
    <3> SUFFICES ASSUME NEW d \in ClassIds, b \in BlocksOf(d), d # c PROVE FALSE
        OBVIOUS
    <3>1. b + SizeOf(c) <= b \/ b + SizeOf(d) <= b
        BY ClassesApart
    <3>2. b \in Nat /\ SizeOf(c) \in Nat \ {0} /\ SizeOf(d) \in Nat \ {0}
        BY InRegion
    <3> QED
        BY <3>1, <3>2
  <2>3. (CHOOSE d \in ClassIds : b \in BlocksOf(d)) = c
      BY <2>2
  <2>4. c # 0
      BY ClassesAssumption DEF ClassesAssumption, ClassIds
  <2> QED
      BY <2>1, <2>3, <2>4 DEF Blocks, ClassOfBlock
<1> QED
    BY <1>1 DEF Blocks, PrimaryBlocks, ClassOfBlock

EndOf(b) == BlockEnd(b, ClassOfBlock(b))

\* Every block has room and lies apart from all others.
LEMMA BlocksApart ==
    /\ \A b \in Blocks : b \in Nat /\ b # 0 /\ EndOf(b) \in Nat /\ b < EndOf(b)
    /\ \A b \in Blocks : ClassOfBlock(b) \in Nat
    /\ \A a, b \in Blocks : a # b => EndOf(a) <= b \/ EndOf(b) <= a
<1>1. ASSUME NEW b \in SecondaryBlocks
      PROVE  /\ b \in Nat /\ b # 0 /\ EndOf(b) \in Nat /\ b < EndOf(b)
             /\ EndOf(b) = BlockEnd(b, 0) /\ ClassOfBlock(b) = 0
  <2>1. b \in Nat /\ b # 0 /\ ClassOfBlock(b) = 0 /\ SecondaryBytes \in Nat \ {0}
      BY ApartAssumption, LayoutAssumption, BlockFacts DEF ApartAssumption, LayoutAssumption
  <2> QED
      BY <2>1 DEF EndOf, BlockEnd
<1>2. ASSUME NEW c \in ClassIds, NEW b \in BlocksOf(c)
      PROVE  /\ b \in Nat /\ b # 0 /\ EndOf(b) \in Nat /\ b < EndOf(b)
             /\ EndOf(b) = b + SizeOf(c) /\ ClassOfBlock(b) \in Nat
  <2>1. b \in Nat /\ b # 0 /\ SizeOf(c) \in Nat \ {0}
      BY InRegion
  <2>2. ClassOfBlock(b) = c /\ c # 0 /\ c \in Nat
      BY BlockFacts, ClassesAssumption DEF ClassesAssumption, ClassIds
  <2> QED
      BY <2>1, <2>2 DEF EndOf, BlockEnd
<1>3. ASSUME NEW a \in Blocks, NEW b \in Blocks, a # b PROVE EndOf(a) <= b \/ EndOf(b) <= a
  <2>1. CASE a \in SecondaryBlocks
      BY <1>1, <1>3, <2>1, ApartAssumption DEF ApartAssumption, EndOf
  <2>2. CASE b \in SecondaryBlocks
      BY <1>1, <1>3, <2>2, ApartAssumption DEF ApartAssumption, EndOf
  <2>3. CASE a \notin SecondaryBlocks /\ b \notin SecondaryBlocks
    <3>1. PICK c \in ClassIds : a \in BlocksOf(c)
        BY <2>3, BlockFacts
    <3>2. PICK d \in ClassIds : b \in BlocksOf(d)
        BY <2>3, BlockFacts
    <3>3. a + SizeOf(c) <= b \/ b + SizeOf(d) <= a
        BY <1>3, <3>1, <3>2, ClassesApart
    <3> QED
        BY <1>2, <3>1, <3>2, <3>3
  <2> QED
      BY <2>1, <2>2, <2>3
<1> QED
    BY <1>1, <1>2, <1>3, BlockFacts

\* RoundUp goes to the next multiple.
LEMMA RoundUpFacts ==
    ASSUME NEW n \in Nat, NEW a \in Nat \ {0}
    PROVE  RoundUp(n, a) \in Nat /\ n <= RoundUp(n, a) /\ RoundUp(n, a) <= n + a - 1
<1>1. PICK x \in Nat : x = n + a - 1
    OBVIOUS
<1>2. PICK q \in Int : q = x \div a
    BY <1>1
<1>3. x = (a * q) + (x % a) /\ (x % a) \in 0 .. (a - 1)
    BY <1>1, <1>2
<1>4. q * a = a * q /\ q * a \in Int
    BY <1>2
<1>5. RoundUp(n, a) = q * a
    BY <1>1, <1>2 DEF RoundUp
<1> QED
    BY <1>1, <1>3, <1>4, <1>5

\* A chunk begins behind its header, at most an alignment into its block.
LEMMA UserPtrFacts ==
    ASSUME NEW b \in Blocks, NEW a \in Nat \ {0}
    PROVE  /\ UserPtr(b, a) \in Nat /\ b + 1 <= UserPtr(b, a) /\ UserPtr(b, a) <= b + a
           /\ UserPtr(b, 1) = b + 1
           /\ b + 1 \in Ptrs
           /\ a \in Alignments => UserPtr(b, a) \in Ptrs
<1>1. b \in Nat /\ b + 1 \in Nat
    BY BlocksApart
<1>2. UserPtr(b, a) \in Nat /\ b + 1 <= UserPtr(b, a) /\ UserPtr(b, a) <= b + a
    BY <1>1, RoundUpFacts DEF UserPtr, HeaderSize
<1>3. UserPtr(b, 1) = b + 1
    BY <1>1, RoundUpFacts DEF UserPtr, HeaderSize
<1>4. \A x \in Alignments \cup {1} : UserPtr(b, x) \in Ptrs
    BY DEF Ptrs, MinAlignment
<1> QED
    BY <1>1, <1>2, <1>3, <1>4

-----------------------------------------------------------------------------
(* Where the blocks are.                                                   *)

\* What holds blocks, and what holds the pointers of chunks.
Place(kind, of) == [kind |-> kind, of |-> of]

FreePlace == Place("free", NoTSD)
UnmappedPlace == Place("unmapped", NoTSD)
CachePlace(tsd) == Place("cache", tsd)
LivePlace == Place("live", NoTSD)
QuarantinePlace == Place("quarantine", NoTSD)
QuarantineBatches == Place("quarantine batches", NoTSD)
PendingPlace(tsd) == Place("pending", tsd)
PendingBatches(tsd) == Place("pending batches", tsd)
HeldPlace(t) == Place("held", t)
MarkedPlace(t) == Place("marked", t)
PutPlace(t) == Place("put", t)
UnmapPlace(t) == Place("unmap", t)
RecyclePlace(t) == Place("recycle", t)
RecycleBatches(t) == Place("recycle batches", t)

BlockPlaces == [kind : {"free", "unmapped"}, of : {NoTSD}] \cup [kind : {"cache"}, of : TSDs]
PtrPlaces ==
    [kind : {"live", "quarantine", "quarantine batches"}, of : {NoTSD}]
    \cup [kind : {"pending", "pending batches"}, of : TSDs]
    \cup [kind : {"held", "marked", "put", "unmap", "recycle", "recycle batches"}, of : Threads]
Places == BlockPlaces \cup PtrPlaces

Headers == [state : {"none", "Allocated", "Quarantined", "Available"}, class : Nat,
            amount : Int, offset : Nat]

BatchHeader == [NoHeader EXCEPT !.state = "Allocated", !.class = BatchClass,
                                !.amount = BatchBytes]

\* Where the chunk of a block begins.
ChunkAt(b, mk) == b + HeaderSize + mk[b]

\* A chunk that the program may hold: as large as a call asked for, and inside its block.
Usable(p, h) ==
    /\ h.state = "Allocated"
    /\ GetSize(p, h) \in Nat
    /\ p + GetSize(p, h) <= EndOf(GetBlockBegin(p, h))
    /\ \E t \in Threads : \E c \in calls[t] : c.size = GetSize(p, h)

\* What the header of a chunk says at a place.
PtrRule(R, p, h) ==
    /\ R.kind \in {"live", "held"} => Usable(p, h)
    /\ R.kind = "marked" => h.state # "Allocated"
    /\ R.kind = "unmap" => h.class = 0
    /\ R.kind \in {"put", "quarantine", "pending", "recycle"} => h.state = "Quarantined"
    /\ R.kind \in {"quarantine batches", "pending batches", "recycle batches"} => h = BatchHeader

\* What is unmapped belongs to the Secondary; nothing is left allocated in a block that is
\* free or cached.
BlockRule(R, b, h) ==
    IF R = UnmappedPlace THEN b \in SecondaryBlocks ELSE h.state # "Allocated"

Ruled(R, b, hd, mk) ==
    LET p == ChunkAt(b, mk)
    IN  IF R \in BlockPlaces
        THEN BlockRule(R, b, hd[p])
        ELSE PtrRule(R, p, hd[p]) /\ hd[p].offset = mk[b] /\ hd[p].class = ClassOfBlock(b)

\* loc tells where each block is when the places hold what T says.
Located(loc, T, hd, mk) ==
    /\ loc \in [Blocks -> Places]
    /\ hd \in [Ptrs -> Headers] /\ mk \in [Blocks -> Nat]
    /\ \A b \in Blocks : ChunkAt(b, mk) \in Ptrs /\ b + mk[b] < EndOf(b)
    /\ \A b \in Blocks : Ruled(loc[b], b, hd, mk)
    /\ \A R \in BlockPlaces : T[R] = {b \in Blocks : loc[b] = R}
    /\ \A R \in PtrPlaces : T[R] = {ChunkAt(b, mk) : b \in {c \in Blocks : loc[c] = R}}

Owned(T, hd, mk) == \E loc : Located(loc, T, hd, mk)

-----------------------------------------------------------------------------
(* Blocks that move.                                                       *)

\* The places of blocks are not those of pointers.
LEMMA PlacesDiffer ==
    /\ \A R \in BlockPlaces : R \notin PtrPlaces /\ R.kind \in {"free", "unmapped", "cache"}
    /\ \A R \in PtrPlaces : R \notin BlockPlaces
    /\ \A R \in Places : R \in BlockPlaces \/ R \in PtrPlaces
<1>1. \A R \in BlockPlaces : R.kind \in {"free", "unmapped", "cache"}
    BY DEF BlockPlaces
<1>2. \A R \in PtrPlaces : R.kind \notin {"free", "unmapped", "cache"}
    BY DEF PtrPlaces
<1> QED
    BY <1>1, <1>2 DEF Places

\* Chunks of different blocks begin at different addresses.
LEMMA ChunksDiffer ==
    ASSUME NEW mk \in [Blocks -> Nat], \A b \in Blocks : b + mk[b] < EndOf(b)
    PROVE  /\ \A b \in Blocks : ChunkAt(b, mk) = b + 1 + mk[b] /\ ChunkAt(b, mk) \in Nat
           /\ \A a, b \in Blocks : ChunkAt(a, mk) = ChunkAt(b, mk) => a = b
           /\ \A a, b \in Blocks : a # b => ChunkAt(a, mk) - 1 \notin b .. EndOf(b) - 1
<1>1. ASSUME NEW b \in Blocks PROVE /\ b \in Nat /\ mk[b] \in Nat /\ EndOf(b) \in Nat
                                    /\ ChunkAt(b, mk) = b + 1 + mk[b] /\ ChunkAt(b, mk) \in Nat
    BY BlocksApart DEF ChunkAt, HeaderSize
<1>2. ASSUME NEW a \in Blocks, NEW b \in Blocks, a # b
      PROVE  ChunkAt(a, mk) # ChunkAt(b, mk) /\ ChunkAt(a, mk) - 1 \notin b .. EndOf(b) - 1
  <2>1. EndOf(a) <= b \/ EndOf(b) <= a
      BY <1>2, BlocksApart
  <2>2. a + mk[a] < EndOf(a) /\ b + mk[b] < EndOf(b)
      OBVIOUS
  <2> QED
      BY <1>1, <2>1, <2>2
<1> QED
    BY <1>1, <1>2

\* S leaves place P and U arrives at place Q; nothing else changes.
Moves(T, T2, P, S, Q, U) ==
    /\ T2[P] = T[P] \ S /\ T2[Q] = T[Q] \cup U
    /\ \A R \in Places \ {P, Q} : T2[R] = T[R]

\* What blocks are at a place: themselves, or the pointers of their chunks.
Contents(R, S, mk) == IF R \in BlockPlaces THEN S ELSE {ChunkAt(b, mk) : b \in S}

\* Headers and markers of other blocks than these stay.
OthersSame(S, hd, mk, hd2, mk2) ==
    \A b \in Blocks \ S : mk2[b] = mk[b] /\ hd2[ChunkAt(b, mk)] = hd[ChunkAt(b, mk)]

\* These blocks may be at this place.
MayBe(S, R, hd, mk) ==
    \A b \in S : ChunkAt(b, mk) \in Ptrs /\ b + mk[b] < EndOf(b) /\ Ruled(R, b, hd, mk)

\* A part of the blocks at a place goes to another place.
LEMMA Relocate ==
    ASSUME NEW loc, NEW T, NEW hd, NEW mk, Located(loc, T, hd, mk),
           NEW P \in Places, NEW Q \in Places, P # Q,
           NEW S, S \subseteq {b \in Blocks : loc[b] = P},
           NEW hd2, hd2 \in [Ptrs -> Headers], NEW mk2, mk2 \in [Blocks -> Nat],
           OthersSame(S, hd, mk, hd2, mk2), MayBe(S, Q, hd2, mk2),
           NEW T2, Moves(T, T2, P, Contents(P, S, mk), Q, Contents(Q, S, mk2))
    PROVE  Owned(T2, hd2, mk2)
<1>0. /\ \A b \in Blocks \ S : mk2[b] = mk[b] /\ hd2[ChunkAt(b, mk)] = hd[ChunkAt(b, mk)]
      /\ \A b \in S : ChunkAt(b, mk2) \in Ptrs /\ b + mk2[b] < EndOf(b) /\ Ruled(Q, b, hd2, mk2)
      /\ \A R \in Places \ {P, Q} : T2[R] = T[R]
      /\ P \in BlockPlaces => T2[P] = T[P] \ S
      /\ P \in PtrPlaces => T2[P] = T[P] \ {ChunkAt(b, mk) : b \in S}
      /\ Q \in BlockPlaces => T2[Q] = T[Q] \cup S
      /\ Q \in PtrPlaces => T2[Q] = T[Q] \cup {ChunkAt(b, mk2) : b \in S}
    BY PlacesDiffer DEF OthersSame, MayBe, Moves, Contents
<1> DEFINE loc2 == [b \in Blocks |-> IF b \in S THEN Q ELSE loc[b]]
<1>1. /\ loc \in [Blocks -> Places] /\ mk \in [Blocks -> Nat]
      /\ \A b \in Blocks : ChunkAt(b, mk) \in Ptrs /\ b + mk[b] < EndOf(b)
      /\ \A b \in Blocks : Ruled(loc[b], b, hd, mk)
      /\ \A R \in BlockPlaces : T[R] = {b \in Blocks : loc[b] = R}
      /\ \A R \in PtrPlaces : T[R] = {ChunkAt(b, mk) : b \in {c \in Blocks : loc[c] = R}}
    BY DEF Located
<1>2. /\ loc2 \in [Blocks -> Places]
      /\ \A b \in Blocks : loc2[b] = IF b \in S THEN Q ELSE loc[b]
    BY <1>1
<1> HIDE DEF loc2
<1>3. \A b \in Blocks \ S : ChunkAt(b, mk2) = ChunkAt(b, mk)
    BY <1>0 DEF ChunkAt
<1>4. \A b \in Blocks : ChunkAt(b, mk2) \in Ptrs /\ b + mk2[b] < EndOf(b)
    BY <1>0, <1>1, <1>3
<1>5. ASSUME NEW b \in Blocks PROVE Ruled(loc2[b], b, hd2, mk2)
  <2>1. CASE b \in S
      BY <1>0, <1>2, <2>1
  <2>2. CASE b \notin S
    <3>1. /\ loc2[b] = loc[b] /\ ChunkAt(b, mk2) = ChunkAt(b, mk) /\ mk2[b] = mk[b]
          /\ hd2[ChunkAt(b, mk)] = hd[ChunkAt(b, mk)] /\ Ruled(loc[b], b, hd, mk)
        BY <1>0, <1>1, <1>2, <1>3, <2>2
    <3> QED
        BY ONLY <3>1 DEF Ruled
  <2> QED
      BY <2>1, <2>2
<1>6. ASSUME NEW R \in BlockPlaces PROVE T2[R] = {b \in Blocks : loc2[b] = R}
  <2>1. T[R] = {b \in Blocks : loc[b] = R} /\ R \in Places /\ R \notin PtrPlaces
      BY <1>1, PlacesDiffer DEF Places
  <2>2. CASE R = P
      BY <1>0, <1>2, <2>1, <2>2
  <2>3. CASE R = Q
      BY <1>0, <1>2, <2>1, <2>3
  <2>4. CASE R \notin {P, Q}
      BY <1>0, <1>2, <2>1, <2>4
  <2> QED
      BY <2>2, <2>3, <2>4
<1>7. ASSUME NEW R \in PtrPlaces
      PROVE  T2[R] = {ChunkAt(b, mk2) : b \in {c \in Blocks : loc2[c] = R}}
  <2>1. T[R] = {ChunkAt(b, mk) : b \in {c \in Blocks : loc[c] = R}} /\ R \in Places
      BY <1>1 DEF Places
  <2>2. \A a, b \in Blocks : ChunkAt(a, mk) = ChunkAt(b, mk) => a = b
      BY <1>1, ChunksDiffer
  <2>3. CASE R = P
    <3>1. \A b \in Blocks : loc2[b] = R <=> loc[b] = R /\ b \notin S
        BY <1>2, <2>3
    <3>2. T2[R] = T[R] \ {ChunkAt(b, mk) : b \in S}
        BY <1>0, <2>3
    <3> QED
        BY <1>3, <2>1, <2>2, <3>1, <3>2
  <2>4. CASE R = Q
    <3>1. \A b \in Blocks : loc2[b] = R <=> loc[b] = R \/ b \in S
        BY <1>2, <2>4
    <3>2. T2[R] = T[R] \cup {ChunkAt(b, mk2) : b \in S}
        BY <1>0, <2>4
    <3>3. \A b \in Blocks : loc[b] = R => b \notin S
        BY <2>4
    <3> QED
        BY <1>3, <2>1, <3>1, <3>2, <3>3
  <2>5. CASE R \notin {P, Q}
    <3>1. \A b \in Blocks : loc2[b] = R <=> loc[b] = R /\ b \notin S
        BY <1>2, <2>5
    <3>2. \A b \in Blocks : loc2[b] = R <=> loc[b] = R
        BY <1>2, <2>5
    <3>3. T2[R] = T[R]
        BY <1>0, <2>1, <2>5
    <3> QED
        BY <1>3, <2>1, <3>1, <3>2, <3>3
  <2> QED
      BY <2>3, <2>4, <2>5
<1>8. Located(loc2, T2, hd2, mk2)
    BY <1>2, <1>4, <1>5, <1>6, <1>7 DEF Located
<1> QED
    BY <1>8 DEF Owned

\* A pointer at a place leads to its block, and its header follows the rule of the place.
LEMMA Behind ==
    ASSUME NEW loc, NEW T, NEW hd, NEW mk, Located(loc, T, hd, mk),
           NEW R \in PtrPlaces, NEW p \in T[R]
    PROVE  LET b == GetBlockBegin(p, hd[p])
           IN  /\ b \in Blocks /\ loc[b] = R /\ p = ChunkAt(b, mk)
               /\ p \in Ptrs /\ p \in Nat /\ p # None /\ hd[p] \in Headers
               /\ hd[p].offset = mk[b] /\ hd[p].class = ClassOfBlock(b)
               /\ PtrRule(R, p, hd[p])
               /\ b + 1 <= p /\ p - 1 < EndOf(b)
<1>1. /\ loc \in [Blocks -> Places] /\ mk \in [Blocks -> Nat] /\ hd \in [Ptrs -> Headers]
      /\ \A b \in Blocks : ChunkAt(b, mk) \in Ptrs /\ b + mk[b] < EndOf(b)
      /\ T[R] = {ChunkAt(b, mk) : b \in {c \in Blocks : loc[c] = R}}
    BY DEF Located
<1>2. PICK b \in Blocks : loc[b] = R /\ p = ChunkAt(b, mk)
    BY <1>1
<1>3. Ruled(R, b, hd, mk)
    BY <1>2 DEF Located
<1>4. PtrRule(R, p, hd[p]) /\ hd[p].offset = mk[b] /\ hd[p].class = ClassOfBlock(b)
    BY <1>2, <1>3, PlacesDiffer DEF Ruled
<1>5. b \in Nat /\ mk[b] \in Nat /\ p = b + 1 + mk[b] /\ p \in Ptrs /\ EndOf(b) \in Nat
    BY <1>1, <1>2, BlocksApart DEF ChunkAt, HeaderSize
<1>6. GetBlockBegin(p, hd[p]) = b
    BY <1>4, <1>5 DEF GetBlockBegin, HeaderSize
<1>7. b + 1 <= p /\ p - 1 < EndOf(b) /\ p # None /\ p \in Nat
  <2>1. b + mk[b] < EndOf(b)
      BY <1>1
  <2> QED
      BY <1>5, <2>1 DEF None
<1> QED
    BY <1>1, <1>2, <1>4, <1>5, <1>6, <1>7

\* A header says where its chunk begins only by its offset.
LEMMA SameBegin ==
    ASSUME NEW p, NEW h, NEW g, g.offset = h.offset
    PROVE  GetBlockBegin(p, g) = GetBlockBegin(p, h)
BY DEF GetBlockBegin

\* Pointers go from one place to another.
LEMMA MovePtrs ==
    ASSUME NEW T, NEW hd, NEW mk, Owned(T, hd, mk),
           NEW P \in PtrPlaces, NEW Q \in PtrPlaces, P # Q, NEW S \in SUBSET T[P],
           \A p \in S : PtrRule(Q, p, hd[p]),
           NEW T2, Moves(T, T2, P, S, Q, S)
    PROVE  Owned(T2, hd, mk)
<1>1. PICK loc : Located(loc, T, hd, mk)
    BY DEF Owned
<1>2. /\ mk \in [Blocks -> Nat] /\ hd \in [Ptrs -> Headers]
      /\ \A b \in Blocks : ChunkAt(b, mk) \in Ptrs /\ b + mk[b] < EndOf(b)
      /\ \A b \in Blocks : Ruled(loc[b], b, hd, mk)
      /\ T[P] = {ChunkAt(b, mk) : b \in {c \in Blocks : loc[c] = P}}
    BY <1>1 DEF Located
<1>3. PICK B \in SUBSET {b \in Blocks : loc[b] = P} : B = {b \in Blocks : loc[b] = P /\ ChunkAt(b, mk) \in S}
    OBVIOUS
<1>4. S = {ChunkAt(b, mk) : b \in B}
    BY <1>2, <1>3
<1>5. P \in Places /\ Q \in Places /\ P \notin BlockPlaces /\ Q \notin BlockPlaces
    BY PlacesDiffer DEF Places
<1>6. ASSUME NEW b \in B PROVE Ruled(Q, b, hd, mk)
  <2>1. Ruled(P, b, hd, mk) /\ ChunkAt(b, mk) \in S
      BY <1>2, <1>3
  <2> QED
      BY <1>5, <2>1 DEF Ruled
<1>7. MayBe(B, Q, hd, mk) /\ OthersSame(B, hd, mk, hd, mk)
    BY <1>2, <1>6 DEF MayBe, OthersSame
<1>8. Contents(P, B, mk) = S /\ Contents(Q, B, mk) = S
    BY <1>4, <1>5 DEF Contents
<1>9. Moves(T, T2, P, Contents(P, B, mk), Q, Contents(Q, B, mk))
    BY <1>8
<1> QED
    BY <1>1, <1>2, <1>3, <1>5, <1>7, <1>9, Relocate

\* Free blocks go to a cache, or back.
LEMMA MoveBlocks ==
    ASSUME NEW T, NEW hd, NEW mk, Owned(T, hd, mk),
           NEW P \in BlockPlaces, NEW Q \in BlockPlaces, P # Q,
           P # UnmappedPlace, Q # UnmappedPlace, NEW S \in SUBSET T[P],
           NEW T2, Moves(T, T2, P, S, Q, S)
    PROVE  Owned(T2, hd, mk)
<1>1. PICK loc : Located(loc, T, hd, mk)
    BY DEF Owned
<1>2. /\ mk \in [Blocks -> Nat] /\ hd \in [Ptrs -> Headers]
      /\ \A b \in Blocks : ChunkAt(b, mk) \in Ptrs /\ b + mk[b] < EndOf(b)
      /\ \A b \in Blocks : Ruled(loc[b], b, hd, mk)
      /\ T[P] = {b \in Blocks : loc[b] = P}
    BY <1>1 DEF Located
<1>3. S \in SUBSET {b \in Blocks : loc[b] = P}
    BY <1>2
<1>4. P \in Places /\ Q \in Places /\ P \notin PtrPlaces /\ Q \notin PtrPlaces
    BY PlacesDiffer DEF Places
<1>5. ASSUME NEW b \in S PROVE Ruled(Q, b, hd, mk)
  <2>1. Ruled(P, b, hd, mk)
      BY <1>2
  <2> QED
      BY <2>1 DEF Ruled, BlockRule
<1>6. MayBe(S, Q, hd, mk) /\ OthersSame(S, hd, mk, hd, mk)
    BY <1>2, <1>3, <1>5 DEF MayBe, OthersSame
<1>7. Contents(P, S, mk) = S /\ Contents(Q, S, mk) = S
    BY DEF Contents
<1>8. Moves(T, T2, P, Contents(P, S, mk), Q, Contents(Q, S, mk))
    BY <1>7
<1> QED
    BY <1>1, <1>2, <1>3, <1>4, <1>6, <1>8, Relocate

\* The block behind a pointer is given back; the header of that pointer may change.
LEMMA Release ==
    ASSUME NEW T, NEW hd, NEW mk, Owned(T, hd, mk),
           NEW P \in PtrPlaces, NEW Q \in BlockPlaces, NEW p \in T[P], NEW block,
           block = GetBlockBegin(p, hd[p]),
           NEW hd2 \in [Ptrs -> Headers], \A q \in Ptrs \ {p} : hd2[q] = hd[q],
           BlockRule(Q, block, hd2[p]),
           NEW T2, Moves(T, T2, P, {p}, Q, {block})
    PROVE  Owned(T2, hd2, mk)
<1>1. PICK loc : Located(loc, T, hd, mk)
    BY DEF Owned
<1>2. /\ mk \in [Blocks -> Nat]
      /\ \A b \in Blocks : ChunkAt(b, mk) \in Ptrs /\ b + mk[b] < EndOf(b)
    BY <1>1 DEF Located
<1>3. /\ block \in Blocks /\ loc[block] = P /\ p = ChunkAt(block, mk)
    BY <1>1, Behind
<1>4. P \in Places /\ Q \in Places /\ P \notin BlockPlaces /\ Q \notin PtrPlaces /\ P # Q
    BY PlacesDiffer DEF Places
<1>5. Ruled(Q, block, hd2, mk)
    BY <1>3 DEF Ruled
<1>6. \A b \in Blocks \ {block} : hd2[ChunkAt(b, mk)] = hd[ChunkAt(b, mk)]
    BY <1>2, <1>3, ChunksDiffer
<1>7. /\ {block} \subseteq {b \in Blocks : loc[b] = P}
      /\ Contents(P, {block}, mk) = {p} /\ Contents(Q, {block}, mk) = {block}
    BY <1>3, <1>4 DEF Contents
<1>8. MayBe({block}, Q, hd2, mk) /\ OthersSame({block}, hd, mk, hd2, mk)
    BY <1>2, <1>3, <1>5, <1>6 DEF MayBe, OthersSame
<1>9. Moves(T, T2, P, Contents(P, {block}, mk), Q, Contents(Q, {block}, mk))
    BY <1>7
<1> QED
    BY <1>1, <1>2, <1>4, <1>7, <1>8, <1>9, Relocate

\* What WriteHeader stores.
Written(hd, block, p, h) ==
    [q \in Ptrs |-> IF q = p THEN h
                    ELSE IF q \in PtrsInto(block, h.class) THEN NoHeader ELSE hd[q]]

\* A pointer with its header may begin in a block.
Begins(p, block, h) ==
    /\ p \in Ptrs /\ p \in Nat /\ block + 1 <= p /\ p <= EndOf(block)
    /\ h \in Headers /\ h.offset = p - (block + 1) /\ h.class = ClassOfBlock(block)

\* It is another one than those there are, and their headers stay.
IsNew(T, hd, p, hd2) == \A R \in PtrPlaces : \A q \in T[R] : q # p /\ hd2[q] = hd[q]

\* A chunk begins in a block that was free, cached or unmapped: it is a new pointer, and
\* the headers of all the others stay.
LEMMA Claim ==
    ASSUME NEW T, NEW hd, NEW mk, Owned(T, hd, mk),
           NEW P \in BlockPlaces, NEW Q \in PtrPlaces, NEW block \in T[P],
           NEW p, NEW h, Begins(p, block, h), PtrRule(Q, p, h),
           NEW T2, Moves(T, T2, P, {block}, Q, {p})
    PROVE  /\ Owned(T2, Written(hd, block, p, h), [mk EXCEPT ![block] = h.offset])
           /\ Written(hd, block, p, h)[p] = h
           /\ IsNew(T, hd, p, Written(hd, block, p, h))
<1> DEFINE hd2 == Written(hd, block, p, h)
           mk2 == [mk EXCEPT ![block] = h.offset]
<1>1. PICK loc : Located(loc, T, hd, mk)
    BY DEF Owned
<1>2. /\ mk \in [Blocks -> Nat] /\ hd \in [Ptrs -> Headers]
      /\ \A b \in Blocks : ChunkAt(b, mk) \in Ptrs /\ b + mk[b] < EndOf(b)
      /\ T[P] = {b \in Blocks : loc[b] = P}
    BY <1>1 DEF Located
<1>3. P \in Places /\ Q \in Places /\ P \notin PtrPlaces /\ Q \notin BlockPlaces /\ P # Q
    BY PlacesDiffer DEF Places
<1>4. /\ block \in Blocks /\ loc[block] = P /\ block \in Nat /\ EndOf(block) \in Nat
      /\ block < EndOf(block)
      /\ p \in Ptrs /\ p \in Nat /\ block + 1 <= p /\ p <= EndOf(block)
      /\ h \in Headers /\ h.offset = p - (block + 1) /\ h.class = ClassOfBlock(block)
    BY <1>2, BlocksApart DEF Begins
<1>5. h.offset \in Nat
    BY <1>4
<1>6. NoHeader \in Headers
    BY DEF NoHeader, Headers
<1>7. /\ hd2 \in [Ptrs -> Headers] /\ hd2[p] = h
      /\ \A q \in Ptrs : q # p /\ q \notin PtrsInto(block, h.class) => hd2[q] = hd[q]
    BY <1>2, <1>4, <1>6 DEF Written
<1>8. /\ mk2 \in [Blocks -> Nat] /\ mk2[block] = h.offset
      /\ \A b \in Blocks : b # block => mk2[b] = mk[b]
    BY <1>2, <1>4, <1>5
<1> HIDE DEF hd2, mk2
<1>9. PtrsInto(block, h.class) = {q \in Ptrs : q - 1 \in block .. EndOf(block) - 1}
    BY <1>4 DEF PtrsInto, EndOf, HeaderSize
<1>10. \A b \in Blocks \ {block} : hd2[ChunkAt(b, mk)] = hd[ChunkAt(b, mk)] /\ ChunkAt(b, mk) # p
  <2> SUFFICES ASSUME NEW b \in Blocks, b # block
               PROVE  hd2[ChunkAt(b, mk)] = hd[ChunkAt(b, mk)] /\ ChunkAt(b, mk) # p
      OBVIOUS
  <2>1. /\ ChunkAt(b, mk) \in Ptrs /\ ChunkAt(b, mk) \in Nat
        /\ ChunkAt(b, mk) - 1 \notin block .. EndOf(block) - 1
      BY <1>2, <1>4, ChunksDiffer
  <2>2. p - 1 \in block .. EndOf(block) - 1
      BY <1>4
  <2> QED
      BY <1>7, <1>9, <2>1, <2>2
<1>11. /\ ChunkAt(block, mk2) = p /\ block + mk2[block] < EndOf(block)
    BY <1>4, <1>8 DEF ChunkAt, HeaderSize
<1>12. Ruled(Q, block, hd2, mk2)
    BY <1>3, <1>4, <1>7, <1>8, <1>11 DEF Ruled
<1>13. /\ {block} \subseteq {b \in Blocks : loc[b] = P}
       /\ Contents(P, {block}, mk) = {block} /\ Contents(Q, {block}, mk2) = {p}
    BY <1>3, <1>4, <1>11 DEF Contents
<1>14. MayBe({block}, Q, hd2, mk2) /\ OthersSame({block}, hd, mk, hd2, mk2)
    BY <1>4, <1>8, <1>10, <1>11, <1>12 DEF MayBe, OthersSame
<1>15. Owned(T2, hd2, mk2)
  <2>1. Moves(T, T2, P, Contents(P, {block}, mk), Q, Contents(Q, {block}, mk2))
      BY <1>13
  <2>2. hd2 \in [Ptrs -> Headers] /\ mk2 \in [Blocks -> Nat]
      BY <1>7, <1>8
  <2> QED
      BY <1>1, <1>3, <1>13, <1>14, <2>1, <2>2, Relocate
<1>16. ASSUME NEW R \in PtrPlaces, NEW q \in T[R] PROVE q # p /\ hd2[q] = hd[q]
  <2>1. PICK b : b \in Blocks /\ loc[b] = R /\ q = ChunkAt(b, mk)
      BY <1>1, Behind
  <2>2. b # block
      BY <1>3, <1>4, <2>1
  <2> QED
      BY <1>10, <2>1, <2>2
<1> QED
    BY <1>7, <1>15, <1>16 DEF hd2, mk2, IsNew

\* A pointer goes to another place with another header.
LEMMA Rewrite ==
    ASSUME NEW T, NEW hd, NEW mk, Owned(T, hd, mk),
           NEW P \in PtrPlaces, NEW Q \in PtrPlaces, P # Q, NEW p \in T[P],
           NEW h \in Headers, h.offset = hd[p].offset, h.class = hd[p].class,
           PtrRule(Q, p, h),
           NEW T2, Moves(T, T2, P, {p}, Q, {p})
    PROVE  Owned(T2, [hd EXCEPT ![p] = h], mk)
<1>1. PICK loc : Located(loc, T, hd, mk)
    BY DEF Owned
<1>2. PICK hd2 : hd2 = [hd EXCEPT ![p] = h]
    OBVIOUS
<1>3. /\ mk \in [Blocks -> Nat] /\ hd \in [Ptrs -> Headers]
      /\ \A b \in Blocks : ChunkAt(b, mk) \in Ptrs /\ b + mk[b] < EndOf(b)
    BY <1>1 DEF Located
<1>4. PICK block \in Blocks : /\ loc[block] = P /\ p = ChunkAt(block, mk) /\ p \in Ptrs
                              /\ hd[p].offset = mk[block] /\ hd[p].class = ClassOfBlock(block)
    BY <1>1, Behind
<1>5. /\ hd2 \in [Ptrs -> Headers] /\ hd2[p] = h
      /\ \A q \in Ptrs : q # p => hd2[q] = hd[q]
    BY <1>2, <1>3, <1>4
<1>6. P \in Places /\ Q \in Places /\ P \notin BlockPlaces /\ Q \notin BlockPlaces
    BY PlacesDiffer DEF Places
<1>7. Ruled(Q, block, hd2, mk)
    BY <1>4, <1>5, <1>6 DEF Ruled
<1>8. \A b \in Blocks \ {block} : hd2[ChunkAt(b, mk)] = hd[ChunkAt(b, mk)]
    BY <1>3, <1>4, <1>5, ChunksDiffer
<1>9. MayBe({block}, Q, hd2, mk) /\ OthersSame({block}, hd, mk, hd2, mk)
    BY <1>3, <1>7, <1>8 DEF MayBe, OthersSame
<1>10. /\ {block} \subseteq {b \in Blocks : loc[b] = P}
       /\ Contents(P, {block}, mk) = {p} /\ Contents(Q, {block}, mk) = {p}
    BY <1>4, <1>6 DEF Contents
<1>11. Moves(T, T2, P, Contents(P, {block}, mk), Q, Contents(Q, {block}, mk))
    BY <1>10
<1> QED
    BY <1>1, <1>2, <1>3, <1>5, <1>6, <1>9, <1>10, <1>11, Relocate

\* Different places hold different pointers.
LEMMA Disjoint ==
    ASSUME NEW T, NEW hd, NEW mk, Owned(T, hd, mk),
           NEW P \in PtrPlaces, NEW Q \in PtrPlaces, P # Q
    PROVE  T[P] \cap T[Q] = {}
<1>1. PICK loc : Located(loc, T, hd, mk)
    BY DEF Owned
<1>2. SUFFICES ASSUME NEW p, p \in T[P], p \in T[Q] PROVE FALSE
    OBVIOUS
<1>3. loc[GetBlockBegin(p, hd[p])] = P
    BY <1>1, <1>2, Behind
<1>4. loc[GetBlockBegin(p, hd[p])] = Q
    BY <1>1, <1>2, Behind
<1> QED
    BY <1>3, <1>4

-----------------------------------------------------------------------------
(* Caches.                                                                 *)

\* The cache of a TSD and the free blocks, whatever they are.
IsStock(acc) == \E S : acc \in [cache : S, free : S] \/ acc \in [cache : S, free : S, header : S]

\* deallocate adds the block, and may move others to the Primary.
LEMMA DeallocateFacts ==
    ASSUME NEW acc, IsStock(acc), NEW block
    PROVE  LET r == CacheDeallocate(acc, block)
           IN  \E moved \in SUBSET acc.cache :
                 /\ r.cache = (acc.cache \ moved) \cup {block}
                 /\ r.free = acc.free \cup moved
                 /\ \A S : acc \in [cache : S, free : S, header : S] =>
                      r.header = acc.header /\ IsStock(r)
                      /\ \E U : r \in [cache : U, free : U, header : U]
<1>1. PICK S : acc \in [cache : S, free : S] \/ acc \in [cache : S, free : S, header : S]
    BY DEF IsStock
<1>2. PICK c : c = ClassOfBlock(block)
    OBVIOUS
<1>3. PICK moved : moved = Lowest(MaxCount(c) \div 2, InClass(acc.cache, c))
    OBVIOUS
<1>4. moved \in SUBSET acc.cache
    BY <1>3 DEF Lowest, InClass
<1>5. DrainClass(acc, c) = [acc EXCEPT !.cache = @ \ moved, !.free = @ \cup moved]
    BY <1>3 DEF DrainClass
<1>6. PICK d : d = IF Cardinality(InClass(acc.cache, c)) = MaxCount(c)
                   THEN DrainClass(acc, c) ELSE acc
    OBVIOUS
<1>7. CacheDeallocate(acc, block) = [d EXCEPT !.cache = @ \cup {block}]
    BY <1>2, <1>6 DEF CacheDeallocate
<1>8. PICK out \in SUBSET acc.cache :
         /\ d.cache = acc.cache \ out /\ d.free = acc.free \cup out
         /\ \E U : \/ d \in [cache : U, free : U] /\ acc \in [cache : S, free : S]
                   \/ d \in [cache : U, free : U, header : U] /\ d.header = acc.header
  <2>1. CASE d = acc
    <3>1. {} \in SUBSET acc.cache /\ acc.cache = acc.cache \ {} /\ acc.free = acc.free \cup {}
        OBVIOUS
    <3> QED
        BY <1>1, <2>1, <3>1
  <2>2. CASE d = DrainClass(acc, c)
    <3>1. d = [acc EXCEPT !.cache = @ \ moved, !.free = @ \cup moved]
        BY <1>5, <2>2
    <3>2. PICK U : U = S \cup {acc.cache \ moved, acc.free \cup moved}
        OBVIOUS
    <3>3. CASE acc \in [cache : S, free : S]
      <4>1. d \in [cache : U, free : U] /\ d.cache = acc.cache \ moved /\ d.free = acc.free \cup moved
          BY <3>1, <3>2, <3>3
      <4> QED
          BY <1>4, <3>3, <4>1
    <3>4. CASE acc \in [cache : S, free : S, header : S]
      <4>1. /\ d \in [cache : U, free : U, header : U] /\ d.header = acc.header
            /\ d.cache = acc.cache \ moved /\ d.free = acc.free \cup moved
          BY <3>1, <3>2, <3>4
      <4> QED
          BY <1>4, <4>1
    <3> QED
        BY <1>1, <3>3, <3>4
  <2> QED
      BY <1>6, <2>1, <2>2
<1>9. PICK U : \/ d \in [cache : U, free : U] /\ acc \in [cache : S, free : S]
               \/ d \in [cache : U, free : U, header : U] /\ d.header = acc.header
    BY <1>8
<1>10. PICK r : r = CacheDeallocate(acc, block)
    OBVIOUS
<1>11. r = [d EXCEPT !.cache = @ \cup {block}]
    BY <1>7, <1>10
<1>12. PICK V : V = U \cup {d.cache \cup {block}}
    OBVIOUS
<1>13. r.cache = d.cache \cup {block} /\ r.free = d.free
    BY <1>9, <1>11
<1>15. ASSUME NEW X, acc \in [cache : X, free : X, header : X]
       PROVE  r.header = acc.header /\ r \in [cache : V, free : V, header : V]
  <2>1. acc \notin [cache : S, free : S]
    <3>1. SUFFICES ASSUME acc \in [cache : S, free : S] PROVE FALSE
        OBVIOUS
    <3>2. DOMAIN acc = {"cache", "free"}
        BY <3>1
    <3>3. DOMAIN acc = {"cache", "free", "header"}
        BY <1>15
    <3> QED
        BY <3>2, <3>3
  <2>2. d \in [cache : U, free : U, header : U] /\ d.header = acc.header
      BY <1>9, <2>1
  <2> QED
      BY <1>11, <1>12, <2>2
<1> QED
    BY <1>8, <1>10, <1>13, <1>15 DEF IsStock

\* allocate takes a block of the class, perhaps after others came from the Primary.
LEMMA AllocateFacts ==
    ASSUME NEW acc, IsStock(acc), NEW c \in ClassIds, CacheAllocate(acc, c).block # None
    PROVE  LET got == CacheAllocate(acc, c)
           IN  \E moved \in SUBSET acc.free :
                 /\ got.block \in acc.cache \cup moved /\ got.block \in BlocksOf(c)
                 /\ got.acc.cache = (acc.cache \cup moved) \ {got.block}
                 /\ got.acc.free = acc.free \ moved
<1>1. PICK S : acc \in [cache : S, free : S] \/ acc \in [cache : S, free : S, header : S]
    BY DEF IsStock
<1>2. PICK f : f = IF InClass(acc.cache, c) = {} THEN Refill(acc, c) ELSE acc
    OBVIOUS
<1>3. PICK out \in SUBSET acc.free :
         /\ f.cache = acc.cache \cup out /\ f.free = acc.free \ out
         /\ \E U : \/ f \in [cache : U, free : U]
                   \/ f \in [cache : U, free : U, header : U]
  <2>1. CASE f = acc
    <3>1. {} \in SUBSET acc.free /\ acc.cache = acc.cache \cup {} /\ acc.free = acc.free \ {}
        OBVIOUS
    <3> QED
        BY <1>1, <2>1, <3>1
  <2>2. CASE f = Refill(acc, c)
    <3>1. PICK moved : moved = Lowest(MaxCount(c) \div 2, InClass(acc.free, c))
        OBVIOUS
    <3>2. moved \in SUBSET acc.free
        BY <3>1 DEF Lowest, InClass
    <3>3. f = [acc EXCEPT !.cache = @ \cup moved, !.free = @ \ moved]
        BY <2>2, <3>1 DEF Refill
    <3>4. PICK U : U = S \cup {acc.cache \cup moved, acc.free \ moved}
        OBVIOUS
    <3>5. /\ f.cache = acc.cache \cup moved /\ f.free = acc.free \ moved
          /\ f \in [cache : U, free : U] \/ f \in [cache : U, free : U, header : U]
        BY <1>1, <3>3, <3>4
    <3> QED
        BY <3>2, <3>5
  <2> QED
      BY <1>2, <2>1, <2>2
<1>4. PICK blocks : blocks = InClass(f.cache, c)
    OBVIOUS
<1>5. CacheAllocate(acc, c) =
        IF blocks = {} THEN [acc |-> acc, block |-> None]
        ELSE [acc |-> [f EXCEPT !.cache = @ \ {Max(blocks)}], block |-> Max(blocks)]
    BY <1>2, <1>4 DEF CacheAllocate
<1>6. blocks # {}
    BY <1>5
<1>7. Max(blocks) \in blocks
  <2>1. PICK n \in Nat : n = RegionBegin(c) + RegionSize
    <3>1. RegionBegin(c) \in Nat /\ RegionSize \in Nat
        BY <1>4, <1>6, InRegion DEF InClass
    <3> QED
        BY <3>1
  <2>2. blocks \in SUBSET (0 .. n)
    <3> SUFFICES ASSUME NEW b \in blocks PROVE b \in 0 .. n
        OBVIOUS
    <3>1. b \in BlocksOf(c)
        BY <1>4 DEF InClass
    <3>2. /\ b \in Nat /\ b + SizeOf(c) <= RegionBegin(c) + RegionSize /\ SizeOf(c) \in Nat
        BY <3>1, InRegion
    <3> QED
        BY <2>1, <3>2
  <2> QED
      BY <1>6, <2>1, <2>2, MaxIn
<1>8. PICK b : b = Max(blocks)
    OBVIOUS
<1>9. PICK g : g = CacheAllocate(acc, c)
    OBVIOUS
<1>10. g = [acc |-> [f EXCEPT !.cache = @ \ {b}], block |-> b]
    BY <1>5, <1>6, <1>8, <1>9
<1>11. g.block = b /\ g.acc.cache = f.cache \ {b} /\ g.acc.free = f.free
    BY <1>3, <1>10
<1>12. b \in f.cache /\ b \in BlocksOf(c)
    BY <1>4, <1>7, <1>8 DEF InClass
<1> QED
    BY <1>3, <1>9, <1>11, <1>12

-----------------------------------------------------------------------------
(* Blocks that come and go through a cache.                                *)

\* Where the blocks of a cache may be found.
LEMMA CacheIsPlace ==
    ASSUME NEW x \in TSDs
    PROVE  /\ CachePlace(x) \in BlockPlaces /\ FreePlace \in BlockPlaces
           /\ UnmappedPlace \in BlockPlaces
           /\ CachePlace(x) # FreePlace /\ CachePlace(x) # UnmappedPlace
           /\ FreePlace # UnmappedPlace
BY DEF BlockPlaces, CachePlace, FreePlace, UnmappedPlace, Place

\* A pointer's block goes to a cache.
LEMMA ReleaseToCache ==
    ASSUME NEW T, NEW hd, NEW mk, Owned(T, hd, mk), DOMAIN T = Places,
           NEW P \in PtrPlaces, NEW x \in TSDs, NEW p \in T[P], NEW acc, IsStock(acc),
           acc.cache = T[CachePlace(x)], acc.free = T[FreePlace],
           NEW block, block = GetBlockBegin(p, hd[p]),
           NEW hd2 \in [Ptrs -> Headers], \A q \in Ptrs \ {p} : hd2[q] = hd[q],
           hd2[p].state # "Allocated",
           NEW r, r = CacheDeallocate(acc, block),
           NEW T2, T2[P] = T[P] \ {p}, T2[CachePlace(x)] = r.cache, T2[FreePlace] = r.free,
           \A R \in Places \ {P, CachePlace(x), FreePlace} : T2[R] = T[R]
    PROVE  Owned(T2, hd2, mk)
<1>1. PICK moved \in SUBSET acc.cache :
         r.cache = (acc.cache \ moved) \cup {block} /\ r.free = acc.free \cup moved
    BY DeallocateFacts
<1>2. PICK C : C = CachePlace(x)
    OBVIOUS
<1>3. /\ C \in BlockPlaces /\ FreePlace \in BlockPlaces /\ C # FreePlace
      /\ C # UnmappedPlace /\ FreePlace # UnmappedPlace
    BY <1>2, CacheIsPlace
<1>4. C \in Places /\ FreePlace \in Places /\ P \in Places /\ P # C /\ P # FreePlace
    BY <1>3, PlacesDiffer DEF Places
<1>5. PICK T1 : T1 = [T EXCEPT ![C] = @ \ moved, ![FreePlace] = @ \cup moved]
    OBVIOUS
<1>6. /\ T1[C] = T[C] \ moved /\ T1[FreePlace] = T[FreePlace] \cup moved
      /\ \A R \in Places \ {C, FreePlace} : T1[R] = T[R]
    BY <1>3, <1>4, <1>5
<1>7. moved \in SUBSET T[C]
    BY <1>2
<1>8. Owned(T1, hd, mk)
  <2>1. Moves(T, T1, C, moved, FreePlace, moved)
      BY <1>6 DEF Moves
  <2> QED
      BY <1>3, <1>7, <2>1, MoveBlocks
<1>9. p \in T1[P] /\ T2[P] = T1[P] \ {p}
    BY <1>4, <1>6
<1>10. T2[C] = T1[C] \cup {block}
    BY <1>1, <1>2, <1>6
<1>11. \A R \in Places \ {P, C} : T2[R] = T1[R]
  <2>1. T2[FreePlace] = T1[FreePlace]
      BY <1>1, <1>6
  <2>2. \A R \in Places \ {P, C, FreePlace} : T2[R] = T[R] /\ T1[R] = T[R]
      BY <1>2, <1>6
  <2> QED
      BY <2>1, <2>2
<1>12. BlockRule(C, block, hd2[p])
    BY <1>3 DEF BlockRule
<1>13. Moves(T1, T2, P, {p}, C, {block})
    BY <1>9, <1>10, <1>11 DEF Moves
<1> QED
    BY <1>3, <1>8, <1>9, <1>12, <1>13, Release

\* A chunk begins in a block that comes from a cache.
LEMMA ClaimFromCache ==
    ASSUME NEW T, NEW hd, NEW mk, Owned(T, hd, mk), DOMAIN T = Places,
           NEW Q \in PtrPlaces, NEW x \in TSDs, NEW acc, IsStock(acc),
           acc.cache = T[CachePlace(x)], acc.free = T[FreePlace],
           NEW c \in ClassIds, NEW got, got = CacheAllocate(acc, c), got.block # None,
           NEW p, NEW h, Begins(p, got.block, h), PtrRule(Q, p, h),
           NEW T2, T2[Q] = T[Q] \cup {p},
           T2[CachePlace(x)] = got.acc.cache, T2[FreePlace] = got.acc.free,
           \A R \in Places \ {Q, CachePlace(x), FreePlace} : T2[R] = T[R]
    PROVE  LET hd2 == Written(hd, got.block, p, h)
           IN  /\ Owned(T2, hd2, [mk EXCEPT ![got.block] = h.offset])
               /\ hd2[p] = h
               /\ IsNew(T, hd, p, hd2)
<1>1. PICK moved \in SUBSET acc.free :
         /\ got.block \in acc.cache \cup moved /\ got.block \in BlocksOf(c)
         /\ got.acc.cache = (acc.cache \cup moved) \ {got.block}
         /\ got.acc.free = acc.free \ moved
    BY AllocateFacts
<1>2. PICK C : C = CachePlace(x)
    OBVIOUS
<1>3. /\ C \in BlockPlaces /\ FreePlace \in BlockPlaces /\ C # FreePlace
      /\ C # UnmappedPlace /\ FreePlace # UnmappedPlace
    BY <1>2, CacheIsPlace
<1>4. C \in Places /\ FreePlace \in Places /\ Q \in Places /\ Q # C /\ Q # FreePlace
    BY <1>3, PlacesDiffer DEF Places
<1>5. PICK T1 : T1 = [T EXCEPT ![C] = @ \cup moved, ![FreePlace] = @ \ moved]
    OBVIOUS
<1>6. /\ T1[C] = T[C] \cup moved /\ T1[FreePlace] = T[FreePlace] \ moved
      /\ \A R \in Places \ {C, FreePlace} : T1[R] = T[R]
    BY <1>3, <1>4, <1>5
<1>7. moved \in SUBSET T[FreePlace]
    OBVIOUS
<1>8. Owned(T1, hd, mk)
  <2>1. Moves(T, T1, FreePlace, moved, C, moved)
      BY <1>6 DEF Moves
  <2> QED
      BY <1>3, <1>7, <2>1, MoveBlocks
<1>9. got.block \in T1[C] /\ T2[C] = T1[C] \ {got.block}
    BY <1>1, <1>2, <1>6
<1>10. T2[Q] = T1[Q] \cup {p}
    BY <1>4, <1>6
<1>11. \A R \in Places \ {C, Q} : T2[R] = T1[R]
  <2>1. T2[FreePlace] = T1[FreePlace]
      BY <1>1, <1>6
  <2>2. \A R \in Places \ {Q, C, FreePlace} : T2[R] = T[R] /\ T1[R] = T[R]
      BY <1>2, <1>6
  <2> QED
      BY <2>1, <2>2
<1>12. \A R \in PtrPlaces : T1[R] = T[R]
    BY <1>3, <1>6, PlacesDiffer DEF Places
<1>13. Moves(T1, T2, C, {got.block}, Q, {p})
    BY <1>9, <1>10, <1>11 DEF Moves
<1>14. /\ Owned(T2, Written(hd, got.block, p, h), [mk EXCEPT ![got.block] = h.offset])
       /\ Written(hd, got.block, p, h)[p] = h
       /\ IsNew(T1, hd, p, Written(hd, got.block, p, h))
    BY <1>3, <1>8, <1>9, <1>13, Claim
<1> QED
    BY <1>12, <1>14 DEF IsNew

-----------------------------------------------------------------------------
(* What the places hold.                                                   *)

\* Stages before a marked pointer is with its TSD, for the old chunk of a resize after the
\* new one is there.
Marked(stage, work) ==
    /\ stage \in {"take", "fallback", "slow", "await", "push"}
    /\ work.op = "free" \/ work.result # None

\* The pointers of a call that are still as the program had or will have them.
HeldBy(stage, work) ==
    ({work.result} \cup (IF \/ stage \in Delivered \cup {"put", "unmap"}
                            \/ Marked(stage, work)
                         THEN {} ELSE {work.ptr})) \ {None}
MarkedBy(stage, work) == IF Marked(stage, work) THEN {work.ptr} \ {None} ELSE {}
PtrAt(where, stage, work) == IF stage = where THEN {work.ptr} \ {None} ELSE {}

TableOf(fr, un, ca, li, qu, pe, st, jb) ==
    [R \in Places |->
       CASE R.kind = "free" -> fr
         [] R.kind = "unmapped" -> un
         [] R.kind = "cache" -> ca[R.of]
         [] R.kind = "live" -> li
         [] R.kind = "quarantine" -> ChunksOf(qu.list)
         [] R.kind = "quarantine batches" -> AtsOf(qu.list)
         [] R.kind = "pending" -> ChunksOf(pe[R.of].list)
         [] R.kind = "pending batches" -> AtsOf(pe[R.of].list)
         [] R.kind = "held" -> HeldBy(st[R.of], jb[R.of])
         [] R.kind = "marked" -> MarkedBy(st[R.of], jb[R.of])
         [] R.kind = "put" -> PtrAt("put", st[R.of], jb[R.of])
         [] R.kind = "unmap" -> PtrAt("unmap", st[R.of], jb[R.of])
         [] R.kind = "recycle" -> ChunksOf(jb[R.of].batches)
         [] R.kind = "recycle batches" -> AtsOf(jb[R.of].batches)]

Table == TableOf(free, unmapped, cache, live, quarantine, pending, pc, job)

\* What it says of each place.
LEMMA Lookups ==
    ASSUME NEW fr, NEW un, NEW ca, NEW li, NEW qu, NEW pe, NEW st, NEW jb,
           NEW T, T = TableOf(fr, un, ca, li, qu, pe, st, jb)
    PROVE  /\ DOMAIN T = Places
           /\ T[FreePlace] = fr /\ T[UnmappedPlace] = un /\ T[LivePlace] = li
           /\ T[QuarantinePlace] = ChunksOf(qu.list) /\ T[QuarantineBatches] = AtsOf(qu.list)
           /\ \A x \in TSDs :
                /\ T[CachePlace(x)] = ca[x]
                /\ T[PendingPlace(x)] = ChunksOf(pe[x].list)
                /\ T[PendingBatches(x)] = AtsOf(pe[x].list)
           /\ \A t \in Threads :
                /\ T[HeldPlace(t)] = HeldBy(st[t], jb[t])
                /\ T[MarkedPlace(t)] = MarkedBy(st[t], jb[t])
                /\ T[PutPlace(t)] = PtrAt("put", st[t], jb[t])
                /\ T[UnmapPlace(t)] = PtrAt("unmap", st[t], jb[t])
                /\ T[RecyclePlace(t)] = ChunksOf(jb[t].batches)
                /\ T[RecycleBatches(t)] = AtsOf(jb[t].batches)
<1>1. /\ FreePlace \in Places /\ FreePlace.kind = "free"
      /\ UnmappedPlace \in Places /\ UnmappedPlace.kind = "unmapped"
      /\ LivePlace \in Places /\ LivePlace.kind = "live"
      /\ QuarantinePlace \in Places /\ QuarantinePlace.kind = "quarantine"
      /\ QuarantineBatches \in Places /\ QuarantineBatches.kind = "quarantine batches"
    BY DEF Places, BlockPlaces, PtrPlaces, FreePlace, UnmappedPlace, LivePlace, QuarantinePlace,
           QuarantineBatches, Place
<1>2. \A x \in TSDs :
        /\ CachePlace(x) \in Places /\ CachePlace(x).kind = "cache" /\ CachePlace(x).of = x
        /\ PendingPlace(x) \in Places /\ PendingPlace(x).kind = "pending" /\ PendingPlace(x).of = x
        /\ PendingBatches(x) \in Places /\ PendingBatches(x).kind = "pending batches"
        /\ PendingBatches(x).of = x
    BY DEF Places, BlockPlaces, PtrPlaces, CachePlace, PendingPlace, PendingBatches, Place
<1>3. \A t \in Threads :
        /\ HeldPlace(t) \in Places /\ HeldPlace(t).kind = "held" /\ HeldPlace(t).of = t
        /\ MarkedPlace(t) \in Places /\ MarkedPlace(t).kind = "marked" /\ MarkedPlace(t).of = t
        /\ PutPlace(t) \in Places /\ PutPlace(t).kind = "put" /\ PutPlace(t).of = t
        /\ UnmapPlace(t) \in Places /\ UnmapPlace(t).kind = "unmap" /\ UnmapPlace(t).of = t
        /\ RecyclePlace(t) \in Places /\ RecyclePlace(t).kind = "recycle" /\ RecyclePlace(t).of = t
        /\ RecycleBatches(t) \in Places /\ RecycleBatches(t).kind = "recycle batches"
        /\ RecycleBatches(t).of = t
    BY DEF Places, PtrPlaces, HeldPlace, MarkedPlace, PutPlace, UnmapPlace, RecyclePlace,
           RecycleBatches, Place
<1>4. DOMAIN T = Places
    BY DEF TableOf
<1>5. /\ T[FreePlace] = fr /\ T[UnmappedPlace] = un /\ T[LivePlace] = li
      /\ T[QuarantinePlace] = ChunksOf(qu.list) /\ T[QuarantineBatches] = AtsOf(qu.list)
    BY <1>1 DEF TableOf
<1>6. ASSUME NEW x \in TSDs
      PROVE  /\ T[CachePlace(x)] = ca[x]
             /\ T[PendingPlace(x)] = ChunksOf(pe[x].list)
             /\ T[PendingBatches(x)] = AtsOf(pe[x].list)
    BY <1>2 DEF TableOf
<1>7. ASSUME NEW t \in Threads
      PROVE  /\ T[HeldPlace(t)] = HeldBy(st[t], jb[t])
             /\ T[MarkedPlace(t)] = MarkedBy(st[t], jb[t])
             /\ T[PutPlace(t)] = PtrAt("put", st[t], jb[t])
             /\ T[UnmapPlace(t)] = PtrAt("unmap", st[t], jb[t])
             /\ T[RecyclePlace(t)] = ChunksOf(jb[t].batches)
             /\ T[RecycleBatches(t)] = AtsOf(jb[t].batches)
    BY <1>3 DEF TableOf
<1> QED
    BY <1>4, <1>5, <1>6, <1>7

\* Every place is one of these.
LEMMA PlaceKinds ==
    ASSUME NEW R \in Places
    PROVE  \/ R \in {FreePlace, UnmappedPlace, LivePlace, QuarantinePlace, QuarantineBatches}
           \/ \E x \in TSDs : R \in {CachePlace(x), PendingPlace(x), PendingBatches(x)}
           \/ \E t \in Threads :
                R \in {HeldPlace(t), MarkedPlace(t), PutPlace(t), UnmapPlace(t),
                       RecyclePlace(t), RecycleBatches(t)}
<1>1. CASE R \in [kind : {"free", "unmapped"}, of : {NoTSD}]
    BY <1>1 DEF FreePlace, UnmappedPlace, Place
<1>2. CASE R \in [kind : {"live", "quarantine", "quarantine batches"}, of : {NoTSD}]
    BY <1>2 DEF LivePlace, QuarantinePlace, QuarantineBatches, Place
<1>3. CASE R \in [kind : {"cache"}, of : TSDs]
  <2>1. R.of \in TSDs /\ R = CachePlace(R.of)
      BY <1>3 DEF CachePlace, Place
  <2> QED
      BY <2>1
<1>4. CASE R \in [kind : {"pending", "pending batches"}, of : TSDs]
  <2>1. R.of \in TSDs /\ (R = PendingPlace(R.of) \/ R = PendingBatches(R.of))
      BY <1>4 DEF PendingPlace, PendingBatches, Place
  <2> QED
      BY <2>1
<1>5. CASE R \in [kind : {"held", "marked", "put", "unmap", "recycle", "recycle batches"},
                  of : Threads]
  <2>1. R.of \in Threads /\ R \in {HeldPlace(R.of), MarkedPlace(R.of), PutPlace(R.of),
                                   UnmapPlace(R.of), RecyclePlace(R.of), RecycleBatches(R.of)}
      BY <1>5 DEF HeldPlace, MarkedPlace, PutPlace, UnmapPlace, RecyclePlace, RecycleBatches,
                  Place
  <2> QED
      BY <2>1
<1> QED
    BY <1>1, <1>2, <1>3, <1>4, <1>5 DEF Places, BlockPlaces, PtrPlaces

\* Other TSDs and other threads have what they had.
RestKeeps(x, t, ca, pe, st, jb, ca2, pe2, st2, jb2) ==
    /\ \A y \in TSDs \ {x} : ca2[y] = ca[y] /\ pe2[y] = pe[y]
    /\ \A u \in Threads \ {t} : st2[u] = st[u] /\ jb2[u] = jb[u]

\* A step of one thread, with one TSD, leaves the places of the others.
LEMMA Elsewhere ==
    ASSUME NEW fr, NEW un, NEW ca, NEW li, NEW qu, NEW pe, NEW st, NEW jb,
           NEW T, T = TableOf(fr, un, ca, li, qu, pe, st, jb),
           NEW fr2, NEW un2, NEW ca2, NEW li2, NEW qu2, NEW pe2, NEW st2, NEW jb2,
           NEW T2, T2 = TableOf(fr2, un2, ca2, li2, qu2, pe2, st2, jb2),
           NEW x, NEW t,
           RestKeeps(x, t, ca, pe, st, jb, ca2, pe2, st2, jb2),
           NEW R \in Places
    PROVE  \/ T2[R] = T[R]
           \/ R \in {FreePlace, UnmappedPlace, LivePlace, QuarantinePlace, QuarantineBatches}
           \/ x \in TSDs /\ R \in {CachePlace(x), PendingPlace(x), PendingBatches(x)}
           \/ /\ t \in Threads
              /\ R \in {HeldPlace(t), MarkedPlace(t), PutPlace(t), UnmapPlace(t),
                        RecyclePlace(t), RecycleBatches(t)}
<1>1. ASSUME NEW y \in TSDs, y # x, R \in {CachePlace(y), PendingPlace(y), PendingBatches(y)}
      PROVE  T2[R] = T[R]
  <2>1. /\ T[CachePlace(y)] = ca[y] /\ T[PendingPlace(y)] = ChunksOf(pe[y].list)
        /\ T[PendingBatches(y)] = AtsOf(pe[y].list)
      BY Lookups
  <2>2. /\ T2[CachePlace(y)] = ca2[y] /\ T2[PendingPlace(y)] = ChunksOf(pe2[y].list)
        /\ T2[PendingBatches(y)] = AtsOf(pe2[y].list)
      BY Lookups
  <2>3. ca2[y] = ca[y] /\ pe2[y] = pe[y]
      BY <1>1 DEF RestKeeps
  <2> QED
      BY <1>1, <2>1, <2>2, <2>3
<1>2. ASSUME NEW u \in Threads, u # t,
             R \in {HeldPlace(u), MarkedPlace(u), PutPlace(u), UnmapPlace(u),
                    RecyclePlace(u), RecycleBatches(u)}
      PROVE  T2[R] = T[R]
  <2>1. /\ T[HeldPlace(u)] = HeldBy(st[u], jb[u]) /\ T[MarkedPlace(u)] = MarkedBy(st[u], jb[u])
        /\ T[PutPlace(u)] = PtrAt("put", st[u], jb[u])
        /\ T[UnmapPlace(u)] = PtrAt("unmap", st[u], jb[u])
        /\ T[RecyclePlace(u)] = ChunksOf(jb[u].batches)
        /\ T[RecycleBatches(u)] = AtsOf(jb[u].batches)
      BY Lookups
  <2>2. /\ T2[HeldPlace(u)] = HeldBy(st2[u], jb2[u])
        /\ T2[MarkedPlace(u)] = MarkedBy(st2[u], jb2[u])
        /\ T2[PutPlace(u)] = PtrAt("put", st2[u], jb2[u])
        /\ T2[UnmapPlace(u)] = PtrAt("unmap", st2[u], jb2[u])
        /\ T2[RecyclePlace(u)] = ChunksOf(jb2[u].batches)
        /\ T2[RecycleBatches(u)] = AtsOf(jb2[u].batches)
      BY Lookups
  <2>3. st2[u] = st[u] /\ jb2[u] = jb[u]
      BY <1>2 DEF RestKeeps
  <2> QED
      BY <1>2, <2>1, <2>2, <2>3
<1> QED
    BY <1>1, <1>2, PlaceKinds

\* Places of pointers, and those of them that differ.
LEMMA PtrPlaceFacts ==
    ASSUME NEW x \in TSDs, NEW t \in Threads
    PROVE  /\ {LivePlace, QuarantinePlace, QuarantineBatches, PendingPlace(x), PendingBatches(x),
               HeldPlace(t), MarkedPlace(t), PutPlace(t), UnmapPlace(t), RecyclePlace(t),
               RecycleBatches(t)} \subseteq PtrPlaces
           /\ LivePlace.kind = "live"
           /\ QuarantinePlace.kind = "quarantine" /\ PendingPlace(x).kind = "pending"
           /\ QuarantineBatches.kind = "quarantine batches"
           /\ PendingBatches(x).kind = "pending batches"
           /\ HeldPlace(t).kind = "held" /\ MarkedPlace(t).kind = "marked"
           /\ PutPlace(t).kind = "put" /\ UnmapPlace(t).kind = "unmap"
           /\ RecyclePlace(t).kind = "recycle" /\ RecycleBatches(t).kind = "recycle batches"
<1>1. LivePlace \in PtrPlaces /\ LivePlace.kind = "live"
    BY DEF LivePlace, Place, PtrPlaces
<1>2. QuarantinePlace \in PtrPlaces /\ QuarantinePlace.kind = "quarantine"
    BY DEF QuarantinePlace, Place, PtrPlaces
<1>3. QuarantineBatches \in PtrPlaces /\ QuarantineBatches.kind = "quarantine batches"
    BY DEF QuarantineBatches, Place, PtrPlaces
<1>4. PendingPlace(x) \in PtrPlaces /\ PendingPlace(x).kind = "pending"
    BY DEF PendingPlace, Place, PtrPlaces
<1>5. PendingBatches(x) \in PtrPlaces /\ PendingBatches(x).kind = "pending batches"
    BY DEF PendingBatches, Place, PtrPlaces
<1>6. HeldPlace(t) \in PtrPlaces /\ HeldPlace(t).kind = "held"
    BY DEF HeldPlace, Place, PtrPlaces
<1>7. MarkedPlace(t) \in PtrPlaces /\ MarkedPlace(t).kind = "marked"
    BY DEF MarkedPlace, Place, PtrPlaces
<1>8. PutPlace(t) \in PtrPlaces /\ PutPlace(t).kind = "put"
    BY DEF PutPlace, Place, PtrPlaces
<1>9. UnmapPlace(t) \in PtrPlaces /\ UnmapPlace(t).kind = "unmap"
    BY DEF UnmapPlace, Place, PtrPlaces
<1>10. RecyclePlace(t) \in PtrPlaces /\ RecyclePlace(t).kind = "recycle"
    BY DEF RecyclePlace, Place, PtrPlaces
<1>11. RecycleBatches(t) \in PtrPlaces /\ RecycleBatches(t).kind = "recycle batches"
    BY DEF RecycleBatches, Place, PtrPlaces
<1> QED
    BY <1>1, <1>2, <1>3, <1>4, <1>5, <1>6, <1>7, <1>8, <1>9, <1>10, <1>11

\* The registry and the calls never change, so that what the places say means the same in
\* the next state.
LEMMA Settle ==
    ASSUME registry' = registry, calls' = calls
    PROVE  /\ Table' = TableOf(free', unmapped', cache', live', quarantine', pending', pc', job')
           /\ Owned(Table', header', marker') => Owned(Table, header, marker)'
<1>1. TSDs' = TSDs
    BY DEF TSDs
<1>2. Places' = Places /\ BlockPlaces' = BlockPlaces /\ PtrPlaces' = PtrPlaces
    BY <1>1 DEF Places, BlockPlaces, PtrPlaces
<1>3. Table' = TableOf(free', unmapped', cache', live', quarantine', pending', pc', job')
    BY <1>2 DEF Table, TableOf
<1>4. ASSUME NEW loc, Located(loc, Table', header', marker')
      PROVE  Located(loc, Table, header, marker)'
  <2>1. \A p, h : Usable(p, h)' <=> Usable(p, h)
      BY DEF Usable
  <2>2. \A R, p, h : PtrRule(R, p, h)' <=> PtrRule(R, p, h)
      BY <2>1 DEF PtrRule
  <2>3. \A b \in Blocks : Ruled(loc[b], b, header, marker)'
    <3> SUFFICES ASSUME NEW b \in Blocks PROVE Ruled(loc[b], b, header, marker)'
        OBVIOUS
    <3>1. Ruled(loc[b], b, header', marker')
        BY <1>4 DEF Located
    <3> QED
        BY <1>2, <2>2, <3>1 DEF Ruled
  <2> QED
      BY <1>2, <1>4, <2>3 DEF Located
<1> QED
    BY <1>3, <1>4 DEF Owned

-----------------------------------------------------------------------------
(* The invariant.                                                          *)

\* What the program asked for.
Asked(work) ==
    /\ work.size \in Nat /\ work.align \in Alignments
    /\ \E t \in Threads : \E c \in calls[t] : c.size = work.size

\* A block is still to be found.
Wants(work) == work.op = "malloc" \/ (work.op = "realloc" /\ work.result = None)

\* What a call works on at a stage.
Shape(stage, work) ==
    /\ stage # "aborted"
    /\ stage = "idle" => work = NoJob
    /\ work.tsd \in TSDs \cup {NoTSD}
    /\ work.op = "drain" => work.todo \in Seq(TSDs)
    /\ work.ptr # None <=> work.op \in {"free", "realloc"}
    /\ work.result # None => work.op = "realloc" /\ work.result # work.ptr
    /\ stage \in {"init", "attach", "resize", "map", "pop"} => work.result = None
    /\ stage = "resize" => work.op = "realloc"
    /\ stage \in {"map", "pop"} => work.op \in {"malloc", "realloc"}
    /\ stage \in {"mark", "unmap", "push", "put"} => work.op = "free" \/ work.result # None
    /\ work.op \in {"malloc", "realloc"} => Asked(work)
    /\ stage \in {"take", "fallback", "slow", "await", "pop"} /\ Wants(work) =>
         CanAllocate(work.size, work.align)
    /\ stage \notin {"unlock", "scrub"} => work.batches = <<>>
    /\ stage = "scrub" => work.batches # <<>>
    /\ Tidy(work.batches)

Accounted ==
    /\ Owned(Table, header, marker)
    /\ DOMAIN cache = AllTSDs /\ DOMAIN pending = AllTSDs
    /\ IsCache(quarantine) /\ \A x \in AllTSDs : IsCache(pending[x])
    /\ \A t \in Threads : Shape(pc[t], job[t])
    /\ \A t \in Threads : \A c \in calls[t] : IsCall(c)

\* A process without memory for a batch is no more.
Dead == Aborted /\ \A t \in Threads : pc[t] = "aborted"

OwnInv == Dead \/ Accounted

-----------------------------------------------------------------------------
(* Jobs.                                                                   *)

\* The fields of a job that stay.
Same(w, v) ==
    /\ IsJob(w) /\ w.op = v.op /\ w.size = v.size /\ w.align = v.align /\ w.ptr = v.ptr

LEMMA WorkFields ==
    ASSUME NEW v, IsJob(v), NEW x, NEW y
    PROVE  /\ LET w == WithTSD(v, x)
              IN  /\ Same(w, v) /\ w.tsd = x /\ w.result = v.result
                  /\ w.batches = v.batches /\ w.todo = v.todo
           /\ LET w == WithResult(v, x, y)
              IN  /\ Same(w, v) /\ w.tsd = x /\ w.result = y
                  /\ w.batches = v.batches /\ w.todo = v.todo
           /\ LET w == WithNext(v, x, y)
              IN  /\ Same(w, v) /\ w.tsd = x /\ w.result = v.result
                  /\ w.batches = v.batches /\ w.todo = y
           /\ LET w == WithBatches(v, x)
              IN  /\ Same(w, v) /\ w.tsd = v.tsd /\ w.result = v.result
                  /\ w.batches = x /\ w.todo = v.todo
           /\ LET w == WithTodo(v, x)
              IN  /\ Same(w, v) /\ w.tsd = v.tsd /\ w.result = v.result
                  /\ w.batches = v.batches /\ w.todo = x
<1>1. PICK S : v \in JobOver(S)
    BY DEF IsJob
<1> DEFINE v1 == WithTSD(v, x)
           v2 == WithResult(v, x, y)
           v3 == WithNext(v, x, y)
           v4 == WithBatches(v, x)
           v5 == WithTodo(v, x)
<1>2. /\ v1.op = v.op /\ v1.size = v.size /\ v1.align = v.align /\ v1.ptr = v.ptr
      /\ v1.tsd = x /\ v1.result = v.result /\ v1.batches = v.batches /\ v1.todo = v.todo
    BY <1>1 DEF JobOver, WithTSD
<1>3. /\ v2.op = v.op /\ v2.size = v.size /\ v2.align = v.align /\ v2.ptr = v.ptr
      /\ v2.tsd = x /\ v2.result = y /\ v2.batches = v.batches /\ v2.todo = v.todo
    BY <1>1 DEF JobOver, WithResult
<1>4. /\ v3.op = v.op /\ v3.size = v.size /\ v3.align = v.align /\ v3.ptr = v.ptr
      /\ v3.tsd = x /\ v3.result = v.result /\ v3.batches = v.batches /\ v3.todo = y
    BY <1>1 DEF JobOver, WithNext
<1>5. /\ v4.op = v.op /\ v4.size = v.size /\ v4.align = v.align /\ v4.ptr = v.ptr
      /\ v4.tsd = v.tsd /\ v4.result = v.result /\ v4.batches = x /\ v4.todo = v.todo
    BY <1>1 DEF JobOver, WithBatches
<1>6. /\ v5.op = v.op /\ v5.size = v.size /\ v5.align = v.align /\ v5.ptr = v.ptr
      /\ v5.tsd = v.tsd /\ v5.result = v.result /\ v5.batches = v.batches /\ v5.todo = x
    BY <1>1 DEF JobOver, WithTodo
<1>7. IsJob(v1) /\ IsJob(v2) /\ IsJob(v3) /\ IsJob(v4) /\ IsJob(v5)
    BY JobFacts
<1> HIDE DEF v1, v2, v3, v4, v5
<1> QED
    BY <1>2, <1>3, <1>4, <1>5, <1>6, <1>7 DEF Same, v1, v2, v3, v4, v5

\* A call that begins, commitBack, and no call.
LEMMA NewFields ==
    /\ \A op, size, align, p, todo :
         LET w == NewJob(op, size, align, p, todo)
         IN  /\ w.op = op /\ w.size = size /\ w.align = align /\ w.ptr = p /\ w.todo = todo
             /\ w.tsd = NoTSD /\ w.result = None /\ w.batches = <<>>
    /\ \A t : LET w == ExitJob(t)
              IN  /\ w.op = "exit" /\ w.tsd = t /\ w.ptr = None /\ w.result = None
                  /\ w.batches = <<>>
    /\ NoJob.op = "none" /\ NoJob.tsd = NoTSD /\ NoJob.ptr = None /\ NoJob.result = None
    /\ NoJob.batches = <<>>
<1>1. ASSUME NEW op, NEW size, NEW align, NEW p, NEW todo, NEW w,
             w = NewJob(op, size, align, p, todo)
      PROVE  /\ w.op = op /\ w.size = size /\ w.align = align /\ w.ptr = p /\ w.todo = todo
             /\ w.tsd = NoTSD /\ w.result = None /\ w.batches = <<>>
    BY <1>1 DEF NewJob, NoJob
<1>2. ASSUME NEW t, NEW w, w = ExitJob(t)
      PROVE  /\ w.op = "exit" /\ w.tsd = t /\ w.ptr = None /\ w.result = None
             /\ w.batches = <<>>
    BY <1>2 DEF ExitJob, NoJob
<1>3. /\ NoJob.op = "none" /\ NoJob.tsd = NoTSD /\ NoJob.ptr = None /\ NoJob.result = None
      /\ NoJob.batches = <<>>
    BY DEF NoJob
<1> QED
    BY <1>1, <1>2, <1>3

-----------------------------------------------------------------------------
(* Steps.                                                                  *)

\* Thread t goes to this stage with this work.
Goes(t, stage, work) ==
    pc' = [pc EXCEPT ![t] = stage] /\ job' = [job EXCEPT ![t] = work]

\* The same program goes on.
Continues == registry' = registry /\ calls' = calls

\* The caches are as they should be after the step.
CachesFit ==
    /\ DOMAIN cache' = AllTSDs /\ DOMAIN pending' = AllTSDs
    /\ IsCache(quarantine') /\ \A x \in AllTSDs : IsCache(pending'[x])

LEMMA ShapeStays ==
    ASSUME Continues
    PROVE  \A stage, work : Shape(stage, work)' <=> Shape(stage, work)
<1>1. TSDs' = TSDs
    BY DEF Continues, TSDs
<1>2. \A work : Asked(work)' <=> Asked(work)
    BY DEF Continues, Asked
<1> QED
    BY <1>1, <1>2 DEF Shape

\* What has to be shown for a step.
LEMMA Carry ==
    ASSUME LockInv, Accounted, Continues, CachesFit, NEW t \in Threads,
           NEW stage, NEW work, Goes(t, stage, work), Shape(stage, work),
           Owned(Table', header', marker')
    PROVE  Accounted'
<1>1. \A u \in Threads : Shape(pc'[u], job'[u])
  <2>1. DOMAIN pc = Threads /\ DOMAIN job = Threads
      BY DEF LockInv, LockTypes
  <2>2. \A u \in Threads : Shape(pc[u], job[u])
      BY DEF Accounted
  <2> QED
      BY <2>1, <2>2 DEF Goes
<1>2. \A u \in Threads : Shape(pc[u], job[u])'
    BY <1>1, ShapeStays
<1>3. \A u \in Threads : \A c \in calls'[u] : IsCall(c)
    BY DEF Accounted, Continues
<1>4. Owned(Table, header, marker)'
    BY Settle DEF Continues
<1> QED
    BY <1>2, <1>3, <1>4 DEF Accounted, CachesFit

\* The places that a step of a thread with a TSD may touch.
Near(t, x) ==
    {FreePlace, UnmappedPlace, LivePlace, QuarantinePlace, QuarantineBatches,
     HeldPlace(t), MarkedPlace(t), PutPlace(t), UnmapPlace(t), RecyclePlace(t), RecycleBatches(t)}
    \cup (IF x \in TSDs THEN {CachePlace(x), PendingPlace(x), PendingBatches(x)} ELSE {})

\* What they hold.
Shows(T, t, x, fr, un, li, qu, ca, pe, stage, work) ==
    /\ DOMAIN T = Places
    /\ T[FreePlace] = fr /\ T[UnmappedPlace] = un /\ T[LivePlace] = li
    /\ T[QuarantinePlace] = ChunksOf(qu.list) /\ T[QuarantineBatches] = AtsOf(qu.list)
    /\ x \in TSDs =>
         /\ T[CachePlace(x)] = ca[x]
         /\ T[PendingPlace(x)] = ChunksOf(pe[x].list)
         /\ T[PendingBatches(x)] = AtsOf(pe[x].list)
    /\ T[HeldPlace(t)] = HeldBy(stage, work)
    /\ T[MarkedPlace(t)] = MarkedBy(stage, work)
    /\ T[PutPlace(t)] = PtrAt("put", stage, work)
    /\ T[UnmapPlace(t)] = PtrAt("unmap", stage, work)
    /\ T[RecyclePlace(t)] = ChunksOf(work.batches)
    /\ T[RecycleBatches(t)] = AtsOf(work.batches)

\* Places other than these hold what they held.
SameBut(S, T, T2) == \A R \in Places \ S : T2[R] = T[R]

\* Only the caches of this TSD are touched.
OnlyCaches(x) == \A y \in TSDs \ {x} : cache'[y] = cache[y] /\ pending'[y] = pending[y]

\* The places before and after a step.
LEMMA Views ==
    ASSUME LockInv, Continues, NEW t \in Threads, NEW x, OnlyCaches(x),
           NEW stage, NEW work, Goes(t, stage, work), NEW T, T = Table, NEW T2, T2 = Table'
    PROVE  /\ Shows(T, t, x, free, unmapped, live, quarantine, cache, pending, pc[t], job[t])
           /\ Shows(T2, t, x, free', unmapped', live', quarantine', cache', pending', stage, work)
           /\ SameBut(Near(t, x), T, T2)
<1>1. T2 = TableOf(free', unmapped', cache', live', quarantine', pending', pc', job')
    BY Settle DEF Continues
<1>2. T = TableOf(free, unmapped, cache, live, quarantine, pending, pc, job)
    BY DEF Table
<1>3. DOMAIN pc = Threads /\ DOMAIN job = Threads
    BY DEF LockInv, LockTypes
<1>4. PICK st2, jb2 : st2 = pc' /\ jb2 = job'
    OBVIOUS
<1>5. /\ st2[t] = stage /\ jb2[t] = work
      /\ \A u \in Threads \ {t} : st2[u] = pc[u] /\ jb2[u] = job[u]
    BY <1>3, <1>4 DEF Goes
<1>6. PICK ca2, pe2 : ca2 = cache' /\ pe2 = pending'
    OBVIOUS
<1>7. PICK fr2, un2, li2, qu2 : fr2 = free' /\ un2 = unmapped' /\ li2 = live' /\ qu2 = quarantine'
    OBVIOUS
<1>8. T2 = TableOf(fr2, un2, ca2, li2, qu2, pe2, st2, jb2)
    BY <1>1, <1>4, <1>6, <1>7
<1>9. \A y \in TSDs \ {x} : ca2[y] = cache[y] /\ pe2[y] = pending[y]
    BY <1>6 DEF OnlyCaches
<1>10. Shows(T, t, x, free, unmapped, live, quarantine, cache, pending, pc[t], job[t])
    BY <1>2, Lookups DEF Shows
<1>11. Shows(T2, t, x, fr2, un2, li2, qu2, ca2, pe2, stage, work)
    BY <1>5, <1>8, Lookups DEF Shows
<1>12. SameBut(Near(t, x), T, T2)
  <2> SUFFICES ASSUME NEW R \in Places, R \notin Near(t, x) PROVE T2[R] = T[R]
      BY DEF SameBut
  <2>1. \/ T2[R] = T[R]
        \/ R \in {FreePlace, UnmappedPlace, LivePlace, QuarantinePlace, QuarantineBatches}
        \/ x \in TSDs /\ R \in {CachePlace(x), PendingPlace(x), PendingBatches(x)}
        \/ /\ t \in Threads
           /\ R \in {HeldPlace(t), MarkedPlace(t), PutPlace(t), UnmapPlace(t),
                     RecyclePlace(t), RecycleBatches(t)}
    <3>1. RestKeeps(x, t, cache, pending, pc, job, ca2, pe2, st2, jb2)
        BY <1>5, <1>9 DEF RestKeeps
    <3> QED
        BY ONLY <1>2, <1>8, <3>1, R \in Places, Elsewhere
  <2> QED
      BY <2>1 DEF Near
<1> QED
    BY <1>4, <1>6, <1>7, <1>10, <1>11, <1>12

\* The places near a step that hold what they held, but for those in S.
StillNear(S, T, T2, t, x) ==
    \A R \in Near(t, x) \ S : T2[R] = T[R]

LEMMA Rest ==
    ASSUME NEW t, NEW x, NEW S, NEW T, NEW T2, SameBut(Near(t, x), T, T2), StillNear(S, T, T2, t, x)
    PROVE  SameBut(S, T, T2)
BY DEF SameBut, StillNear

LEMMA LiveAndHeld ==
    ASSUME NEW t \in Threads
    PROVE  LivePlace \in PtrPlaces /\ HeldPlace(t) \in PtrPlaces /\ LivePlace # HeldPlace(t)
<1>1. LivePlace \in PtrPlaces /\ LivePlace.kind = "live"
    BY DEF LivePlace, Place, PtrPlaces
<1>2. HeldPlace(t) \in PtrPlaces /\ HeldPlace(t).kind = "held"
    BY DEF HeldPlace, Place, PtrPlaces
<1> QED
    BY <1>1, <1>2

\* Nothing moves in the heap.
HeapStays ==
    UNCHANGED <<free, unmapped, cache, live, quarantine, pending, header, marker>>

LEMMA CachesStay == ASSUME Accounted, UNCHANGED <<cache, pending, quarantine>> PROVE CachesFit
BY DEF Accounted, CachesFit

\* The pointers of a call are where they were.
SamePtrs(stage, work, stage2, work2) ==
    /\ HeldBy(stage2, work2) = HeldBy(stage, work)
    /\ MarkedBy(stage2, work2) = MarkedBy(stage, work)
    /\ PtrAt("put", stage2, work2) = PtrAt("put", stage, work)
    /\ PtrAt("unmap", stage2, work2) = PtrAt("unmap", stage, work)
    /\ work2.batches = work.batches

\* A step of a thread that moves nothing.
LEMMA Stay ==
    ASSUME LockInv, Accounted, Continues, HeapStays, NEW t \in Threads,
           NEW stage, NEW work, Goes(t, stage, work), Shape(stage, work),
           SamePtrs(pc[t], job[t], stage, work)
    PROVE  Accounted'
<1>1. PICK T : T = Table
    OBVIOUS
<1>2. PICK T2 : T2 = Table'
    OBVIOUS
<1>3. OnlyCaches(NoTSD)
    BY DEF OnlyCaches, HeapStays
<1>4. /\ Shows(T, t, NoTSD, free, unmapped, live, quarantine, cache, pending, pc[t], job[t])
      /\ Shows(T2, t, NoTSD, free', unmapped', live', quarantine', cache', pending', stage, work)
      /\ SameBut(Near(t, NoTSD), T, T2)
    BY <1>1, <1>2, <1>3, Views
<1>5. Shows(T2, t, NoTSD, free, unmapped, live, quarantine, cache, pending, stage, work)
    BY <1>4 DEF HeapStays
<1>6. StillNear({}, T, T2, t, NoTSD)
  <2> SUFFICES ASSUME NEW R \in Near(t, NoTSD) PROVE T2[R] = T[R]
      BY DEF StillNear
  <2>1. NoTSD \notin TSDs
      BY FrontendAssumption DEF NoTSD, TSDs, TSDLocks, Locks
  <2>2. CASE R \in {FreePlace, UnmappedPlace, LivePlace, QuarantinePlace, QuarantineBatches}
      BY <1>4, <1>5, <2>2 DEF Shows
  <2>3. CASE R \in {HeldPlace(t), MarkedPlace(t), PutPlace(t), UnmapPlace(t), RecyclePlace(t),
                    RecycleBatches(t)}
      BY <1>4, <1>5, <2>3 DEF Shows, SamePtrs
  <2> QED
      BY <2>1, <2>2, <2>3 DEF Near
<1>7. \A R \in Places : T2[R] = T[R]
    BY <1>4, <1>6, Rest DEF SameBut
<1>8. Moves(T, T2, LivePlace, {}, HeldPlace(t), {})
  <2>1. LivePlace \in Places /\ HeldPlace(t) \in Places
      BY LiveAndHeld DEF Places
  <2> QED
      BY <1>7, <2>1 DEF Moves
<1>9. Owned(T2, header, marker)
  <2>1. Owned(T, header, marker)
      BY <1>1 DEF Accounted
  <2>2. {} \in SUBSET T[LivePlace] /\ \A p \in {} : PtrRule(HeldPlace(t), p, header[p])
      OBVIOUS
  <2> QED
      BY <1>8, <2>1, <2>2, LiveAndHeld, MovePtrs
<1>10. CachesFit
    BY CachesStay DEF HeapStays
<1>11. Owned(Table', header', marker')
    BY <1>2, <1>9 DEF HeapStays
<1> QED
    BY <1>10, <1>11, Carry

-----------------------------------------------------------------------------
(* The start, and steps that change nothing here.                          *)

\* No call.
LEMMA IdleShape == Shape("idle", NoJob) /\ HeldBy("idle", NoJob) = {} /\ MarkedBy("idle", NoJob) = {}
                   /\ PtrAt("put", "idle", NoJob) = {} /\ PtrAt("unmap", "idle", NoJob) = {}
                   /\ NoJob.batches = <<>>
<1>1. /\ NoJob.op = "none" /\ NoJob.tsd = NoTSD /\ NoJob.ptr = None /\ NoJob.result = None
      /\ NoJob.batches = <<>>
    BY NewFields
<1>2. Shape("idle", NoJob)
    BY <1>1, EmptyList DEF Shape, Wants
<1>3. HeldBy("idle", NoJob) = {} /\ MarkedBy("idle", NoJob) = {}
    BY <1>1 DEF HeldBy, MarkedBy, Marked
<1>4. PtrAt("put", "idle", NoJob) = {} /\ PtrAt("unmap", "idle", NoJob) = {}
    BY DEF PtrAt
<1> QED
    BY <1>1, <1>2, <1>3, <1>4

\* Every block is free or unmapped.
LEMMA OwnInvInit == Init => OwnInv
<1> SUFFICES ASSUME Init PROVE Accounted
    BY DEF OwnInv
<1>1. /\ free = PrimaryBlocks /\ unmapped = SecondaryBlocks /\ live = {}
      /\ cache = [tsd \in AllTSDs |-> {}] /\ pending = [tsd \in AllTSDs |-> EmptyCache]
      /\ quarantine = EmptyCache /\ header = [p \in Ptrs |-> NoHeader]
      /\ marker = [b \in Blocks |-> 0]
      /\ pc = [t \in Threads |-> "idle"] /\ job = [t \in Threads |-> NoJob]
    BY DEF Init
<1>2. \A t \in Threads : \A c \in calls[t] : IsCall(c)
    BY FrontendAssumption DEF Init, FrontendAssumption
<1>3. \A t \in Threads : Shape(pc[t], job[t])
    BY <1>1, IdleShape
<1>4. TSDs \subseteq AllTSDs
    BY DEF TSDs, AllTSDs, TSDLocks
<1>5. PICK T : T = Table
    OBVIOUS
<1>6. T = TableOf(free, unmapped, cache, live, quarantine, pending, pc, job)
    BY <1>5 DEF Table
<1>7. /\ T[FreePlace] = PrimaryBlocks /\ T[UnmappedPlace] = SecondaryBlocks /\ T[LivePlace] = {}
      /\ T[QuarantinePlace] = {} /\ T[QuarantineBatches] = {}
    BY <1>1, <1>6, Lookups, EmptyList
<1>8. ASSUME NEW x \in TSDs
      PROVE  T[CachePlace(x)] = {} /\ T[PendingPlace(x)] = {} /\ T[PendingBatches(x)] = {}
  <2>1. cache[x] = {} /\ pending[x] = EmptyCache
      BY <1>1, <1>4
  <2> QED
      BY <1>6, <2>1, Lookups, EmptyList
<1>9. ASSUME NEW t \in Threads
      PROVE  /\ T[HeldPlace(t)] = {} /\ T[MarkedPlace(t)] = {} /\ T[PutPlace(t)] = {}
             /\ T[UnmapPlace(t)] = {} /\ T[RecyclePlace(t)] = {} /\ T[RecycleBatches(t)] = {}
  <2>1. pc[t] = "idle" /\ job[t] = NoJob
      BY <1>1
  <2> QED
      BY <1>6, <2>1, Lookups, EmptyList, IdleShape
<1>10. PICK loc : loc = [b \in Blocks |-> IF b \in SecondaryBlocks THEN UnmappedPlace ELSE FreePlace]
    OBVIOUS
<1>11. /\ FreePlace \in BlockPlaces /\ UnmappedPlace \in BlockPlaces /\ FreePlace # UnmappedPlace
       /\ \A x \in TSDs : CachePlace(x) # FreePlace /\ CachePlace(x) # UnmappedPlace
    BY DEF BlockPlaces, FreePlace, UnmappedPlace, CachePlace, Place
<1>12. loc \in [Blocks -> Places]
    BY <1>10, <1>11 DEF Places
<1>13. NoHeader \in Headers /\ NoHeader.state = "none"
    BY DEF Headers, NoHeader
<1>14. header \in [Ptrs -> Headers] /\ marker \in [Blocks -> Nat]
    BY <1>1, <1>13
<1>15. ASSUME NEW b \in Blocks PROVE ChunkAt(b, marker) \in Ptrs /\ b + marker[b] < EndOf(b)
  <2>1. b + 1 \in Ptrs /\ b \in Nat /\ b < EndOf(b) /\ marker[b] = 0
      BY <1>1, BlocksApart, UserPtrFacts
  <2> QED
      BY <2>1 DEF ChunkAt, HeaderSize
<1>16. ASSUME NEW b \in Blocks PROVE Ruled(loc[b], b, header, marker)
  <2>1. header[ChunkAt(b, marker)].state = "none"
      BY <1>1, <1>13, <1>15
  <2>2. loc[b] \in BlockPlaces /\ (loc[b] = UnmappedPlace => b \in SecondaryBlocks)
      BY <1>10, <1>11
  <2> QED
      BY <2>1, <2>2 DEF Ruled, BlockRule
<1>17. ASSUME NEW R \in BlockPlaces PROVE T[R] = {b \in Blocks : loc[b] = R}
  <2>1. \/ R = FreePlace \/ R = UnmappedPlace \/ \E x \in TSDs : R = CachePlace(x)
    <3>1. CASE R \in [kind : {"free", "unmapped"}, of : {NoTSD}]
        BY <3>1 DEF FreePlace, UnmappedPlace, Place
    <3>2. CASE R \in [kind : {"cache"}, of : TSDs]
      <4>1. R.of \in TSDs /\ R = CachePlace(R.of)
          BY <3>2 DEF CachePlace, Place
      <4> QED
          BY <4>1
    <3> QED
        BY <3>1, <3>2 DEF BlockPlaces
  <2>2. Blocks = PrimaryBlocks \cup SecondaryBlocks /\ SecondaryBlocks \cap PrimaryBlocks = {}
      BY ApartAssumption DEF Blocks, ApartAssumption
  <2>3. CASE R = FreePlace
      BY <1>7, <1>10, <1>11, <2>2, <2>3
  <2>4. CASE R = UnmappedPlace
      BY <1>7, <1>10, <1>11, <2>2, <2>4
  <2>5. ASSUME NEW x \in TSDs, R = CachePlace(x)
        PROVE  T[R] = {b \in Blocks : loc[b] = R}
      BY <1>8, <1>10, <1>11, <2>5
  <2> QED
      BY <2>1, <2>3, <2>4, <2>5
<1>18. ASSUME NEW R \in PtrPlaces
       PROVE  T[R] = {ChunkAt(b, marker) : b \in {c \in Blocks : loc[c] = R}}
  <2>1. T[R] = {}
    <3>1. R \in Places /\ R # FreePlace /\ R # UnmappedPlace /\ \A x \in TSDs : R # CachePlace(x)
      <4>1. R \notin BlockPlaces /\ R \in Places
          BY PlacesDiffer DEF Places
      <4>2. \A x \in TSDs : CachePlace(x) \in BlockPlaces
          BY CacheIsPlace
      <4> QED
          BY <1>11, <4>1, <4>2
    <3> QED
        BY <1>7, <1>8, <1>9, <3>1, PlaceKinds
  <2>2. R \notin BlockPlaces
      BY PlacesDiffer
  <2>3. {c \in Blocks : loc[c] = R} = {}
      BY <1>10, <1>11, <2>2
  <2> QED
      BY <2>1, <2>3
<1>19. Located(loc, T, header, marker)
    BY <1>12, <1>14, <1>15, <1>16, <1>17, <1>18 DEF Located
<1>20. Owned(Table, header, marker)
    BY <1>5, <1>19 DEF Owned
<1>21. IsCache(quarantine) /\ \A x \in AllTSDs : IsCache(pending[x])
    BY <1>1, EmptyList
<1>22. DOMAIN cache = AllTSDs /\ DOMAIN pending = AllTSDs
    BY <1>1
<1> QED
    BY <1>2, <1>3, <1>20, <1>21, <1>22 DEF Accounted

\* Where the heap and the calls stay, so does the invariant.
LEMMA Rests ==
    ASSUME Accounted, Continues, HeapStays, UNCHANGED <<pc, job>> PROVE Accounted'
<1>1. Table' = TableOf(free', unmapped', cache', live', quarantine', pending', pc', job')
    BY Settle DEF Continues
<1>2. Table' = Table
    BY <1>1 DEF Table, HeapStays
<1>3. Owned(Table', header', marker')
    BY <1>2 DEF Accounted, HeapStays
<1>4. Owned(Table, header, marker)'
    BY <1>3, Settle DEF Continues
<1>5. \A u \in Threads : Shape(pc[u], job[u])'
  <2>1. \A u \in Threads : Shape(pc'[u], job'[u])
      BY DEF Accounted
  <2> QED
      BY <2>1, ShapeStays
<1>6. CachesFit /\ \A u \in Threads : \A c \in calls'[u] : IsCall(c)
    BY CachesStay DEF Accounted, Continues, HeapStays
<1> QED
    BY <1>4, <1>5, <1>6 DEF Accounted, CachesFit

\* Stages at which a call has its pointer: before it is marked, after it, and in the
\* hands of put, of Unmap, or of nobody.
Grip(stage, work) ==
    IF stage \in Delivered THEN "gone"
    ELSE IF stage \in {"put", "unmap"} THEN stage
    ELSE IF Marked(stage, work) THEN "marked" ELSE "held"

\* A call goes on with the same pointers.
LEMMA Alike ==
    ASSUME NEW stage, NEW work, NEW stage2, NEW work2,
           work2.ptr = work.ptr, work2.result = work.result, work2.batches = work.batches,
           work.ptr = None \/ Grip(stage2, work2) = Grip(stage, work)
    PROVE  SamePtrs(stage, work, stage2, work2)
<1>1. CASE work.ptr = None
    BY <1>1 DEF SamePtrs, HeldBy, MarkedBy, PtrAt
<1>2. CASE Grip(stage2, work2) = Grip(stage, work)
  <2>1. ASSUME NEW s, NEW w
        PROVE  /\ s \in Delivered => Grip(s, w) = "gone" /\ s \notin {"put", "unmap"} /\ ~ Marked(s, w)
               /\ s \in {"put", "unmap"} => Grip(s, w) = s /\ s \notin Delivered /\ ~ Marked(s, w)
               /\ s \notin Delivered \cup {"put", "unmap"} /\ Marked(s, w) => Grip(s, w) = "marked"
               /\ s \notin Delivered \cup {"put", "unmap"} /\ ~ Marked(s, w) => Grip(s, w) = "held"
      BY DEF Grip, Delivered, Marked
  <2>2. Marked(stage2, work2) <=> Marked(stage, work)
      BY <1>2, <2>1
  <2>3. \A where \in {"put", "unmap"} : stage2 = where <=> stage = where
      BY <1>2, <2>1
  <2>4. stage2 \in Delivered <=> stage \in Delivered
      BY <1>2, <2>1
  <2> QED
      BY <2>2, <2>3, <2>4 DEF SamePtrs, HeldBy, MarkedBy, PtrAt
<1> QED
    BY <1>1, <1>2

-----------------------------------------------------------------------------
(* Steps that move nothing.                                                *)

\* A call at its first stages.
Begun(work) ==
    /\ work.op \in ClientOps \cup {"drain", "disable"}
    /\ work.tsd \in TSDs \cup {NoTSD} /\ work.result = None /\ work.batches = <<>>
    /\ work.op = "drain" => work.todo \in Seq(TSDs)
    /\ work.ptr # None <=> work.op \in {"free", "realloc"}
    /\ work.op \in {"malloc", "realloc"} => Asked(work)

\* It has its pointer as the program had it.
LEMMA BegunFacts ==
    ASSUME NEW work, Begun(work)
    PROVE  /\ Shape("init", work) /\ Shape("attach", work)
           /\ Shape(FirstStage(work.op, work), work)
           /\ work.op = "free" => Shape("mark", work)
           /\ work.op = "realloc" => Shape(FirstStage("malloc", work), work)
           /\ Grip("init", work) = "held" /\ Grip("attach", work) = "held"
           /\ work.op = "free" => Grip("mark", work) = "held"
           /\ work.op = "realloc" =>
                Grip("resize", work) = "held" /\ Grip(FirstStage("malloc", work), work) = "held"
           /\ work.ptr = None \/ Grip(FirstStage(work.op, work), work) = "held"
<1>1. /\ work.op \in {"malloc", "free", "realloc", "drain", "disable"}
      /\ work.result = None /\ work.batches = <<>> /\ Tidy(work.batches)
    BY EmptyList DEF Begun, ClientOps
<1>2. ASSUME NEW s,
             s \in {"init", "attach", "locktsds", "nexttsd", "disabling"}
             \/ (s = "mark" /\ work.op = "free") \/ (s = "resize" /\ work.op = "realloc")
             \/ (s = "map" /\ work.op \in {"malloc", "realloc"})
             \/ (s = "take" /\ work.op \in {"malloc", "realloc"} /\ CanAllocate(work.size, work.align))
      PROVE  Shape(s, work) /\ (work.op = "malloc" \/ Grip(s, work) = "held")
  <2>1. s \notin {"aborted", "idle", "pop", "unmap", "push", "put", "unlock", "scrub"}
      BY <1>2
  <2>2. Shape(s, work)
      BY <1>1, <1>2, <2>1 DEF Shape, Begun, Wants
  <2>3. Grip(s, work) = "held"
      BY <1>1, <1>2 DEF Grip, Delivered, Marked
  <2> QED
      BY <2>2, <2>3
<1>3. PICK s : s = FirstStage("malloc", work)
    OBVIOUS
<1>4. s = IF CanAllocate(work.size, work.align) THEN "take" ELSE "map"
    BY <1>3 DEF FirstStage
<1>5. work.op \in {"malloc", "realloc"} => Shape(s, work) /\ (work.op = "malloc" \/ Grip(s, work) = "held")
    BY <1>2, <1>4
<1>6. PICK s2 : s2 = FirstStage(work.op, work)
    OBVIOUS
<1>7. /\ work.op = "malloc" => s2 = s
      /\ work.op = "free" => s2 = "mark"
      /\ work.op = "realloc" => s2 = "resize"
      /\ work.op = "drain" => s2 \in {"locktsds", "nexttsd"}
      /\ work.op = "disable" => s2 = "disabling"
    BY <1>3, <1>6 DEF FirstStage
<1>8. Shape(s2, work) /\ (work.op \in {"free", "realloc"} => Grip(s2, work) = "held")
  <2>1. CASE work.op = "malloc"
      BY <1>5, <1>7, <2>1
  <2>2. CASE work.op = "free"
      BY <1>2, <1>7, <2>2
  <2>3. CASE work.op = "realloc"
      BY <1>2, <1>7, <2>3
  <2>4. CASE work.op \in {"drain", "disable"}
      BY <1>2, <1>7, <2>4
  <2> QED
      BY <1>1, <2>1, <2>2, <2>3, <2>4
<1>9. work.ptr # None <=> work.op \in {"free", "realloc"}
    BY DEF Begun
<1>10. Grip("init", work) = "held" /\ Grip("attach", work) = "held"
    BY DEF Grip, Delivered, Marked
<1>11. work.op = "free" => Shape("mark", work) /\ Grip("mark", work) = "held"
    BY <1>2
<1>12. work.op = "realloc" => Grip("resize", work) = "held"
    BY <1>2
<1> QED
    BY <1>2, <1>3, <1>5, <1>6, <1>8, <1>9, <1>10, <1>11, <1>12

\* What a thread works on.
LEMMA ShapeAt ==
    ASSUME LockInv, Accounted, NEW t \in Threads
    PROVE  /\ Shape(pc[t], job[t]) /\ IsJob(job[t])
           /\ job[t].tsd \in TSDs \cup {NoTSD}
           /\ pc[t] \in InHand => job[t].tsd \in TSDs
           /\ pc[t] \in {"init", "attach"} => Begun(job[t])
<1>1. Shape(pc[t], job[t]) /\ IsJob(job[t])
    BY FitAt DEF Accounted
<1>2. pc[t] \in InHand => job[t].tsd # NoTSD
    BY FitAt DEF Fit
<1>3. pc[t] \in {"init", "attach"} => job[t].op \in ClientOps \cup {"drain", "disable"}
    BY FitAt DEF Fit
<1>4. pc[t] \in {"init", "attach"} => Begun(job[t])
    BY <1>1, <1>3 DEF Shape, Begun
<1> QED
    BY <1>1, <1>2, <1>4 DEF Shape

\* What every step of these leaves.
Plain == Continues /\ HeapStays

\* A step to another stage with the same pointers.
LEMMA GoesOn ==
    ASSUME LockInv, Accounted, Plain, NEW t \in Threads, NEW stage, NEW work,
           Step(t, stage, work), Shape(stage, work),
           work.ptr = job[t].ptr, work.result = job[t].result, work.batches = job[t].batches,
           job[t].ptr = None \/ Grip(stage, work) = Grip(pc[t], job[t])
    PROVE  Accounted'
<1>1. SamePtrs(pc[t], job[t], stage, work)
    BY Alike
<1>2. Goes(t, stage, work)
    BY DEF Goes, Step
<1> QED
    BY <1>1, <1>2, Stay DEF Plain

\* initThreadMaybe.
LEMMA InitializeOwned ==
    ASSUME LockInv, Accounted, NEW t \in Threads, Initialize(t) PROVE Accounted'
<1>1. Plain
    BY DEF Initialize, InitOnce, AttachExclusive, AttachShared, LinkStats, Plain, Continues,
           HeapStays, registryVars, heapVars, quarantineVars, chunkVars
<1>2. PICK w : w = job[t]
    OBVIOUS
<1>3. pc[t] \in {"init", "attach"} /\ Begun(w) /\ w.batches = w.batches
    BY <1>2, ShapeAt DEF Initialize, InitOnce, AttachExclusive, AttachShared, At
<1>4. \E stage : /\ Step(t, stage, w) /\ Shape(stage, w)
                 /\ w.ptr = None \/ Grip(stage, w) = "held"
  <2>1. CASE InitOnce(t)
    <3>1. \/ Step(t, "attach", w)
          \/ Step(t, "mark", w) /\ w.op = "free"
        BY <1>2, <2>1 DEF InitOnce, Goto
    <3> QED
        BY <1>3, <3>1, BegunFacts
  <2>2. CASE AttachExclusive(t) \/ AttachShared(t)
    <3>1. Step(t, FirstStage(w.op, w), w)
        BY <1>2, <2>2 DEF AttachExclusive, AttachShared, Goto
    <3> QED
        BY <1>3, <3>1, BegunFacts
  <2> QED
      BY <2>1, <2>2 DEF Initialize
<1>5. Grip(pc[t], w) = "held"
    BY <1>3, BegunFacts
<1> QED
    BY <1>1, <1>2, <1>4, <1>5, GoesOn

\* The TSDs that drainCaches goes through are those of the registry.
LEMMA DrainableTSDs == ASSUME NEW t \in Threads PROVE Drainable(t) \in Seq(TSDs)
<1>1. CASE registry = "shared"
  <2>1. SetToSeq(SharedTSDs) \in Seq(SharedTSDs)
      BY SharedSequence
  <2> QED
      BY <1>1, <2>1 DEF Drainable, TSDs
<1>2. CASE registry # "shared"
    BY <1>2 DEF Drainable, TSDs
<1> QED
    BY <1>1, <1>2

\* A call begins.
LEMMA CallBegins ==
    ASSUME LockInv, Accounted, NEW t \in Threads, NEW op \in ClientOps \cup {"drain", "disable"},
           NEW p, NEW todo, Call(t, op, p, todo), op = "drain" => todo \in Seq(TSDs),
           p # None <=> op \in {"free", "realloc"}
    PROVE  /\ pc[t] = "idle" /\ job[t] = NoJob
           /\ Continues
           /\ UNCHANGED <<free, unmapped, cache, quarantine, pending, header, marker>>
           /\ \E stage, work :
                /\ Step(t, stage, work) /\ Shape(stage, work)
                /\ work.ptr = p /\ work.result = None /\ work.batches = <<>>
                /\ p = None \/ Grip(stage, work) = "held"
<1>1. PICK c \in calls[t] :
        LET work == [NoJob EXCEPT !.op = op, !.size = c.size, !.align = c.align,
                                  !.ptr = p, !.todo = todo]
        IN  /\ At(t, "idle")
            /\ Step(t, IF initState[t] = "NotInitialized" THEN "init"
                       ELSE FirstStage(op, work), work)
    BY DEF Call
<1>2. PICK w : w = NewJob(op, c.size, c.align, p, todo)
    OBVIOUS
<1>3. /\ w.op = op /\ w.size = c.size /\ w.align = c.align /\ w.ptr = p /\ w.todo = todo
      /\ w.tsd = NoTSD /\ w.result = None /\ w.batches = <<>>
    BY <1>2, NewFields
<1>4. Asked(w)
  <2>1. IsCall(c)
      BY DEF Accounted
  <2> QED
      BY <1>3, <2>1 DEF Asked, IsCall
<1>5. Begun(w)
    BY <1>3, <1>4 DEF Begun
<1>6. \E stage : /\ Step(t, stage, w) /\ Shape(stage, w)
                 /\ p = None \/ Grip(stage, w) = "held"
  <2>1. Step(t, "init", w) \/ Step(t, FirstStage(w.op, w), w)
      BY <1>1, <1>2, <1>3 DEF NewJob
  <2> QED
      BY <1>3, <1>5, <2>1, BegunFacts
<1>7. pc[t] = "idle" /\ job[t] = NoJob
    BY <1>1, ShapeAt DEF At, Shape
<1>8. /\ Continues /\ UNCHANGED <<free, unmapped, cache, quarantine, pending, header, marker>>
    BY DEF Call, Continues, registryVars, heapVars, quarantineVars
<1> QED
    BY <1>3, <1>6, <1>7, <1>8

\* Calls without a pointer.
LEMMA PlainCalls ==
    ASSUME LockInv, Accounted, NEW t \in Threads, Malloc(t) \/ DrainCaches(t) \/ Disable(t)
    PROVE  Accounted'
<1>1. PICK op, todo :
        /\ op \in {"malloc", "drain", "disable"}
        /\ Call(t, op, None, todo) /\ live' = live /\ (op = "drain" => todo \in Seq(TSDs))
    BY DrainableTSDs DEF Malloc, DrainCaches, Disable
<1>2. op \in ClientOps \cup {"drain", "disable"} /\ op \notin {"free", "realloc"}
    BY <1>1 DEF ClientOps
<1>3. /\ pc[t] = "idle" /\ job[t] = NoJob /\ Continues
      /\ UNCHANGED <<free, unmapped, cache, quarantine, pending, header, marker>>
    BY <1>1, <1>2, CallBegins
<1>4. PICK stage, work : /\ Step(t, stage, work) /\ Shape(stage, work)
                         /\ work.ptr = None /\ work.result = None /\ work.batches = <<>>
    BY <1>1, <1>2, CallBegins
<1>5. Plain
    BY <1>1, <1>3 DEF Plain, HeapStays
<1>6. job[t].ptr = None /\ job[t].result = None /\ job[t].batches = <<>>
    BY <1>3, NewFields
<1> QED
    BY <1>4, <1>5, <1>6, GoesOn

\* The stage that a TSD in hand is used at.
LEMMA TakeGoesOn ==
    ASSUME LockInv, Accounted, NEW t \in Threads, NEW x \in TSDs,
           pc[t] \in {"take", "fallback", "slow", "await"}, Step(t, UseOf(t), WithTSD(job[t], x)),
           UseOf(t) # "put"
    PROVE  \E stage, work : /\ Step(t, stage, work) /\ Shape(stage, work)
                            /\ work.ptr = job[t].ptr /\ work.result = job[t].result
                            /\ work.batches = job[t].batches
                            /\ job[t].ptr = None \/ Grip(stage, work) = Grip(pc[t], job[t])
<1>1. PICK v : v = job[t]
    OBVIOUS
<1>2. Shape(pc[t], v) /\ IsJob(v) /\ v.op \in {"malloc", "free", "realloc"}
    BY <1>1, ShapeAt, FitAt DEF NeedTSD, ClientOps
<1>3. PICK w : w = WithTSD(v, x)
    OBVIOUS
<1>4. Same(w, v) /\ w.tsd = x /\ w.result = v.result /\ w.batches = v.batches /\ w.todo = v.todo
    BY <1>2, <1>3, WorkFields
<1>5. Step(t, UseOf(t), w)
    BY <1>1, <1>3
<1>6. \/ UseOf(t) = "pop" /\ Wants(v)
      \/ UseOf(t) = "push" /\ ~ Wants(v)
    BY <1>1, UseStage DEF UseOf, Wants
<1>7. CASE UseOf(t) = "pop" /\ Wants(v)
  <2>1. v.result = None /\ CanAllocate(v.size, v.align)
      BY <1>2, <1>7 DEF Shape, Wants
  <2>2. Shape("pop", w)
      BY <1>2, <1>4, <1>7, <2>1 DEF Shape, Same, Asked, Wants
  <2>3. v.ptr = None \/ (Grip("pop", w) = "held" /\ Grip(pc[t], v) = "held")
      BY <1>2, <1>4, <1>7, <2>1 DEF Shape, Same, Grip, Delivered, Marked, Wants
  <2> QED
      BY <1>1, <1>4, <1>5, <1>7, <2>2, <2>3 DEF Same
<1>8. CASE UseOf(t) = "push" /\ ~ Wants(v)
  <2>1. v.op = "free" \/ (v.op = "realloc" /\ v.result # None)
      BY <1>2, <1>8 DEF Wants
  <2>2. Shape("push", w)
      BY <1>2, <1>4, <1>8, <2>1 DEF Shape, Same, Asked, Wants
  <2>3. Grip("push", w) = "marked" /\ Grip(pc[t], v) = "marked"
      BY <1>4, <2>1 DEF Same, Grip, Delivered, Marked
  <2> QED
      BY <1>1, <1>4, <1>5, <1>8, <2>2, <2>3 DEF Same
<1> QED
    BY <1>6, <1>7, <1>8

-----------------------------------------------------------------------------
(* Steps that move blocks or pointers between the places in S.             *)

Untouched(S, t, x, stage, work) ==
    /\ free' = free \/ FreePlace \in S
    /\ unmapped' = unmapped \/ UnmappedPlace \in S
    /\ live' = live \/ LivePlace \in S
    /\ quarantine' = quarantine \/ {QuarantinePlace, QuarantineBatches} \subseteq S
    /\ x \in TSDs =>
         /\ cache'[x] = cache[x] \/ CachePlace(x) \in S
         /\ pending'[x] = pending[x] \/ {PendingPlace(x), PendingBatches(x)} \subseteq S
    /\ HeldBy(stage, work) = HeldBy(pc[t], job[t]) \/ HeldPlace(t) \in S
    /\ MarkedBy(stage, work) = MarkedBy(pc[t], job[t]) \/ MarkedPlace(t) \in S
    /\ PtrAt("put", stage, work) = PtrAt("put", pc[t], job[t]) \/ PutPlace(t) \in S
    /\ PtrAt("unmap", stage, work) = PtrAt("unmap", pc[t], job[t]) \/ UnmapPlace(t) \in S
    /\ work.batches = job[t].batches \/ {RecyclePlace(t), RecycleBatches(t)} \subseteq S

\* The places before and after, and that the others stay.
LEMMA Moved ==
    ASSUME LockInv, Continues, NEW t \in Threads, NEW x, OnlyCaches(x),
           NEW stage, NEW work, Goes(t, stage, work), NEW T, T = Table, NEW T2, T2 = Table',
           NEW S, Untouched(S, t, x, stage, work)
    PROVE  /\ Shows(T, t, x, free, unmapped, live, quarantine, cache, pending, pc[t], job[t])
           /\ Shows(T2, t, x, free', unmapped', live', quarantine', cache', pending', stage, work)
           /\ SameBut(S, T, T2)
<1>1. /\ Shows(T, t, x, free, unmapped, live, quarantine, cache, pending, pc[t], job[t])
      /\ Shows(T2, t, x, free', unmapped', live', quarantine', cache', pending', stage, work)
      /\ SameBut(Near(t, x), T, T2)
    BY Views
<1>2. StillNear(S, T, T2, t, x)
  <2> SUFFICES ASSUME NEW R \in Near(t, x), R \notin S PROVE T2[R] = T[R]
      BY DEF StillNear
  <2>1. CASE R = FreePlace
      BY <1>1, <2>1 DEF Shows, Untouched
  <2>2. CASE R = UnmappedPlace
      BY <1>1, <2>2 DEF Shows, Untouched
  <2>3. CASE R = LivePlace
      BY <1>1, <2>3 DEF Shows, Untouched
  <2>4. CASE R \in {QuarantinePlace, QuarantineBatches}
    <3>1. quarantine' = quarantine
        BY <2>4 DEF Untouched
    <3> QED
        BY <1>1, <2>4, <3>1 DEF Shows
  <2>5. CASE x \in TSDs /\ R = CachePlace(x)
      BY <1>1, <2>5 DEF Shows, Untouched
  <2>6. CASE x \in TSDs /\ R \in {PendingPlace(x), PendingBatches(x)}
    <3>1. pending'[x] = pending[x]
        BY <2>6 DEF Untouched
    <3> QED
        BY <1>1, <2>6, <3>1 DEF Shows
  <2>7. CASE R = HeldPlace(t)
      BY <1>1, <2>7 DEF Shows, Untouched
  <2>8. CASE R = MarkedPlace(t)
      BY <1>1, <2>8 DEF Shows, Untouched
  <2>9. CASE R = PutPlace(t)
      BY <1>1, <2>9 DEF Shows, Untouched
  <2>10. CASE R = UnmapPlace(t)
      BY <1>1, <2>10 DEF Shows, Untouched
  <2>11. CASE R \in {RecyclePlace(t), RecycleBatches(t)}
    <3>1. work.batches = job[t].batches
        BY <2>11 DEF Untouched
    <3> QED
        BY <1>1, <2>11, <3>1 DEF Shows
  <2> QED
      BY <2>1, <2>2, <2>3, <2>4, <2>5, <2>6, <2>7, <2>8, <2>9, <2>10, <2>11 DEF Near
<1> QED
    BY <1>1, <1>2, Rest

\* What T says about a thread's places and the program's is carried over to T2.
Delivers(held, lives, t, T2) ==
    \/ T2[LivePlace] = lives /\ T2[HeldPlace(t)] = held
    \/ T2[LivePlace] = lives \cup held /\ T2[HeldPlace(t)] = {}

\* The last move of a step: what a call holds goes to the program, or stays.
LEMMA LastMove ==
    ASSUME NEW t \in Threads, NEW T2, DOMAIN T2 = Places, NEW held, NEW lives,
           Delivers(held, lives, t, T2), NEW hd, NEW mk,
           NEW T1, T1 = [T2 EXCEPT ![HeldPlace(t)] = held, ![LivePlace] = lives],
           Owned(T1, hd, mk)
    PROVE  Owned(T2, hd, mk)
<1>1. /\ LivePlace \in PtrPlaces /\ HeldPlace(t) \in PtrPlaces /\ LivePlace # HeldPlace(t)
      /\ LivePlace.kind = "live" /\ HeldPlace(t).kind = "held"
      /\ LivePlace \in Places /\ HeldPlace(t) \in Places
  <2>1. LivePlace.kind = "live" /\ HeldPlace(t).kind = "held"
      BY DEF LivePlace, HeldPlace, Place
  <2> QED
      BY <2>1, LiveAndHeld DEF Places
<1>2. /\ T1[HeldPlace(t)] = held /\ T1[LivePlace] = lives
      /\ \A R \in Places \ {HeldPlace(t), LivePlace} : T2[R] = T1[R]
    BY <1>1
<1>3. ASSUME NEW p \in held PROVE PtrRule(LivePlace, p, hd[p])
  <2>1. PICK loc : Located(loc, T1, hd, mk)
      BY DEF Owned
  <2>2. PtrRule(HeldPlace(t), p, hd[p])
      BY <1>1, <1>2, <2>1, Behind
  <2> QED
      BY <1>1, <2>2 DEF PtrRule
<1>4. CASE T2[LivePlace] = lives /\ T2[HeldPlace(t)] = held
  <2>1. Moves(T1, T2, HeldPlace(t), {}, LivePlace, {})
      BY <1>1, <1>2, <1>4 DEF Moves
  <2>2. {} \in SUBSET T1[HeldPlace(t)] /\ \A p \in {} : PtrRule(LivePlace, p, hd[p])
      OBVIOUS
  <2> QED
      BY <1>1, <2>1, <2>2, MovePtrs
<1>5. CASE T2[LivePlace] = lives \cup held /\ T2[HeldPlace(t)] = {}
  <2>1. Moves(T1, T2, HeldPlace(t), held, LivePlace, held)
      BY <1>1, <1>2, <1>5 DEF Moves
  <2>2. held \in SUBSET T1[HeldPlace(t)]
      BY <1>2
  <2> QED
      BY <1>1, <1>3, <2>1, <2>2, MovePtrs
<1> QED
    BY <1>4, <1>5 DEF Delivers

\* A step of a call that keeps what it has for the program, or returns it.
Hands(t, stage, work) ==
    /\ Goes(t, stage, work) /\ Shape(stage, work)
    /\ \/ live' = live /\ HeldBy(stage, work) = HeldBy(pc[t], job[t])
       \/ live' = live \cup HeldBy(pc[t], job[t]) /\ HeldBy(stage, work) = {}

\* What is left to show for it is that the other places are right.
LEMMA Opens ==
    ASSUME LockInv, Accounted, Continues, CachesFit, NEW t \in Threads, NEW x, OnlyCaches(x),
           NEW stage, NEW work, Hands(t, stage, work),
           NEW T, T = Table, NEW T2, T2 = Table',
           NEW S, S \subseteq Places, LivePlace \notin S, HeldPlace(t) \notin S,
           Untouched(S \cup {LivePlace, HeldPlace(t)}, t, x, stage, work)
    PROVE  /\ Shows(T, t, x, free, unmapped, live, quarantine, cache, pending, pc[t], job[t])
           /\ Shows(T2, t, x, free', unmapped', live', quarantine', cache', pending', stage, work)
           /\ \E T1 : /\ DOMAIN T1 = Places /\ SameBut(S, T, T1)
                      /\ \A R \in S : T1[R] = T2[R]
                      /\ Owned(T1, header', marker') => Accounted'
<1>1. Goes(t, stage, work) /\ Shape(stage, work)
    BY DEF Hands
<1>2. /\ Shows(T, t, x, free, unmapped, live, quarantine, cache, pending, pc[t], job[t])
      /\ Shows(T2, t, x, free', unmapped', live', quarantine', cache', pending', stage, work)
      /\ SameBut(S \cup {LivePlace, HeldPlace(t)}, T, T2)
    BY <1>1, Moved
<1>3. /\ DOMAIN T = Places /\ DOMAIN T2 = Places
      /\ T[LivePlace] = live /\ T[HeldPlace(t)] = HeldBy(pc[t], job[t])
      /\ T2[LivePlace] = live' /\ T2[HeldPlace(t)] = HeldBy(stage, work)
    BY <1>2 DEF Shows
<1>4. PICK held, lives : held = T[HeldPlace(t)] /\ lives = T[LivePlace]
    OBVIOUS
<1>5. Delivers(held, lives, t, T2)
    BY <1>3, <1>4 DEF Hands, Delivers
<1>6. PICK T1 : T1 = [T2 EXCEPT ![HeldPlace(t)] = held, ![LivePlace] = lives]
    OBVIOUS
<1>7. LivePlace \in Places /\ HeldPlace(t) \in Places /\ LivePlace # HeldPlace(t)
    BY LiveAndHeld DEF Places
<1>8. DOMAIN T1 = Places /\ \A R \in S : T1[R] = T2[R]
    BY <1>3, <1>6, <1>7
<1>9. SameBut(S, T, T1)
  <2> SUFFICES ASSUME NEW R \in Places, R \notin S PROVE T1[R] = T[R]
      BY DEF SameBut
  <2>1. CASE R \in {LivePlace, HeldPlace(t)}
      BY <1>3, <1>4, <1>6, <1>7, <2>1
  <2>2. CASE R \notin {LivePlace, HeldPlace(t)}
    <3>1. T2[R] = T[R]
        BY <1>2, <2>2 DEF SameBut
    <3> QED
        BY <1>3, <1>6, <2>2, <3>1
  <2> QED
      BY <2>1, <2>2
<1>10. ASSUME Owned(T1, header', marker') PROVE Accounted'
  <2>1. Owned(T2, header', marker')
    <3>1. PICK hd, mk : hd = header' /\ mk = marker'
        OBVIOUS
    <3>2. Owned(T1, hd, mk)
        BY <1>10, <3>1
    <3>3. Owned(T2, hd, mk)
        BY ONLY t \in Threads, <1>3, <1>5, <1>6, <3>2, LastMove
    <3> QED
        BY <3>1, <3>3
  <2> QED
      BY <1>1, <2>1, Carry
<1> QED
    BY <1>2, <1>8, <1>9, <1>10

\* A step that moves what it does by itself.
LEMMA Direct ==
    ASSUME LockInv, Accounted, Continues, CachesFit, NEW t \in Threads, NEW x, OnlyCaches(x),
           NEW stage, NEW work, Goes(t, stage, work), Shape(stage, work),
           NEW T, T = Table, NEW T2, T2 = Table', NEW S, Untouched(S, t, x, stage, work)
    PROVE  /\ Shows(T, t, x, free, unmapped, live, quarantine, cache, pending, pc[t], job[t])
           /\ Shows(T2, t, x, free', unmapped', live', quarantine', cache', pending', stage, work)
           /\ SameBut(S, T, T2)
           /\ Owned(T2, header', marker') => Accounted'
BY Moved, Carry

-----------------------------------------------------------------------------
(* getTSDAndLock.                                                          *)

\* Where a call has its pointer at each of these stages.
LEMMA Grips ==
    ASSUME NEW stage, NEW work
    PROVE  /\ Grip(stage, work) = "held" =>
                /\ HeldBy(stage, work) = {work.result, work.ptr} \ {None}
                /\ MarkedBy(stage, work) = {} /\ PtrAt("put", stage, work) = {}
                /\ PtrAt("unmap", stage, work) = {}
           /\ Grip(stage, work) # "held" => HeldBy(stage, work) = {work.result} \ {None}
           /\ Grip(stage, work) = "marked" =>
                /\ MarkedBy(stage, work) = {work.ptr} \ {None} /\ PtrAt("put", stage, work) = {}
                /\ PtrAt("unmap", stage, work) = {}
           /\ Grip(stage, work) = "put" =>
                /\ MarkedBy(stage, work) = {} /\ PtrAt("put", stage, work) = {work.ptr} \ {None}
                /\ PtrAt("unmap", stage, work) = {}
           /\ Grip(stage, work) = "unmap" =>
                /\ MarkedBy(stage, work) = {} /\ PtrAt("unmap", stage, work) = {work.ptr} \ {None}
                /\ PtrAt("put", stage, work) = {}
           /\ Grip(stage, work) = "gone" =>
                /\ MarkedBy(stage, work) = {} /\ PtrAt("put", stage, work) = {}
                /\ PtrAt("unmap", stage, work) = {}
<1>1. CASE stage \in Delivered
  <2>1. Grip(stage, work) = "gone" /\ stage \notin {"put", "unmap"} /\ ~ Marked(stage, work)
      BY <1>1 DEF Grip, Delivered, Marked
  <2> QED
      BY <1>1, <2>1 DEF HeldBy, MarkedBy, PtrAt
<1>2. CASE stage \in {"put", "unmap"}
  <2>1. Grip(stage, work) = stage /\ ~ Marked(stage, work)
      BY <1>2 DEF Grip, Delivered, Marked
  <2> QED
      BY <1>2, <2>1 DEF HeldBy, MarkedBy, PtrAt
<1>3. CASE stage \notin Delivered \cup {"put", "unmap"} /\ Marked(stage, work)
  <2>1. Grip(stage, work) = "marked"
      BY <1>3 DEF Grip
  <2> QED
      BY <1>3, <2>1 DEF HeldBy, MarkedBy, PtrAt
<1>4. CASE stage \notin Delivered \cup {"put", "unmap"} /\ ~ Marked(stage, work)
  <2>1. Grip(stage, work) = "held"
      BY <1>4 DEF Grip
  <2> QED
      BY <1>4, <2>1 DEF HeldBy, MarkedBy, PtrAt
<1> QED
    BY <1>1, <1>2, <1>3, <1>4

\* The places of a call.
LEMMA HandPlaces ==
    ASSUME NEW t \in Threads
    PROVE  /\ {HeldPlace(t), MarkedPlace(t), PutPlace(t), UnmapPlace(t), RecyclePlace(t),
               RecycleBatches(t), LivePlace} \subseteq PtrPlaces
           /\ PtrPlaces \subseteq Places /\ BlockPlaces \subseteq Places
           /\ HeldPlace(t).kind = "held" /\ MarkedPlace(t).kind = "marked"
           /\ PutPlace(t).kind = "put" /\ UnmapPlace(t).kind = "unmap"
           /\ RecyclePlace(t).kind = "recycle" /\ RecycleBatches(t).kind = "recycle batches"
           /\ LivePlace.kind = "live"
<1>1. LivePlace \in PtrPlaces /\ LivePlace.kind = "live"
    BY DEF LivePlace, Place, PtrPlaces
<1>2. HeldPlace(t) \in PtrPlaces /\ HeldPlace(t).kind = "held"
    BY DEF HeldPlace, Place, PtrPlaces
<1>3. MarkedPlace(t) \in PtrPlaces /\ MarkedPlace(t).kind = "marked"
    BY DEF MarkedPlace, Place, PtrPlaces
<1>4. PutPlace(t) \in PtrPlaces /\ PutPlace(t).kind = "put"
    BY DEF PutPlace, Place, PtrPlaces
<1>5. UnmapPlace(t) \in PtrPlaces /\ UnmapPlace(t).kind = "unmap"
    BY DEF UnmapPlace, Place, PtrPlaces
<1>6. RecyclePlace(t) \in PtrPlaces /\ RecyclePlace(t).kind = "recycle"
    BY DEF RecyclePlace, Place, PtrPlaces
<1>7. RecycleBatches(t) \in PtrPlaces /\ RecycleBatches(t).kind = "recycle batches"
    BY DEF RecycleBatches, Place, PtrPlaces
<1> QED
    BY <1>1, <1>2, <1>3, <1>4, <1>5, <1>6, <1>7 DEF Places

\* A marked chunk for the quarantine goes to the TSD.
LEMMA TakeForPut ==
    ASSUME LockInv, Accounted, Plain, NEW t \in Threads, NEW x \in TSDs,
           pc[t] \in {"take", "fallback", "slow", "await"}, Step(t, UseOf(t), WithTSD(job[t], x)),
           UseOf(t) = "put"
    PROVE  Accounted'
<1>1. PICK v : v = job[t]
    OBVIOUS
<1>2. Shape(pc[t], v) /\ IsJob(v) /\ v.op \in {"malloc", "free", "realloc"}
    BY <1>1, ShapeAt, FitAt DEF NeedTSD, ClientOps
<1>3. PICK w : w = WithTSD(v, x)
    OBVIOUS
<1>4. Same(w, v) /\ w.tsd = x /\ w.result = v.result /\ w.batches = v.batches /\ w.todo = v.todo
    BY <1>2, <1>3, WorkFields
<1>5. Goes(t, "put", w)
    BY <1>1, <1>3 DEF Goes, Step
<1>6. /\ v.op = "free" \/ (v.op = "realloc" /\ v.result # None)
      /\ header[v.ptr].state = "Quarantined"
    BY <1>1, <1>2 DEF UseOf
<1>7. v.ptr # None /\ Grip(pc[t], v) = "marked" /\ Grip("put", w) = "put"
  <2>1. v.ptr # None
      BY <1>2, <1>6 DEF Shape
  <2>2. Marked(pc[t], v) /\ pc[t] \notin Delivered /\ pc[t] \notin {"put", "unmap"}
    <3>1. v.op = "free" \/ v.result # None
        BY <1>6
    <3> QED
        BY <3>1 DEF Marked, Delivered
  <2>3. Grip("put", w) = "put"
      BY DEF Grip, Delivered
  <2> QED
      BY <2>1, <2>2, <2>3 DEF Grip
<1>8. Shape("put", w)
    BY <1>2, <1>4, <1>6 DEF Shape, Same, Asked, Wants
<1>9. w.ptr = v.ptr /\ w.result = v.result
    BY <1>4 DEF Same
<1>10. /\ HeldBy("put", w) = HeldBy(pc[t], v)
       /\ MarkedBy(pc[t], v) = {v.ptr} /\ MarkedBy("put", w) = {}
       /\ PtrAt("put", pc[t], v) = {} /\ PtrAt("put", "put", w) = {v.ptr}
       /\ PtrAt("unmap", pc[t], v) = {} /\ PtrAt("unmap", "put", w) = {}
  <2>1. {v.ptr} \ {None} = {v.ptr}
      BY <1>7
  <2>2. /\ HeldBy(pc[t], v) = {v.result} \ {None} /\ MarkedBy(pc[t], v) = {v.ptr} \ {None}
        /\ PtrAt("put", pc[t], v) = {} /\ PtrAt("unmap", pc[t], v) = {}
      BY <1>7, Grips
  <2>3. /\ HeldBy("put", w) = {w.result} \ {None} /\ MarkedBy("put", w) = {}
        /\ PtrAt("put", "put", w) = {w.ptr} \ {None} /\ PtrAt("unmap", "put", w) = {}
      BY <1>7, Grips
  <2> QED
      BY <1>9, <2>1, <2>2, <2>3
<1>11. PICK S : S = {MarkedPlace(t), PutPlace(t)}
    OBVIOUS
<1>12. /\ CachesFit /\ OnlyCaches(x) /\ Continues
       /\ header' = header /\ marker' = marker
    BY CachesStay DEF Plain, HeapStays, OnlyCaches
<1>13. Untouched(S, t, x, "put", w)
    BY <1>1, <1>4, <1>10, <1>11 DEF Untouched, Plain, HeapStays
<1>14. PICK T : T = Table
    OBVIOUS
<1>15. PICK T2 : T2 = Table'
    OBVIOUS
<1>16. /\ Shows(T, t, x, free, unmapped, live, quarantine, cache, pending, pc[t], v)
       /\ Shows(T2, t, x, free', unmapped', live', quarantine', cache', pending', "put", w)
       /\ SameBut(S, T, T2)
       /\ Owned(T2, header', marker') => Accounted'
    BY <1>1, <1>5, <1>8, <1>12, <1>13, <1>14, <1>15, Direct
<1>17. Moves(T, T2, MarkedPlace(t), {v.ptr}, PutPlace(t), {v.ptr})
  <2>1. /\ T[MarkedPlace(t)] = {v.ptr} /\ T2[MarkedPlace(t)] = {}
        /\ T[PutPlace(t)] = {} /\ T2[PutPlace(t)] = {v.ptr}
      BY <1>10, <1>16 DEF Shows
  <2> QED
      BY <1>11, <1>16, <2>1 DEF Moves, SameBut
<1>18. Owned(T2, header, marker)
  <2>1. Owned(T, header, marker)
      BY <1>14 DEF Accounted
  <2>2. {v.ptr} \in SUBSET T[MarkedPlace(t)]
      BY <1>10, <1>16 DEF Shows
  <2>3. \A p \in {v.ptr} : PtrRule(PutPlace(t), p, header[p])
      BY <1>6, HandPlaces DEF PtrRule
  <2>4. MarkedPlace(t) \in PtrPlaces /\ PutPlace(t) \in PtrPlaces /\ MarkedPlace(t) # PutPlace(t)
    <3>1. MarkedPlace(t).kind # PutPlace(t).kind
        BY HandPlaces
    <3> QED
        BY <3>1, HandPlaces
  <2> QED
      BY <1>17, <2>1, <2>2, <2>3, <2>4, MovePtrs
<1> QED
    BY <1>12, <1>16, <1>18

\* A call that goes on looking for a TSD.
LEMMA TakeWaits ==
    ASSUME LockInv, Accounted, Plain, NEW t \in Threads, NEW stage, NEW work,
           pc[t] \in {"take", "fallback", "slow", "await"},
           stage \in {"take", "fallback", "slow", "await"},
           \/ work = job[t]
           \/ \E x \in TSDs : work = WithTSD(job[t], x),
           Step(t, stage, work)
    PROVE  Accounted'
<1>1. PICK v : v = job[t]
    OBVIOUS
<1>2. Shape(pc[t], v) /\ IsJob(v)
    BY <1>1, ShapeAt
<1>3. /\ Same(work, v) /\ work.tsd \in TSDs \cup {NoTSD} /\ work.result = v.result
      /\ work.batches = v.batches /\ work.todo = v.todo
  <2>1. CASE work = v
      BY <1>2, <2>1 DEF Same, Shape
  <2>2. ASSUME NEW x \in TSDs, work = WithTSD(v, x)
        PROVE  /\ Same(work, v) /\ work.tsd = x /\ work.result = v.result
               /\ work.batches = v.batches /\ work.todo = v.todo
      BY <1>2, <2>2, WorkFields
  <2> QED
      BY <1>1, <2>1, <2>2
<1>4. Shape(stage, work)
    BY <1>2, <1>3 DEF Shape, Same, Asked, Wants
<1>5. Grip(stage, work) = Grip(pc[t], v)
    BY <1>3 DEF Same, Grip, Delivered, Marked
<1> QED
    BY <1>1, <1>3, <1>4, <1>5, GoesOn DEF Same

\* getTSDAndLock.
LEMMA GetTSDOwned ==
    ASSUME LockInv, Accounted, NEW t \in Threads, GetTSD(t) PROVE Accounted'
<1>1. Plain
    BY DEF GetTSD, TakeOwn, TakeFallback, LockFallback, TakeCurrent, TakeSlow, TakeCandidate,
           Plain, Continues, HeapStays, registryVars, heapVars, quarantineVars, chunkVars
<1>2. pc[t] \in {"take", "fallback", "slow", "await"}
    BY DEF GetTSD, TakeOwn, TakeFallback, LockFallback, TakeCurrent, TakeSlow, TakeCandidate, At
<1>3. SharedTSDs = TSDs \/ registry # "shared"
    BY DEF TSDs
<1>4. \/ \E stage, work : /\ stage \in {"take", "fallback", "slow", "await"}
                          /\ work = job[t] \/ \E x \in TSDs : work = WithTSD(job[t], x)
                          /\ Step(t, stage, work)
      \/ \E x \in TSDs : Step(t, UseOf(t), WithTSD(job[t], x))
  <2>1. CASE TakeOwn(t)
    <3>1. t \in TSDs
        BY <2>1 DEF TakeOwn, TSDs
    <3> QED
        BY <2>1, <3>1 DEF TakeOwn, Take, WithTSD
  <2>2. CASE TakeFallback(t)
      BY <2>2 DEF TakeFallback, Goto
  <2>3. CASE LockFallback(t)
    <3>1. FallbackTSD \in TSDs
      <4>1. registry # "shared"
          BY <2>3, FitAt DEF LockFallback, At, Fit
      <4> QED
          BY <4>1 DEF TSDs
    <3> QED
        BY <2>3, <3>1 DEF LockFallback, Take, WithTSD
  <2>4. CASE TakeCurrent(t)
    <3>1. current[t] \in TSDs
      <4>1. Associated(t, "take") /\ registry = "shared"
          BY <2>4 DEF TakeCurrent, At, LockInv, Sound
      <4> QED
          BY <1>3, <4>1 DEF Associated, NeedTSD
    <3> QED
        BY <2>4, <3>1 DEF TakeCurrent, Take, Goto, WithTSD
  <2>5. CASE TakeSlow(t)
    <3>1. registry = "shared"
        BY <2>5, FitAt DEF TakeSlow, At, Fit
    <3> QED
        BY <1>3, <2>5, <3>1 DEF TakeSlow, Take, WithTSD, Candidates
  <2>6. CASE TakeCandidate(t)
    <3>1. job[t].tsd \in TSDs
      <4>1. registry = "shared" /\ job[t].tsd \in SharedTSDs
          BY <2>6, FitAt DEF TakeCandidate, At, Fit
      <4> QED
          BY <1>3, <4>1
    <3> QED
        BY <2>6, <3>1 DEF TakeCandidate, Take, WithTSD
  <2> QED
      BY <2>1, <2>2, <2>3, <2>4, <2>5, <2>6 DEF GetTSD
<1>5. ASSUME NEW x \in TSDs, Step(t, UseOf(t), WithTSD(job[t], x)), UseOf(t) # "put"
      PROVE  Accounted'
  <2>1. PICK stage, work : /\ Step(t, stage, work) /\ Shape(stage, work)
                           /\ work.ptr = job[t].ptr /\ work.result = job[t].result
                           /\ work.batches = job[t].batches
                           /\ job[t].ptr = None \/ Grip(stage, work) = Grip(pc[t], job[t])
      BY <1>2, <1>5, TakeGoesOn
  <2> QED
      BY <1>1, <2>1, GoesOn
<1> QED
    BY <1>1, <1>2, <1>4, <1>5, TakeForPut, TakeWaits

-----------------------------------------------------------------------------
(* Pointers that come from the program, or go back to it.                  *)

\* What is known of a pointer at a place.
LEMMA AtPlace ==
    ASSUME NEW T, NEW hd, NEW mk, Owned(T, hd, mk), NEW R \in PtrPlaces, NEW p \in T[R]
    PROVE  LET b == GetBlockBegin(p, hd[p])
           IN  /\ b \in Blocks /\ p \in Ptrs /\ p \in Nat /\ p # None /\ hd[p] \in Headers
               /\ hd[p].class = ClassOfBlock(b) /\ PtrRule(R, p, hd[p])
               /\ b + 1 <= p /\ p <= EndOf(b) /\ hd[p].offset = p - (b + 1)
               /\ hd \in [Ptrs -> Headers] /\ mk \in [Blocks -> Nat]
<1>1. PICK loc : Located(loc, T, hd, mk)
    BY DEF Owned
<1>2. PICK b : b = GetBlockBegin(p, hd[p])
    OBVIOUS
<1>3. /\ b \in Blocks /\ p \in Ptrs /\ p \in Nat /\ p # None /\ hd[p] \in Headers
      /\ hd[p].class = ClassOfBlock(b) /\ PtrRule(R, p, hd[p])
      /\ b + 1 <= p /\ p - 1 < EndOf(b)
      /\ p = ChunkAt(b, mk) /\ hd[p].offset = mk[b]
    BY <1>1, <1>2, Behind
<1>4. hd \in [Ptrs -> Headers] /\ mk \in [Blocks -> Nat]
    BY <1>1 DEF Located
<1>5. b \in Nat /\ EndOf(b) \in Nat /\ mk[b] \in Nat
    BY <1>3, <1>4, BlocksApart
<1>6. p <= EndOf(b) /\ hd[p].offset = p - (b + 1)
    BY <1>3, <1>5 DEF ChunkAt, HeaderSize
<1> QED
    BY <1>2, <1>3, <1>4, <1>6

\* The header of a chunk of this size says so.
LEMMA HeaderForFacts ==
    ASSUME NEW block \in Blocks, NEW p \in Nat, block + 1 <= p, NEW size \in Nat,
           p + size <= EndOf(block), NEW c, c = ClassOfBlock(block),
           NEW h, h = HeaderFor(block, c, p, size)
    PROVE  /\ h \in Headers /\ h.offset = p - (block + 1) /\ h.class = c
           /\ h.state = "Allocated" /\ GetBlockBegin(p, h) = block /\ GetSize(p, h) = size
           /\ p <= EndOf(block)
<1>1. /\ block \in Nat /\ EndOf(block) \in Nat /\ c \in Nat
    BY BlocksApart
<1>2. h.offset = p - (block + 1) /\ h.class = c /\ h.state = "Allocated"
    BY DEF HeaderFor, HeaderSize
<1>3. h.offset \in Nat
    BY <1>1, <1>2
<1>4. GetBlockBegin(p, h) = block
    BY <1>1, <1>2 DEF GetBlockBegin, HeaderSize
<1>5. c = 0 => BlockEnd(block, 0) = EndOf(block)
    BY DEF EndOf
<1>6. h.amount = IF c = 0 THEN BlockEnd(block, 0) - (p + size) ELSE size
    BY DEF HeaderFor
<1>7. h.amount \in Int
    BY <1>1, <1>5, <1>6
<1>8. h \in Headers
  <2>1. h = [state |-> "Allocated", class |-> c, amount |-> h.amount, offset |-> h.offset]
      BY <1>2, <1>6 DEF HeaderFor, HeaderSize
  <2> QED
      BY <1>1, <1>3, <1>7, <2>1 DEF Headers
<1>9. GetSize(p, h) = size
  <2>1. CASE c = 0
    <3>1. GetSize(p, h) = BlockEnd(block, 0) - p - h.amount
        BY <1>2, <1>4, <2>1 DEF GetSize
    <3> QED
        BY <1>1, <1>5, <1>6, <2>1, <3>1
  <2>2. CASE c # 0
      BY <1>2, <1>6, <2>2 DEF GetSize
  <2> QED
      BY <2>1, <2>2
<1> QED
    BY <1>1, <1>2, <1>4, <1>8, <1>9

\* A chunk for what was asked for is one that the program may hold.
LEMMA NewChunk ==
    ASSUME NEW block \in Blocks, NEW p \in Ptrs, p \in Nat, block + 1 <= p,
           NEW work, Asked(work), p + work.size <= EndOf(block),
           NEW c, c = ClassOfBlock(block), NEW h, h = HeaderFor(block, c, p, work.size)
    PROVE  /\ Begins(p, block, h) /\ Usable(p, h) /\ h.offset = p - (block + 1) /\ h.class = c
           /\ PtrRule(LivePlace, p, h) /\ \A t \in Threads : PtrRule(HeldPlace(t), p, h)
<1>1. /\ h \in Headers /\ h.offset = p - (block + 1) /\ h.class = c
      /\ h.state = "Allocated" /\ GetBlockBegin(p, h) = block /\ GetSize(p, h) = work.size
      /\ p <= EndOf(block)
    BY HeaderForFacts DEF Asked
<1>2. Begins(p, block, h)
    BY <1>1 DEF Begins
<1>3. Usable(p, h)
    BY <1>1 DEF Usable, Asked
<1>4. PtrRule(LivePlace, p, h)
    BY <1>3 DEF PtrRule, LivePlace, Place
<1>5. ASSUME NEW t \in Threads PROVE PtrRule(HeldPlace(t), p, h)
    BY <1>3 DEF PtrRule, HeldPlace, Place
<1> QED
    BY <1>1, <1>2, <1>3, <1>4, <1>5

\* The program passes a pointer.
LEMMA PtrCalls ==
    ASSUME LockInv, Accounted, NEW t \in Threads, Dealloc(t) \/ Realloc(t) PROVE Accounted'
<1>1. PICK op, p : /\ op \in {"free", "realloc"} /\ p \in live /\ Call(t, op, p, <<>>)
                   /\ live' = live \ {p}
    BY DEF Dealloc, Realloc
<1>2. PICK T : T = Table
    OBVIOUS
<1>3. PICK T2 : T2 = Table'
    OBVIOUS
<1>4. Owned(T, header, marker) /\ T[LivePlace] = live
    BY <1>2, Lookups DEF Accounted, Table
<1>5. p # None /\ PtrRule(LivePlace, p, header[p])
    BY <1>1, <1>4, AtPlace, HandPlaces
<1>6. op \in ClientOps \cup {"drain", "disable"} /\ op # "drain"
    BY <1>1 DEF ClientOps
<1>7. /\ pc[t] = "idle" /\ job[t] = NoJob /\ Continues
      /\ UNCHANGED <<free, unmapped, cache, quarantine, pending, header, marker>>
    BY <1>1, <1>5, <1>6, CallBegins
<1>8. PICK stage, work : /\ Step(t, stage, work) /\ Shape(stage, work)
                         /\ work.ptr = p /\ work.result = None /\ work.batches = <<>>
                         /\ p = None \/ Grip(stage, work) = "held"
    BY <1>1, <1>5, <1>6, CallBegins
<1>9. Goes(t, stage, work)
    BY <1>8 DEF Goes, Step
<1>10. /\ HeldBy(stage, work) = {p} /\ HeldBy(pc[t], job[t]) = {}
       /\ MarkedBy(stage, work) = MarkedBy(pc[t], job[t])
       /\ PtrAt("put", stage, work) = PtrAt("put", pc[t], job[t])
       /\ PtrAt("unmap", stage, work) = PtrAt("unmap", pc[t], job[t])
       /\ work.batches = job[t].batches
  <2>1. /\ HeldBy(stage, work) = {work.result, work.ptr} \ {None}
        /\ MarkedBy(stage, work) = {} /\ PtrAt("put", stage, work) = {}
        /\ PtrAt("unmap", stage, work) = {}
      BY <1>5, <1>8, Grips
  <2>2. {work.result, work.ptr} \ {None} = {p}
      BY <1>5, <1>8
  <2> QED
      BY <1>7, <1>8, <2>1, <2>2, IdleShape
<1>11. PICK S : S = {LivePlace, HeldPlace(t)}
    OBVIOUS
<1>12. CachesFit /\ OnlyCaches(NoTSD) /\ header' = header /\ marker' = marker
    BY <1>7, CachesStay DEF OnlyCaches
<1>13. Untouched(S, t, NoTSD, stage, work)
    BY <1>7, <1>10, <1>11 DEF Untouched
<1>14. /\ Shows(T, t, NoTSD, free, unmapped, live, quarantine, cache, pending, pc[t], job[t])
       /\ Shows(T2, t, NoTSD, free', unmapped', live', quarantine', cache', pending', stage, work)
       /\ SameBut(S, T, T2)
       /\ Owned(T2, header', marker') => Accounted'
    BY <1>2, <1>3, <1>7, <1>8, <1>9, <1>12, <1>13, Direct
<1>15. Moves(T, T2, LivePlace, {p}, HeldPlace(t), {p})
  <2>1. /\ T[LivePlace] = live /\ T2[LivePlace] = live \ {p}
        /\ T[HeldPlace(t)] = {} /\ T2[HeldPlace(t)] = {p}
      BY <1>1, <1>10, <1>14 DEF Shows
  <2> QED
      BY <1>11, <1>14, <2>1 DEF Moves, SameBut
<1>16. Owned(T2, header, marker)
  <2>1. {p} \in SUBSET T[LivePlace]
      BY <1>1, <1>4
  <2>2. \A q \in {p} : PtrRule(HeldPlace(t), q, header[q])
      BY <1>5, HandPlaces DEF PtrRule
  <2> QED
      BY <1>4, <1>15, <2>1, <2>2, LiveAndHeld, MovePtrs
<1> QED
    BY <1>12, <1>14, <1>16

-----------------------------------------------------------------------------
(* reallocate, and the marking of a chunk.                                 *)

\* The size of a chunk in its block can change; offset and class stay.
LEMMA ResizedFacts ==
    ASSUME NEW p, p \in Ptrs, p \in Nat, NEW g, g \in Headers, NEW b, b = GetBlockBegin(p, g),
           b \in Blocks, g.class = ClassOfBlock(b), b + 1 <= p, g.offset = p - (b + 1),
           NEW work, Asked(work), FitsInPlace(p, g, work.size),
           NEW h, h = Resized(p, g, work.size)
    PROVE  /\ h \in Headers /\ h.offset = g.offset /\ h.class = g.class
           /\ PtrRule(LivePlace, p, h)
<1>1. h = HeaderFor(b, g.class, p, work.size)
    BY DEF Resized
<1>2. p + work.size <= EndOf(b)
    BY DEF FitsInPlace, EndOf
<1>3. Begins(p, b, h) /\ h.offset = p - (b + 1) /\ h.class = g.class /\ PtrRule(LivePlace, p, h)
    BY <1>1, <1>2, NewChunk
<1> QED
    BY <1>3 DEF Begins

\* A step that returns to the program, with nothing but what the call had.
LEMMA ResizeOwned ==
    ASSUME LockInv, Accounted, NEW t \in Threads, Resize(t) PROVE Accounted'
<1>1. PICK v : v = job[t]
    OBVIOUS
<1>2. PICK p : p = v.ptr
    OBVIOUS
<1>3. /\ pc[t] = "resize" /\ Shape("resize", v) /\ IsJob(v)
    BY <1>1, ShapeAt DEF Resize, At
<1>4. /\ v.op = "realloc" /\ v.result = None /\ p # None /\ Asked(v) /\ v.batches = <<>>
    BY <1>2, <1>3 DEF Shape
<1>5. /\ Continues
      /\ UNCHANGED <<free, unmapped, cache, quarantine, pending, marker>>
    BY DEF Resize, Continues, registryVars, heapVars, quarantineVars
<1>6. CachesFit /\ OnlyCaches(NoTSD)
    BY <1>5, CachesStay DEF OnlyCaches
<1>7. Begun(v)
    BY <1>3, <1>4 DEF Begun, ClientOps, Shape
<1>8. Grip("resize", v) = "held"
    BY <1>4, <1>7, BegunFacts
<1>9. CASE FitsInPlace(p, header[p], v.size)
  <2>1. /\ header' = [header EXCEPT ![p] = Resized(p, header[p], v.size)]
        /\ live' = live \cup {p} /\ Step(t, "idle", NoJob)
      BY <1>1, <1>2, <1>9 DEF Resize, Return
  <2>2. PICK T : T = Table
      OBVIOUS
  <2>3. PICK T2 : T2 = Table'
      OBVIOUS
  <2>4. PICK S : S = {LivePlace, HeldPlace(t)}
      OBVIOUS
  <2>5. /\ HeldBy(pc[t], v) = {p} /\ MarkedBy(pc[t], v) = {} /\ PtrAt("put", pc[t], v) = {}
        /\ PtrAt("unmap", pc[t], v) = {}
    <3>1. {v.result, v.ptr} \ {None} = {p}
        BY <1>2, <1>4
    <3> QED
        BY <1>3, <1>8, <3>1, Grips
  <2>6. Untouched(S, t, NoTSD, "idle", NoJob)
      BY <1>1, <1>4, <1>5, <2>4, <2>5, IdleShape DEF Untouched
  <2>7. Goes(t, "idle", NoJob) /\ Shape("idle", NoJob)
      BY <2>1, IdleShape DEF Goes, Step
  <2>8. /\ Shows(T, t, NoTSD, free, unmapped, live, quarantine, cache, pending, pc[t], v)
        /\ Shows(T2, t, NoTSD, free', unmapped', live', quarantine', cache', pending', "idle", NoJob)
        /\ SameBut(S, T, T2)
        /\ Owned(T2, header', marker') => Accounted'
      BY <1>1, <1>5, <1>6, <2>2, <2>3, <2>6, <2>7, Direct
  <2>9. T[HeldPlace(t)] = {p} /\ T2[HeldPlace(t)] = {} /\ T[LivePlace] = live
        /\ T2[LivePlace] = live \cup {p}
      BY <2>1, <2>5, <2>8, IdleShape DEF Shows
  <2>10. Moves(T, T2, HeldPlace(t), {p}, LivePlace, {p})
      BY <2>4, <2>8, <2>9 DEF Moves, SameBut
  <2>11. Owned(T, header, marker)
      BY <2>2 DEF Accounted
  <2>12. PICK b : b = GetBlockBegin(p, header[p])
      OBVIOUS
  <2>13. /\ b \in Blocks /\ p \in Ptrs /\ p \in Nat /\ header[p] \in Headers
         /\ header[p].class = ClassOfBlock(b) /\ b + 1 <= p /\ header[p].offset = p - (b + 1)
      BY <2>9, <2>11, <2>12, AtPlace, LiveAndHeld
  <2>14. PICK g, h : g = header[p] /\ h = Resized(p, g, v.size)
      OBVIOUS
  <2>15. h \in Headers /\ h.offset = g.offset /\ h.class = g.class /\ PtrRule(LivePlace, p, h)
      BY <1>4, <1>9, <2>12, <2>13, <2>14, ResizedFacts
  <2>16. Owned(T2, [header EXCEPT ![p] = h], marker)
      BY <2>9, <2>10, <2>11, <2>14, <2>15, LiveAndHeld, Rewrite
  <2> QED
      BY <1>5, <2>1, <2>8, <2>14, <2>16
<1>10. CASE ~ FitsInPlace(p, header[p], v.size)
  <2>1. Step(t, FirstStage("malloc", v), v) /\ UNCHANGED <<header, live>>
      BY <1>1, <1>2, <1>10 DEF Resize, Goto
  <2>2. Plain
      BY <1>5, <2>1 DEF Plain, HeapStays
  <2>3. Shape(FirstStage("malloc", v), v) /\ Grip(FirstStage("malloc", v), v) = "held"
      BY <1>4, <1>7, BegunFacts
  <2> QED
      BY <1>1, <1>3, <1>8, <2>1, <2>2, <2>3, GoesOn
<1> QED
    BY <1>9, <1>10

\* A header with another state.
LEMMA StateFacts ==
    ASSUME NEW h \in Headers, NEW s \in {"Available", "Quarantined"},
           NEW g, g = [h EXCEPT !.state = s]
    PROVE  g \in Headers /\ g.state = s /\ g.offset = h.offset /\ g.class = h.class
BY DEF Headers

\* storeHeader: the chunk is no longer the program's.
LEMMA MarkOwned ==
    ASSUME LockInv, Accounted, NEW t \in Threads, Mark(t)
    PROVE  Accounted' /\ header[job[t].ptr].state = "Allocated"
<1>1. PICK v : v = job[t]
    OBVIOUS
<1>2. PICK p : p = v.ptr
    OBVIOUS
<1>3. PICK s \in {"Available", "Quarantined"} :
        header' = [header EXCEPT ![p].state = s]
    BY <1>1, <1>2 DEF Mark
<1>4. PICK stage : stage = IF header[p].class = 0 THEN "unmap" ELSE "take"
    OBVIOUS
<1>5. /\ pc[t] = "mark" /\ Shape("mark", v) /\ IsJob(v) /\ v.op \in ClientOps
    BY <1>1, ShapeAt, FitAt DEF Mark, At, NeedTSD
<1>6. /\ v.op = "free" \/ v.result # None
      /\ v.op \in {"free", "realloc"}
      /\ p # None /\ v.result # p /\ v.batches = <<>>
    BY <1>2, <1>5 DEF Shape, ClientOps
<1>7. /\ Continues
      /\ UNCHANGED <<free, unmapped, cache, live, quarantine, pending, marker>>
    BY DEF Mark, Continues, registryVars, heapVars, quarantineVars
<1>8. CachesFit /\ OnlyCaches(NoTSD)
    BY <1>7, CachesStay DEF OnlyCaches
<1>9. Goes(t, stage, v)
    BY <1>1, <1>2, <1>4 DEF Mark, Goto, Step, Goes
<1>10. Shape(stage, v)
    BY <1>4, <1>5, <1>6 DEF Shape, Wants
<1>11. PICK Q : Q = IF stage = "unmap" THEN UnmapPlace(t) ELSE MarkedPlace(t)
    OBVIOUS
<1>12. PICK S : S = {HeldPlace(t), Q}
    OBVIOUS
<1>13. /\ HeldBy(pc[t], v) = {v.result, p} \ {None} /\ HeldBy(stage, v) = {v.result} \ {None}
       /\ MarkedBy(pc[t], v) = {} /\ PtrAt("put", pc[t], v) = {} /\ PtrAt("unmap", pc[t], v) = {}
       /\ PtrAt("put", stage, v) = {}
       /\ stage = "unmap" => MarkedBy(stage, v) = {} /\ PtrAt("unmap", stage, v) = {p} \ {None}
       /\ stage = "take" => MarkedBy(stage, v) = {p} \ {None} /\ PtrAt("unmap", stage, v) = {}
  <2>1. Grip("mark", v) = "held"
      BY DEF Grip, Delivered, Marked
  <2>2. stage = "unmap" => Grip(stage, v) = "unmap"
      BY DEF Grip, Delivered
  <2>3. stage = "take" => Grip(stage, v) = "marked"
      BY <1>6 DEF Grip, Delivered, Marked
  <2>4. stage = "unmap" \/ stage = "take"
      BY <1>4
  <2>5. CASE stage = "unmap"
      BY <1>2, <1>5, <2>1, <2>2, <2>5, Grips
  <2>6. CASE stage = "take"
      BY <1>2, <1>5, <2>1, <2>3, <2>6, Grips
  <2> QED
      BY <2>4, <2>5, <2>6
<1>14. {p} \ {None} = {p}
    BY <1>6
<1>15. stage = "unmap" \/ stage = "take"
    BY <1>4
<1>16. Untouched(S, t, NoTSD, stage, v)
    BY <1>1, <1>7, <1>11, <1>12, <1>13, <1>15 DEF Untouched
<1>17. PICK T : T = Table
    OBVIOUS
<1>18. PICK T2 : T2 = Table'
    OBVIOUS
<1>19. /\ Shows(T, t, NoTSD, free, unmapped, live, quarantine, cache, pending, pc[t], v)
       /\ Shows(T2, t, NoTSD, free', unmapped', live', quarantine', cache', pending', stage, v)
       /\ SameBut(S, T, T2)
       /\ Owned(T2, header', marker') => Accounted'
    BY <1>1, <1>7, <1>8, <1>9, <1>10, <1>16, <1>17, <1>18, Direct
<1>20. /\ T[HeldPlace(t)] = {v.result, p} \ {None} /\ T2[HeldPlace(t)] = {v.result} \ {None}
       /\ T[Q] = {} /\ T2[Q] = {p}
    BY <1>11, <1>13, <1>14, <1>15, <1>19 DEF Shows
<1>21. Moves(T, T2, HeldPlace(t), {p}, Q, {p})
  <2>1. T2[HeldPlace(t)] = T[HeldPlace(t)] \ {p}
      BY <1>6, <1>20
  <2> QED
      BY <1>12, <1>19, <1>20, <2>1 DEF Moves, SameBut
<1>22. Owned(T, header, marker)
    BY <1>17 DEF Accounted
<1>23. p \in T[HeldPlace(t)]
    BY <1>6, <1>20
<1>24. header[p] \in Headers /\ header \in [Ptrs -> Headers] /\ p \in Ptrs
    BY <1>22, <1>23, AtPlace, LiveAndHeld
<1>25. PICK h, g : h = header[p] /\ g = [h EXCEPT !.state = s]
    OBVIOUS
<1>26. g \in Headers /\ g.state = s /\ g.offset = h.offset /\ g.class = h.class
    BY <1>24, <1>25, StateFacts
<1>27. header' = [header EXCEPT ![p] = g]
    BY <1>3, <1>24, <1>25
<1>28. Q \in PtrPlaces /\ HeldPlace(t) \in PtrPlaces /\ Q # HeldPlace(t) /\ PtrRule(Q, p, g)
  <2>1. CASE stage = "unmap"
    <3>1. Q = UnmapPlace(t) /\ g.class = 0
        BY <1>4, <1>11, <1>25, <1>26, <2>1
    <3>2. Q \in PtrPlaces /\ HeldPlace(t) \in PtrPlaces /\ Q.kind = "unmap" /\ HeldPlace(t).kind = "held"
        BY <3>1, HandPlaces
    <3> QED
        BY <3>1, <3>2 DEF PtrRule
  <2>2. CASE stage = "take"
    <3>1. Q = MarkedPlace(t)
        BY <1>11, <2>2
    <3>2. Q \in PtrPlaces /\ HeldPlace(t) \in PtrPlaces /\ Q.kind = "marked" /\ HeldPlace(t).kind = "held"
        BY <3>1, HandPlaces
    <3> QED
        BY <1>26, <3>2 DEF PtrRule
  <2> QED
      BY <1>15, <2>1, <2>2
<1>29. Owned(T2, [header EXCEPT ![p] = g], marker)
    BY <1>21, <1>22, <1>23, <1>25, <1>26, <1>28, Rewrite
<1>30. header[p].state = "Allocated"
  <2>1. HeldPlace(t) \in PtrPlaces /\ HeldPlace(t).kind = "held"
      BY HandPlaces
  <2>2. PtrRule(HeldPlace(t), p, header[p])
      BY <1>22, <1>23, <2>1, AtPlace
  <2> QED
      BY <2>1, <2>2 DEF PtrRule, Usable
<1> QED
    BY <1>1, <1>2, <1>7, <1>19, <1>27, <1>29, <1>30

-----------------------------------------------------------------------------
(* allocate.                                                               *)

\* Where the new chunk goes, and what the call does then.
InitGoes(t, p, Q, stage, work) ==
    /\ Goes(t, stage, work)
    /\ p # job[t].ptr => Shape(stage, work)
    /\ \/ Q = LivePlace /\ live' = live \cup {p} /\ HeldBy(stage, work) = HeldBy(pc[t], job[t])
       \/ /\ Q = HeldPlace(t) /\ live' = live
          /\ HeldBy(stage, work) = HeldBy(pc[t], job[t]) \cup {p}
    /\ MarkedBy(stage, work) = MarkedBy(pc[t], job[t])
    /\ PtrAt("put", stage, work) = PtrAt("put", pc[t], job[t])
    /\ PtrAt("unmap", stage, work) = PtrAt("unmap", pc[t], job[t])
    /\ work.batches = job[t].batches

\* A call that still looks for a block.
LEMMA WantsAt ==
    ASSUME LockInv, Accounted, NEW t \in Threads, pc[t] \in {"map", "pop"}, NEW v, v = job[t]
    PROVE  /\ IsJob(v) /\ Shape(pc[t], v) /\ v.op \in {"malloc", "realloc"} /\ v.result = None
           /\ v.batches = <<>> /\ Asked(v) /\ Wants(v)
           /\ v.op = "malloc" => v.ptr = None
           /\ v.op = "realloc" => v.ptr # None
           /\ HeldBy(pc[t], v) = {v.ptr} \ {None} /\ MarkedBy(pc[t], v) = {}
           /\ PtrAt("put", pc[t], v) = {} /\ PtrAt("unmap", pc[t], v) = {}
<1>1. IsJob(v) /\ Shape(pc[t], v)
    BY ShapeAt
<1>2. /\ v.op \in {"malloc", "realloc"} /\ v.result = None
      /\ v.batches = <<>> /\ Asked(v) /\ (v.ptr # None <=> v.op \in {"free", "realloc"})
    BY <1>1 DEF Shape
<1>3. Grip(pc[t], v) = "held"
    BY DEF Grip, Delivered, Marked
<1>4. {v.result, v.ptr} \ {None} = {v.ptr} \ {None}
    BY <1>2
<1>5. /\ HeldBy(pc[t], v) = {v.ptr} \ {None} /\ MarkedBy(pc[t], v) = {}
      /\ PtrAt("put", pc[t], v) = {} /\ PtrAt("unmap", pc[t], v) = {}
    BY <1>3, <1>4, Grips
<1>6. Wants(v)
    BY <1>2 DEF Wants
<1> QED
    BY <1>1, <1>2, <1>5, <1>6

\* initChunk.
LEMMA InitFacts ==
    ASSUME LockInv, Accounted, NEW t \in Threads, pc[t] \in {"map", "pop"}, NEW v, v = job[t],
           NEW block \in Blocks, NEW c, c = ClassOfBlock(block), NEW p, p = UserPtr(block, v.align),
           p + v.size <= EndOf(block), InitChunk(t, block, c)
    PROVE  \E Q, h, stage, work :
             /\ InitGoes(t, p, Q, stage, work) /\ Q \in {LivePlace, HeldPlace(t)}
             /\ Begins(p, block, h) /\ PtrRule(Q, p, h) /\ p # None
             /\ header' = Written(header, block, p, h)
             /\ marker' = [marker EXCEPT ![block] = h.offset]
<1>1. /\ IsJob(v) /\ v.op \in {"malloc", "realloc"} /\ v.result = None
      /\ v.batches = <<>> /\ Asked(v) /\ Shape(pc[t], v)
      /\ v.op = "malloc" => v.ptr = None
      /\ v.op = "realloc" => v.ptr # None
      /\ HeldBy(pc[t], v) = {v.ptr} \ {None} /\ MarkedBy(pc[t], v) = {}
      /\ PtrAt("put", pc[t], v) = {} /\ PtrAt("unmap", pc[t], v) = {}
    BY WantsAt
<1>2. v.align \in Nat \ {0} /\ v.align \in Alignments
    BY <1>1, LayoutAssumption DEF Asked, LayoutAssumption
<1>3. p \in Ptrs /\ p \in Nat /\ block + 1 <= p
    BY <1>2, UserPtrFacts
<1>4. p # None
    BY <1>3, BlocksApart DEF None
<1>5. PICK h : h = HeaderFor(block, c, p, v.size)
    OBVIOUS
<1>6. /\ Begins(p, block, h) /\ h.class = c
      /\ PtrRule(LivePlace, p, h) /\ PtrRule(HeldPlace(t), p, h)
    BY <1>1, <1>3, <1>5, NewChunk
<1>7. /\ header' = Written(header, block, p, h)
      /\ marker' = [marker EXCEPT ![block] = h.offset]
    BY <1>5 DEF InitChunk, WriteHeader, Written
<1>8. CASE v.op = "malloc"
  <2>1. live' = live \cup {p} /\ Goes(t, "idle", NoJob)
      BY <1>8 DEF InitChunk, Return, Step, Goes
  <2>2. {v.ptr} \ {None} = {}
      BY <1>1, <1>8
  <2>3. InitGoes(t, p, LivePlace, "idle", NoJob)
      BY <1>1, <2>1, <2>2, IdleShape DEF InitGoes
  <2> QED
      BY <1>4, <1>6, <1>7, <2>3
<1>9. CASE v.op = "realloc"
  <2>1. PICK w : w = WithResult(v, NoTSD, p)
      OBVIOUS
  <2>2. /\ Same(w, v) /\ w.tsd = NoTSD /\ w.result = p
        /\ w.batches = v.batches /\ w.todo = v.todo
      BY <1>1, <2>1, WorkFields
  <2>3. live' = live /\ Goes(t, "mark", w)
      BY <1>9, <2>1 DEF InitChunk, Step, Goes, WithResult
  <2>4. p # v.ptr => Shape("mark", w)
      BY <1>1, <1>4, <1>9, <2>2 DEF Shape, Same, Asked, Wants
  <2>5. Grip("mark", w) = "held"
      BY DEF Grip, Delivered, Marked
  <2>6. {w.result, w.ptr} \ {None} = ({v.ptr} \ {None}) \cup {p}
      BY <1>4, <2>2 DEF Same
  <2>7. InitGoes(t, p, HeldPlace(t), "mark", w)
    <3>1. /\ HeldBy("mark", w) = HeldBy(pc[t], v) \cup {p}
          /\ MarkedBy("mark", w) = {} /\ PtrAt("put", "mark", w) = {}
          /\ PtrAt("unmap", "mark", w) = {}
        BY <1>1, <2>5, <2>6, Grips
    <3> QED
        BY <1>1, <2>2, <2>3, <2>4, <3>1 DEF InitGoes
  <2> QED
      BY <1>4, <1>6, <1>7, <2>7
<1> QED
    BY <1>1, <1>8, <1>9

\* The unmapped blocks are the Secondary's.
LEMMA UnmappedFacts ==
    ASSUME NEW T, NEW hd, NEW mk, Owned(T, hd, mk)
    PROVE  T[UnmappedPlace] \subseteq SecondaryBlocks
<1>1. PICK loc : Located(loc, T, hd, mk)
    BY DEF Owned
<1>2. UnmappedPlace \in BlockPlaces
    BY DEF UnmappedPlace, Place, BlockPlaces
<1>3. ASSUME NEW b \in T[UnmappedPlace] PROVE b \in SecondaryBlocks
  <2>1. b \in Blocks /\ loc[b] = UnmappedPlace
      BY <1>1, <1>2 DEF Located
  <2>2. Ruled(UnmappedPlace, b, hd, mk)
      BY <1>1, <2>1 DEF Located
  <2> QED
      BY <1>2, <2>2 DEF Ruled, BlockRule
<1> QED
    BY <1>3

\* The places of a call before the new chunk, and after.
LEMMA InitViews ==
    ASSUME LockInv, Accounted, Continues, CachesFit, NEW t \in Threads, NEW x, OnlyCaches(x),
           NEW p, NEW Q, NEW stage, NEW work, InitGoes(t, p, Q, stage, work),
           NEW T, T = Table, NEW T2, T2 = Table',
           NEW P, P \subseteq BlockPlaces,
           UNCHANGED <<quarantine, pending>>,
           free' = free \/ FreePlace \in P, unmapped' = unmapped \/ UnmappedPlace \in P,
           cache' = cache \/ CachePlace(x) \in P
    PROVE  /\ Shows(T, t, x, free, unmapped, live, quarantine, cache, pending, pc[t], job[t])
           /\ Shows(T2, t, x, free', unmapped', live', quarantine', cache', pending', stage, work)
           /\ SameBut(P \cup {Q}, T, T2)
           /\ T2[Q] = T[Q] \cup {p}
<1>1. PICK S : S = P \cup {Q}
    OBVIOUS
<1>2. Goes(t, stage, work)
    BY DEF InitGoes
<1>3. Untouched(S, t, x, stage, work)
    BY <1>1 DEF Untouched, InitGoes
<1>4. /\ Shows(T, t, x, free, unmapped, live, quarantine, cache, pending, pc[t], job[t])
      /\ Shows(T2, t, x, free', unmapped', live', quarantine', cache', pending', stage, work)
      /\ SameBut(S, T, T2)
    BY <1>2, <1>3, Moved
<1>5. T2[Q] = T[Q] \cup {p}
    BY <1>4 DEF Shows, InitGoes
<1> QED
    BY <1>1, <1>4, <1>5

\* It ends well when the new chunk is another one than the old.
LEMMA InitEnds ==
    ASSUME LockInv, Accounted, Continues, CachesFit, NEW t \in Threads, pc[t] \in {"map", "pop"},
           NEW x, NEW p, p # None, NEW Q, NEW stage, NEW work, InitGoes(t, p, Q, stage, work),
           NEW T, T = Table,
           Shows(T, t, x, free, unmapped, live, quarantine, cache, pending, pc[t], job[t]),
           NEW T2, T2 = Table', IsNew(T, header, p, header'), Owned(T2, header', marker')
    PROVE  Accounted'
<1>1. PICK v : v = job[t]
    OBVIOUS
<1>2. /\ v.op \in {"malloc", "realloc"}
      /\ v.op = "malloc" => v.ptr = None
      /\ v.op = "realloc" => v.ptr # None
      /\ HeldBy(pc[t], v) = {v.ptr} \ {None}
    BY <1>1, WantsAt
<1>3. T[HeldPlace(t)] = HeldBy(pc[t], v)
    BY <1>1 DEF Shows
<1>4. p # v.ptr
    BY <1>2, <1>3, LiveAndHeld DEF IsNew
<1>5. Goes(t, stage, work) /\ Shape(stage, work)
    BY <1>1, <1>4 DEF InitGoes
<1> QED
    BY <1>5, Carry

\* Places for blocks and the two for a new chunk.
LEMMA PlacesApart ==
    ASSUME NEW t \in Threads, NEW Q \in {LivePlace, HeldPlace(t)}
    PROVE  /\ Q \in PtrPlaces /\ Q \in Places /\ Q \notin BlockPlaces
           /\ UnmappedPlace \in BlockPlaces /\ FreePlace \in BlockPlaces
           /\ UnmappedPlace \in Places /\ FreePlace \in Places
           /\ \A x \in TSDs : CachePlace(x) \in BlockPlaces /\ CachePlace(x) \in Places
<1>1. Q \in PtrPlaces
    BY HandPlaces
<1>2. UnmappedPlace \in BlockPlaces /\ FreePlace \in BlockPlaces
    BY DEF UnmappedPlace, FreePlace, Place, BlockPlaces
<1>3. \A x \in TSDs : CachePlace(x) \in BlockPlaces
    BY DEF CachePlace, Place, BlockPlaces
<1> QED
    BY <1>1, <1>2, <1>3, PlacesDiffer DEF Places

\* The end of a resize that finds no block: the program keeps the old chunk.
LEMMA NoFit ==
    ASSUME LockInv, Accounted, NEW t \in Threads, pc[t] = "map",
           Continues, UNCHANGED <<free, unmapped, cache, quarantine, pending, header, marker>>,
           live' = live \cup ({job[t].ptr} \ {None}), Step(t, "idle", NoJob)
    PROVE  Accounted'
<1>1. PICK v : v = job[t]
    OBVIOUS
<1>2. PICK A : A = {v.ptr} \ {None}
    OBVIOUS
<1>3. /\ HeldBy(pc[t], v) = A /\ MarkedBy(pc[t], v) = {}
      /\ PtrAt("put", pc[t], v) = {} /\ PtrAt("unmap", pc[t], v) = {} /\ v.batches = <<>>
    BY <1>1, <1>2, WantsAt
<1>4. PICK S : S = {}
    OBVIOUS
<1>5. Hands(t, "idle", NoJob)
    BY <1>1, <1>2, <1>3, IdleShape DEF Hands, Goes, Step
<1>6. CachesFit /\ OnlyCaches(NoTSD)
    BY CachesStay DEF OnlyCaches
<1>7. PICK S2 : S2 = S \cup {LivePlace, HeldPlace(t)}
    OBVIOUS
<1>8. Untouched(S2, t, NoTSD, "idle", NoJob)
    BY <1>1, <1>3, <1>7, IdleShape DEF Untouched
<1>9. PICK T : T = Table
    OBVIOUS
<1>10. PICK T2 : T2 = Table'
    OBVIOUS
<1>11. PICK T1 : /\ DOMAIN T1 = Places /\ SameBut(S, T, T1)
                 /\ Owned(T1, header', marker') => Accounted'
  <2>1. S \subseteq Places /\ LivePlace \notin S /\ HeldPlace(t) \notin S
      BY <1>4
  <2> QED
      BY <1>5, <1>6, <1>7, <1>8, <1>9, <1>10, <2>1, Opens
<1>12. Moves(T, T1, LivePlace, {}, HeldPlace(t), {})
  <2>1. T1[LivePlace] = T[LivePlace] /\ T1[HeldPlace(t)] = T[HeldPlace(t)]
      BY <1>4, <1>11, LiveAndHeld DEF SameBut, Places
  <2> QED
      BY <1>4, <1>11, <2>1 DEF Moves, SameBut
<1>13. Owned(T, header, marker)
    BY <1>9 DEF Accounted
<1>14. {} \in SUBSET T[LivePlace] /\ \A q \in {} : PtrRule(HeldPlace(t), q, header[q])
    OBVIOUS
<1>15. Owned(T1, header, marker)
    BY <1>12, <1>13, <1>14, LiveAndHeld, MovePtrs
<1> QED
    BY <1>11, <1>15

\* Secondary.allocate.
LEMMA MapOwned ==
    ASSUME LockInv, Accounted, NEW t \in Threads, Map(t) PROVE Accounted'
<1>1. PICK v : v = job[t]
    OBVIOUS
<1>2. PICK fitting : fitting = {b \in unmapped : UserPtr(b, v.align) + v.size <= BlockEnd(b, 0)}
    OBVIOUS
<1>3. /\ pc[t] = "map" /\ Continues
      /\ UNCHANGED <<free, cache, quarantine, pending>>
    BY DEF Map, At, Continues, registryVars, quarantineVars
<1>4. CASE fitting = {}
  <2>1. /\ UNCHANGED <<unmapped, header, marker>>
        /\ live' = live \cup ({v.ptr} \ {None}) /\ Step(t, "idle", NoJob)
      BY <1>1, <1>2, <1>4 DEF Map, Return
  <2> QED
      BY <1>1, <1>3, <2>1, NoFit
<1>5. CASE fitting # {}
  <2>1. PICK block : block = Min(fitting)
      OBVIOUS
  <2>2. unmapped' = unmapped \ {block} /\ InitChunk(t, block, 0)
      BY <1>1, <1>2, <1>5, <2>1 DEF Map
  <2>3. PICK T : T = Table
      OBVIOUS
  <2>4. PICK T2 : T2 = Table'
      OBVIOUS
  <2>5. Owned(T, header, marker) /\ T[UnmappedPlace] = unmapped
      BY <2>3, Lookups DEF Accounted, Table
  <2>6. unmapped \subseteq SecondaryBlocks
      BY <2>5, UnmappedFacts
  <2>7. block \in fitting
    <3>1. fitting \in SUBSET Nat
      <4>1. SecondaryBlocks \subseteq Nat
          BY ApartAssumption DEF ApartAssumption
      <4> QED
          BY <1>2, <2>6, <4>1
    <3> QED
        BY <1>5, <2>1, <3>1, MinIn
  <2>8. /\ block \in unmapped /\ block \in Blocks /\ ClassOfBlock(block) = 0
        /\ UserPtr(block, v.align) + v.size <= EndOf(block)
    <3>1. block \in unmapped /\ UserPtr(block, v.align) + v.size <= BlockEnd(block, 0)
        BY <1>2, <2>7
    <3>2. block \in Blocks /\ ClassOfBlock(block) = 0
        BY <2>6, <3>1, BlockFacts
    <3> QED
        BY <3>1, <3>2 DEF EndOf
  <2>9. PICK p : p = UserPtr(block, v.align)
      OBVIOUS
  <2>10. PICK Q, h, stage, work :
           /\ InitGoes(t, p, Q, stage, work) /\ Q \in {LivePlace, HeldPlace(t)}
           /\ Begins(p, block, h) /\ PtrRule(Q, p, h) /\ p # None
           /\ header' = Written(header, block, p, h)
           /\ marker' = [marker EXCEPT ![block] = h.offset]
      BY <1>1, <1>3, <2>2, <2>8, <2>9, InitFacts
  <2>11. CachesFit /\ OnlyCaches(NoTSD)
      BY <1>3, CachesStay DEF OnlyCaches
  <2>12. PICK P : P = {UnmappedPlace}
      OBVIOUS
  <2>13. P \subseteq BlockPlaces /\ UnmappedPlace \in P /\ UnmappedPlace # Q
      BY <2>10, <2>12, PlacesApart
  <2>14. /\ Shows(T, t, NoTSD, free, unmapped, live, quarantine, cache, pending, pc[t], job[t])
         /\ Shows(T2, t, NoTSD, free', unmapped', live', quarantine', cache', pending', stage, work)
         /\ SameBut(P \cup {Q}, T, T2)
         /\ T2[Q] = T[Q] \cup {p}
      BY <1>3, <2>3, <2>4, <2>10, <2>11, <2>13, InitViews
  <2>15. T2[UnmappedPlace] = T[UnmappedPlace] \ {block}
      BY <2>2, <2>14 DEF Shows
  <2>16. Moves(T, T2, UnmappedPlace, {block}, Q, {p})
      BY <2>12, <2>14, <2>15 DEF Moves, SameBut
  <2>17. /\ Owned(T2, Written(header, block, p, h), [marker EXCEPT ![block] = h.offset])
         /\ IsNew(T, header, p, Written(header, block, p, h))
    <3>1. block \in T[UnmappedPlace] /\ Q \in PtrPlaces /\ UnmappedPlace \in BlockPlaces
        BY <2>5, <2>8, <2>10, PlacesApart
    <3> QED
        BY <2>5, <2>10, <2>16, <3>1, Claim
  <2>18. Owned(T2, header', marker') /\ IsNew(T, header, p, header')
      BY <2>10, <2>17
  <2> QED
      BY <1>3, <2>3, <2>4, <2>10, <2>11, <2>14, <2>18, InitEnds
<1> QED
    BY <1>4, <1>5

\* A class that serves a request has blocks that are large enough.
LEMMA ServingFits ==
    ASSUME NEW work, Asked(work), CanAllocate(work.size, work.align),
           NEW c \in ClassesFor(work), NEW block \in BlocksOf(c)
    PROVE  /\ c \in ClassIds /\ block \in Blocks /\ ClassOfBlock(block) = c
           /\ UserPtr(block, work.align) + work.size <= EndOf(block)
<1>1. PICK n, a, s : n = NeededSize(work.size, work.align) /\ a = work.align /\ s = work.size
    OBVIOUS
<1>2. a \in Nat \ {0} /\ s \in Nat
    BY <1>1, LayoutAssumption DEF Asked, LayoutAssumption
<1>3. n = s + (IF a > 1 THEN a ELSE 1)
    BY <1>1 DEF NeededSize, MinAlignment, HeaderSize
<1>4. MaxSize \in Nat /\ n <= MaxSize
    BY <1>1, ClassesAssumption DEF CanAllocate, ClassesAssumption
<1>5. n = s + a /\ n \in 1 .. MaxSize
    BY <1>2, <1>3, <1>4
<1>6. /\ ClassOf(n) \in ClassIds /\ LargestClassId \in Nat
      /\ \A d \in ClassIds : SizeOf(d) \in 1 .. MaxSize /\ (SizeOf(d) >= n <=> d >= ClassOf(n))
    BY <1>5, ClassesAssumption DEF ClassesAssumption
<1>7. c \in ClassIds /\ c >= ClassOf(n)
  <2>1. c \in ClassOf(n) .. LargestClassId
      BY <1>1 DEF ClassesFor
  <2> QED
      BY <1>6, <2>1 DEF ClassIds
<1>8. SizeOf(c) \in Nat /\ SizeOf(c) >= n
    BY <1>4, <1>6, <1>7
<1>9. block \in Blocks /\ ClassOfBlock(block) = c /\ c # 0
    BY <1>7, BlockFacts
<1>10. EndOf(block) = block + SizeOf(c) /\ block \in Nat
    BY <1>9, BlocksApart DEF EndOf, BlockEnd
<1>11. UserPtr(block, a) \in Nat /\ UserPtr(block, a) <= block + a
    BY <1>2, <1>9, UserPtrFacts
<1>12. UserPtr(block, a) + s <= EndOf(block)
    BY <1>2, <1>5, <1>8, <1>10, <1>11
<1> QED
    BY <1>1, <1>7, <1>9, <1>12

\* The cache in hand and the free blocks.
LEMMA StockAt ==
    ASSUME NEW t \in Threads
    PROVE  IsStock(Stock(t)) /\ Stock(t).cache = cache[job[t].tsd] /\ Stock(t).free = free
<1>1. PICK ca, fr : ca = cache[job[t].tsd] /\ fr = free
    OBVIOUS
<1>2. PICK r : r = [cache |-> ca, free |-> fr]
    OBVIOUS
<1>3. Stock(t) = r
    BY <1>1, <1>2 DEF Stock
<1>4. r \in [cache : {ca, fr}, free : {ca, fr}] /\ r.cache = ca /\ r.free = fr
    BY <1>2
<1>5. IsStock(r)
    BY <1>4 DEF IsStock
<1> QED
    BY <1>1, <1>3, <1>4, <1>5

\* SetStock changes the cache of one TSD.
LEMMA StockSet ==
    ASSUME Accounted, NEW t \in Threads, NEW x \in TSDs, x = job[t].tsd, NEW acc, SetStock(t, acc)
    PROVE  /\ cache'[x] = acc.cache /\ free' = acc.free /\ DOMAIN cache' = AllTSDs
           /\ \A y \in TSDs \ {x} : cache'[y] = cache[y]
<1>1. DOMAIN cache = AllTSDs /\ TSDs \subseteq AllTSDs
    BY DEF Accounted, TSDs, AllTSDs, TSDLocks
<1>2. cache' = [cache EXCEPT ![x] = acc.cache] /\ free' = acc.free
    BY DEF SetStock
<1> QED
    BY <1>1, <1>2

\* The classes tried for a request that the Primary can serve.
LEMMA ServingClass ==
    ASSUME NEW work, Asked(work), CanAllocate(work.size, work.align)
    PROVE  /\ ClassesFor(work) \subseteq ClassIds /\ ClassesFor(work) \subseteq Nat
           /\ \A S \in SUBSET ClassesFor(work) : S # {} => Min(S) \in S
<1>1. PICK m, a, s : m = NeededSize(work.size, work.align) /\ a = work.align /\ s = work.size
    OBVIOUS
<1>2. a \in Nat \ {0} /\ s \in Nat
    BY <1>1, LayoutAssumption DEF Asked, LayoutAssumption
<1>3. m = s + (IF a > 1 THEN a ELSE 1)
    BY <1>1 DEF NeededSize, MinAlignment, HeaderSize
<1>4. MaxSize \in Nat /\ m <= MaxSize
    BY <1>1, ClassesAssumption DEF CanAllocate, ClassesAssumption
<1>5. m \in 1 .. MaxSize
    BY <1>2, <1>3, <1>4
<1>6. ClassOf(m) \in ClassIds /\ LargestClassId \in Nat
    BY <1>5, ClassesAssumption DEF ClassesAssumption
<1>7. ClassesFor(work) = ClassOf(m) .. LargestClassId
    BY <1>1 DEF ClassesFor
<1>8. ClassesFor(work) \subseteq ClassIds /\ ClassesFor(work) \subseteq Nat
    BY <1>6, <1>7 DEF ClassIds
<1> QED
    BY <1>8, MinIn

\* The Primary part of allocate.
LEMMA PopOwned ==
    ASSUME LockInv, Accounted, NEW t \in Threads, Pop(t) PROVE Accounted'
<1>1. PICK v : v = job[t]
    OBVIOUS
<1>2. PICK stock : stock = Stock(t)
    OBVIOUS
<1>3. PICK serving : serving = {c \in ClassesFor(v) : CacheAllocate(stock, c).block # None}
    OBVIOUS
<1>4. /\ pc[t] = "pop" /\ Continues
      /\ UNCHANGED <<unmapped, quarantine, pending>>
    BY DEF Pop, At, Continues, registryVars, quarantineVars
<1>5. PICK x \in TSDs : x = v.tsd
    BY <1>1, <1>4, ShapeAt DEF InHand
<1>6. /\ IsJob(v) /\ Shape(pc[t], v) /\ v.op \in {"malloc", "realloc"} /\ v.result = None
      /\ v.batches = <<>> /\ Asked(v) /\ Wants(v)
    BY <1>1, <1>4, WantsAt
<1>7. CanAllocate(v.size, v.align)
    BY <1>4, <1>6 DEF Shape
<1>8. CASE serving = {}
  <2>1. PICK w : w = WithTSD(v, NoTSD)
      OBVIOUS
  <2>2. /\ Step(t, "map", w) /\ UNCHANGED <<cache, free, header, marker, live>>
      BY <1>1, <1>2, <1>3, <1>8, <2>1 DEF Pop, WithTSD, chunkVars
  <2>3. Plain
      BY <1>4, <2>2 DEF Plain, HeapStays
  <2>4. /\ Same(w, v) /\ w.tsd = NoTSD /\ w.result = v.result
        /\ w.batches = v.batches /\ w.todo = v.todo
      BY <1>6, <2>1, WorkFields
  <2>5. Shape("map", w)
      BY <1>4, <1>6, <2>4 DEF Shape, Same, Asked, Wants
  <2>6. Grip("map", w) = "held" /\ Grip("pop", v) = "held"
      BY DEF Grip, Delivered, Marked
  <2> QED
      BY <1>1, <1>4, <2>2, <2>3, <2>4, <2>5, <2>6, GoesOn DEF Same
<1>9. CASE serving # {}
  <2>1. PICK c : c = Min(serving)
      OBVIOUS
  <2>2. PICK got : got = CacheAllocate(stock, c)
      OBVIOUS
  <2>3. SetStock(t, got.acc) /\ InitChunk(t, got.block, c)
      BY <1>1, <1>2, <1>3, <1>9, <2>1, <2>2 DEF Pop
  <2>4. c \in ClassesFor(v) /\ got.block # None
    <3>1. serving \subseteq ClassesFor(v)
        BY <1>3
    <3>2. c \in serving
        BY <1>6, <1>7, <1>9, <2>1, <3>1, ServingClass
    <3> QED
        BY <1>3, <2>2, <3>2
  <2>5. IsStock(stock) /\ stock.cache = cache[x] /\ stock.free = free
      BY <1>1, <1>2, <1>5, StockAt
  <2>6. PICK block : block = got.block
      OBVIOUS
  <2>7. c \in ClassIds
      BY <1>6, <1>7, <2>4, ServingClass
  <2>8. block \in BlocksOf(c)
      BY <2>2, <2>4, <2>5, <2>6, <2>7, AllocateFacts
  <2>9. /\ block \in Blocks /\ ClassOfBlock(block) = c
        /\ UserPtr(block, v.align) + v.size <= EndOf(block)
      BY <1>6, <1>7, <2>4, <2>8, ServingFits
  <2>10. PICK p : p = UserPtr(block, v.align)
      OBVIOUS
  <2>11. PICK Q, h, stage, work :
           /\ InitGoes(t, p, Q, stage, work) /\ Q \in {LivePlace, HeldPlace(t)}
           /\ Begins(p, block, h) /\ PtrRule(Q, p, h) /\ p # None
           /\ header' = Written(header, block, p, h)
           /\ marker' = [marker EXCEPT ![block] = h.offset]
      BY <1>1, <1>4, <2>3, <2>6, <2>9, <2>10, InitFacts
  <2>12. /\ cache'[x] = got.acc.cache /\ free' = got.acc.free /\ DOMAIN cache' = AllTSDs
         /\ \A y \in TSDs \ {x} : cache'[y] = cache[y]
      BY <1>1, <1>5, <2>3, StockSet
  <2>13. CachesFit /\ OnlyCaches(x)
      BY <1>4, <2>12 DEF CachesFit, OnlyCaches, Accounted
  <2>14. PICK T : T = Table
      OBVIOUS
  <2>15. PICK T2 : T2 = Table'
      OBVIOUS
  <2>16. PICK P : P = {CachePlace(x), FreePlace}
      OBVIOUS
  <2>17. P \subseteq BlockPlaces /\ CachePlace(x) \in P /\ FreePlace \in P
      BY <2>16, CacheIsPlace
  <2>18. /\ Shows(T, t, x, free, unmapped, live, quarantine, cache, pending, pc[t], job[t])
         /\ Shows(T2, t, x, free', unmapped', live', quarantine', cache', pending', stage, work)
         /\ SameBut(P \cup {Q}, T, T2)
         /\ T2[Q] = T[Q] \cup {p}
      BY <1>4, <2>11, <2>13, <2>14, <2>15, <2>17, InitViews
  <2>19. Owned(T, header, marker) /\ DOMAIN T = Places
      BY <2>14, <2>18 DEF Accounted, Shows
  <2>20. /\ stock.cache = T[CachePlace(x)] /\ stock.free = T[FreePlace]
         /\ T2[CachePlace(x)] = got.acc.cache /\ T2[FreePlace] = got.acc.free
      BY <2>5, <2>12, <2>18 DEF Shows
  <2>21. \A R \in Places \ {Q, CachePlace(x), FreePlace} : T2[R] = T[R]
      BY <2>16, <2>18 DEF SameBut
  <2>22. Q \in PtrPlaces
      BY <2>11, PlacesApart
  <2>23. PICK hd2 : hd2 = Written(header, block, p, h)
      OBVIOUS
  <2>24. /\ Owned(T2, hd2, [marker EXCEPT ![block] = h.offset])
         /\ IsNew(T, header, p, hd2)
    <3>1. PICK hd, mk : hd = header /\ mk = marker
        OBVIOUS
    <3>2. Owned(T, hd, mk) /\ hd2 = Written(hd, got.block, p, h)
        BY <2>6, <2>19, <2>23, <3>1
    <3>3. T2[Q] = T[Q] \cup {p} /\ Begins(p, got.block, h) /\ PtrRule(Q, p, h)
        BY <2>6, <2>11, <2>18
    <3>4. /\ Owned(T2, hd2, [mk EXCEPT ![got.block] = h.offset])
          /\ IsNew(T, hd, p, hd2)
        BY ONLY <2>2, <2>4, <2>5, <2>7, <2>19, <2>20, <2>21, <2>22, <3>2, <3>3, x \in TSDs,
           ClaimFromCache
    <3> QED
        BY <2>6, <3>1, <3>4
  <2>25. Owned(T2, header', marker') /\ IsNew(T, header, p, header')
      BY <2>11, <2>23, <2>24
  <2> QED
      BY <1>4, <2>11, <2>13, <2>14, <2>15, <2>18, <2>25, InitEnds
<1> QED
    BY <1>8, <1>9

-----------------------------------------------------------------------------
(* After the pointer of a call has been delivered.                         *)

\* The call goes on, and has no pointer in its hands but the result.
Advances(t, stage, work) ==
    /\ Hands(t, stage, work)
    /\ MarkedBy(stage, work) = {} /\ PtrAt("put", stage, work) = {}
    /\ PtrAt("unmap", stage, work) = {}

\* Stages at which it has not.
GivenUp == Delivered \cup {"put"}

\* A call ends, and the program has its result.
LEMMA Finishes ==
    ASSUME LockInv, Accounted, NEW t \in Threads, Grip(pc[t], job[t]) # "held", Finish(t)
    PROVE  Advances(t, "idle", NoJob)
<1>1. PICK v : v = job[t]
    OBVIOUS
<1>2. HeldBy(pc[t], v) = {v.result} \ {None}
    BY <1>1, Grips
<1>3. live' = live \cup HeldBy(pc[t], v) /\ Goes(t, "idle", NoJob)
    BY <1>1, <1>2 DEF Finish, Return, Step, Goes
<1> QED
    BY <1>1, <1>3, IdleShape DEF Advances, Hands

\* It goes on to a later stage.
LEMMA GoesForward ==
    ASSUME LockInv, Accounted, NEW t \in Threads, pc[t] \in GivenUp,
           NEW stage \in Delivered, NEW work, Goes(t, stage, work), live' = live,
           Same(work, job[t]), work.tsd = job[t].tsd, work.result = job[t].result,
           work.todo = job[t].todo,
           Tidy(work.batches), stage \in {"unlock", "scrub"} \/ work.batches = <<>>,
           stage = "scrub" => work.batches # <<>>
    PROVE  Advances(t, stage, work)
<1>1. PICK v : v = job[t]
    OBVIOUS
<1>2. PICK s : s = pc[t]
    OBVIOUS
<1>3. Shape(s, v)
    BY <1>1, <1>2, ShapeAt
<1>4. s \in {"put", "transfer", "tryrecycle", "lockrecycle", "recycle", "unlock", "scrub"}
    BY <1>2 DEF GivenUp, Delivered
<1>5. Same(work, v) /\ work.tsd = v.tsd /\ work.result = v.result /\ work.todo = v.todo
    BY <1>1
<1>6. Shape(stage, work)
  <2>1. stage \notin {"aborted", "idle", "init", "attach", "resize", "map", "pop", "mark", "unmap",
                      "push", "put", "take", "fallback", "slow", "await"}
      BY DEF Delivered
  <2> QED
      BY <1>3, <1>5, <2>1 DEF Shape, Same, Asked
<1>7. Grip(s, v) \in {"gone", "put"} /\ Grip(stage, work) = "gone"
    BY <1>4 DEF Grip, Delivered
<1>8. HeldBy(s, v) = {v.result} \ {None}
    BY <1>7, Grips
<1>9. /\ HeldBy(stage, work) = {work.result} \ {None} /\ MarkedBy(stage, work) = {}
      /\ PtrAt("put", stage, work) = {} /\ PtrAt("unmap", stage, work) = {}
    BY <1>7, Grips
<1> QED
    BY <1>1, <1>2, <1>5, <1>6, <1>8, <1>9 DEF Advances, Hands

\* It is through with the quarantine.
LEMMA QuarantineEnds ==
    ASSUME LockInv, Accounted, NEW t \in Threads, pc[t] \in GivenUp, NEW locks,
           EndQuarantine(t, locks)
    PROVE  \E stage, work : Advances(t, stage, work) /\ work.batches = <<>>
<1>1. PICK v : v = job[t]
    OBVIOUS
<1>2. PICK s : s = pc[t]
    OBVIOUS
<1>3. Shape(s, v) /\ IsJob(v)
    BY <1>1, <1>2, ShapeAt
<1>4. s \in {"put", "transfer", "tryrecycle", "lockrecycle", "recycle", "unlock", "scrub"}
    BY <1>2 DEF GivenUp, Delivered
<1>5. Grip(s, v) \in {"gone", "put"}
    BY <1>4 DEF Grip, Delivered
<1>6. CASE v.op \in {"drain", "exit"}
  <2>1. PICK w : w = WithBatches(v, <<>>)
      OBVIOUS
  <2>2. Goes(t, "flush", w) /\ live' = live
      BY <1>1, <1>6, <2>1 DEF EndQuarantine, Step, Goes, WithBatches
  <2>3. /\ Same(w, v) /\ w.tsd = v.tsd /\ w.result = v.result
        /\ w.batches = <<>> /\ w.todo = v.todo
      BY <1>3, <2>1, WorkFields
  <2>4. v.ptr = None /\ v.result = None
      BY <1>3, <1>6 DEF Shape
  <2>5. Shape("flush", w)
      BY <1>3, <1>6, <2>3, EmptyList DEF Shape, Same, Asked
  <2>6. Grip("flush", w) = "held"
    <3>1. w.op # "free" /\ w.result = None
        BY <1>6, <2>3, <2>4 DEF Same
    <3> QED
        BY <3>1 DEF Grip, Delivered, Marked
  <2>7. /\ HeldBy("flush", w) = {w.result, w.ptr} \ {None} /\ MarkedBy("flush", w) = {}
        /\ PtrAt("put", "flush", w) = {} /\ PtrAt("unmap", "flush", w) = {}
      BY <2>6, Grips
  <2>8. HeldBy(s, v) = {v.result} \ {None}
      BY <1>5, Grips
  <2>9. HeldBy("flush", w) = HeldBy(s, v)
      BY <2>3, <2>4, <2>7, <2>8 DEF Same
  <2>10. Advances(t, "flush", w)
      BY <1>1, <1>2, <2>2, <2>5, <2>7, <2>9 DEF Advances, Hands
  <2> QED
      BY <2>3, <2>10
<1>7. CASE v.op \notin {"drain", "exit"}
  <2>1. Finish(t)
      BY <1>1, <1>7 DEF EndQuarantine
  <2>2. Advances(t, "idle", NoJob)
      BY <1>1, <1>2, <1>5, <2>1, Finishes
  <2> QED
      BY <2>2, IdleShape
<1> QED
    BY <1>6, <1>7

\* Where all places hold what they held.
LEMMA Unmoved ==
    ASSUME NEW T, NEW hd, NEW mk, Owned(T, hd, mk), NEW t \in Threads,
           NEW T1, \A R \in Places : T1[R] = T[R]
    PROVE  Owned(T1, hd, mk)
<1>1. LivePlace \in Places /\ HeldPlace(t) \in Places
    BY LiveAndHeld DEF Places
<1>2. Moves(T, T1, LivePlace, {}, HeldPlace(t), {})
    BY <1>1 DEF Moves
<1>3. {} \in SUBSET T[LivePlace] /\ \A q \in {} : PtrRule(HeldPlace(t), q, hd[q])
    OBVIOUS
<1> QED
    BY <1>2, <1>3, LiveAndHeld, MovePtrs

\* At these stages a call has nothing in its hands but its result.
LEMMA NothingMarked ==
    ASSUME NEW stage \in Delivered, NEW work
    PROVE  /\ MarkedBy(stage, work) = {} /\ PtrAt("put", stage, work) = {}
           /\ PtrAt("unmap", stage, work) = {}
<1>1. Grip(stage, work) = "gone"
    BY DEF Grip
<1> QED
    BY <1>1, Grips

\* A step that does no more than to go on.
LEMMA AdvanceOwned ==
    ASSUME LockInv, Accounted, NEW t \in Threads, pc[t] \in Delivered, Continues,
           UNCHANGED <<free, unmapped, cache, quarantine, pending, header, marker>>,
           NEW stage, NEW work, Advances(t, stage, work), work.batches = job[t].batches
    PROVE  Accounted'
<1>1. PICK v : v = job[t]
    OBVIOUS
<1>2. PICK S : S = {}
    OBVIOUS
<1>3. CachesFit /\ OnlyCaches(NoTSD)
    BY CachesStay DEF OnlyCaches
<1>4. PICK S2 : S2 = S \cup {LivePlace, HeldPlace(t)}
    OBVIOUS
<1>5. /\ MarkedBy(pc[t], v) = {} /\ PtrAt("put", pc[t], v) = {} /\ PtrAt("unmap", pc[t], v) = {}
    BY NothingMarked
<1>6. Untouched(S2, t, NoTSD, stage, work)
    BY <1>1, <1>4, <1>5 DEF Untouched, Advances
<1>7. PICK T : T = Table
    OBVIOUS
<1>8. PICK T2 : T2 = Table'
    OBVIOUS
<1>9. PICK T1 : /\ DOMAIN T1 = Places /\ SameBut(S, T, T1)
                /\ Owned(T1, header', marker') => Accounted'
  <2>1. S \subseteq Places /\ LivePlace \notin S /\ HeldPlace(t) \notin S
      BY <1>2
  <2> QED
      BY <1>3, <1>4, <1>6, <1>7, <1>8, <2>1, Opens DEF Advances
<1>10. \A R \in Places : T1[R] = T[R]
    BY <1>2, <1>9 DEF SameBut
<1>11. Owned(T, header, marker)
    BY <1>7 DEF Accounted
<1>12. Owned(T1, header, marker)
    BY <1>10, <1>11, Unmoved
<1> QED
    BY <1>9, <1>12

\* RecycleMutex, taken and released.
LEMMA RecycleLockOwned ==
    ASSUME LockInv, Accounted, NEW t \in Threads,
           TryRecycle(t) \/ LockRecycle(t) \/ UnlockRecycle(t)
    PROVE  Accounted'
<1>1. PICK v : v = job[t]
    OBVIOUS
<1>2. PICK s : s = pc[t]
    OBVIOUS
<1>3. /\ s \in {"tryrecycle", "lockrecycle", "unlock"} /\ Continues
      /\ UNCHANGED <<free, unmapped, cache, quarantine, pending, header, marker>>
    BY <1>2 DEF TryRecycle, LockRecycle, UnlockRecycle, At, Continues, registryVars, heapVars,
                quarantineVars, chunkVars
<1>4. s \in Delivered /\ pc[t] \in GivenUp
    BY <1>2, <1>3 DEF Delivered, GivenUp
<1>5. Shape(s, v) /\ IsJob(v)
    BY <1>1, <1>2, ShapeAt
<1>6. Same(v, v) /\ Tidy(v.batches) /\ (s # "unlock" => v.batches = <<>>)
    BY <1>3, <1>5 DEF Same, Shape
<1>7. ASSUME NEW stage \in Delivered, Goto(t, stage), live' = live,
             IF stage = "recycle" THEN s # "unlock" ELSE stage = "scrub" /\ v.batches # <<>>
      PROVE  Advances(t, stage, v)
  <2>1. Goes(t, stage, v)
      BY <1>1, <1>7 DEF Goto, Step, Goes
  <2> QED
      BY <1>1, <1>4, <1>6, <1>7, <2>1, GoesForward
<1>8. ASSUME NEW locks, EndQuarantine(t, locks), v.batches = <<>>
      PROVE  \E stage, work : Advances(t, stage, work) /\ work.batches = v.batches
    BY <1>4, <1>8, QuarantineEnds
<1>9. "recycle" \in Delivered /\ "scrub" \in Delivered
    BY DEF Delivered
<1>10. \E stage, work : Advances(t, stage, work) /\ work.batches = v.batches
  <2>1. CASE TryRecycle(t)
    <3>1. s = "tryrecycle" /\ v.batches = <<>>
        BY <1>2, <1>6, <2>1 DEF TryRecycle, At
    <3>2. CASE Goto(t, "recycle") /\ live' = live
        BY <1>7, <1>9, <3>1, <3>2
    <3>3. CASE EndQuarantine(t, lock)
        BY <1>8, <3>1, <3>3
    <3> QED
        BY <2>1, <3>2, <3>3 DEF TryRecycle
  <2>2. CASE LockRecycle(t)
    <3>1. s = "lockrecycle" /\ Goto(t, "recycle") /\ live' = live
        BY <1>2, <2>2 DEF LockRecycle, At, chunkVars
    <3> QED
        BY <1>7, <1>9, <3>1
  <2>3. CASE UnlockRecycle(t)
    <3>1. CASE v.batches = <<>>
      <4>1. \E locks : EndQuarantine(t, locks)
          BY <1>1, <2>3, <3>1 DEF UnlockRecycle
      <4> QED
          BY <1>8, <3>1, <4>1
    <3>2. CASE v.batches # <<>>
      <4>1. Goto(t, "scrub") /\ live' = live
          BY <1>1, <2>3, <3>2 DEF UnlockRecycle
      <4> QED
          BY <1>7, <1>9, <3>2, <4>1
    <3> QED
        BY <3>1, <3>2
  <2> QED
      BY <2>1, <2>2, <2>3
<1> QED
    BY <1>1, <1>2, <1>3, <1>4, <1>10, AdvanceOwned

-----------------------------------------------------------------------------
(* drainCaches, the end of a thread, disable and enable.                   *)

\* The calls that work on no pointer.
Pointless == {"none", "drain", "disable", "exit"}

LEMMA PointlessGoesOn ==
    ASSUME LockInv, Accounted, Plain, NEW t \in Threads, job[t].op \in Pointless,
           NEW stage, NEW work, Step(t, stage, work), Shape(stage, work), work.op \in Pointless,
           work.batches = job[t].batches
    PROVE  Accounted'
<1>1. PICK v : v = job[t]
    OBVIOUS
<1>2. Shape(pc[t], v)
    BY <1>1, ShapeAt
<1>3. v.ptr = None /\ v.result = None
    BY <1>1, <1>2 DEF Shape, Pointless
<1>4. work.ptr = None /\ work.result = None
    BY DEF Shape, Pointless
<1> QED
    BY <1>1, <1>3, <1>4, GoesOn

\* Its work at a stage is done.
LEMMA PointlessEnds ==
    ASSUME LockInv, Accounted, Plain, NEW t \in Threads, job[t].op \in Pointless, Return(t),
           job[t].batches = <<>>
    PROVE  Accounted'
<1>1. NoJob.op \in Pointless /\ NoJob.batches = <<>>
    BY NewFields DEF Pointless
<1> QED
    BY <1>1, IdleShape, PointlessGoesOn DEF Return

LEMMA DrainingOwned ==
    ASSUME LockInv, Accounted, NEW t \in Threads, LockTSDs(t) \/ NextTSD(t) PROVE Accounted'
<1>1. PICK v : v = job[t]
    OBVIOUS
<1>2. PICK s : s = pc[t]
    OBVIOUS
<1>3. s \in {"locktsds", "nexttsd"} /\ Plain
    BY <1>2 DEF LockTSDs, NextTSD, At, Plain, Continues, HeapStays, registryVars, heapVars,
                quarantineVars, chunkVars
<1>4. Shape(s, v) /\ IsJob(v) /\ v.op = "drain"
    BY <1>1, <1>2, <1>3, ShapeAt, FitAt DEF Fit
<1>5. v.op \in Pointless /\ v.batches = <<>> /\ v.todo \in Seq(TSDs)
    BY <1>3, <1>4 DEF Pointless, Shape
<1>6. CASE LockTSDs(t)
  <2>1. Step(t, "nexttsd", v)
      BY <1>1, <1>6 DEF LockTSDs, Goto
  <2>2. Shape("nexttsd", v)
      BY <1>4, <1>5 DEF Shape
  <2> QED
      BY <1>1, <1>3, <1>5, <2>1, <2>2, PointlessGoesOn
<1>7. CASE NextTSD(t)
  <2>1. CASE v.todo = <<>>
    <3>1. Return(t)
        BY <1>1, <1>7, <2>1 DEF NextTSD
    <3> QED
        BY <1>1, <1>3, <1>5, <3>1, PointlessEnds
  <2>2. CASE v.todo # <<>>
    <3>1. PICK x, todo : x = Head(v.todo) /\ todo = Tail(v.todo)
        OBVIOUS
    <3>2. x \in TSDs /\ todo \in Seq(TSDs)
        BY <1>5, <2>2, <3>1
    <3>3. PICK w : w = WithNext(v, x, todo)
        OBVIOUS
    <3>4. Step(t, "transfer", w)
        BY <1>1, <1>7, <2>2, <3>1, <3>3 DEF NextTSD, WithNext
    <3>5. /\ Same(w, v) /\ w.tsd = x /\ w.result = v.result
          /\ w.batches = v.batches /\ w.todo = todo
        BY <1>4, <3>3, WorkFields
    <3>6. Shape("transfer", w)
        BY <1>4, <1>5, <3>2, <3>5 DEF Shape, Same
    <3> QED
        BY <1>1, <1>3, <1>5, <3>4, <3>5, <3>6, PointlessGoesOn DEF Same
  <2> QED
      BY <2>1, <2>2
<1> QED
    BY <1>6, <1>7

LEMMA BlockingOwned ==
    ASSUME LockInv, Accounted, NEW t \in Threads, Disabling(t) \/ Enable(t) PROVE Accounted'
<1>1. PICK v : v = job[t]
    OBVIOUS
<1>2. PICK s : s = pc[t]
    OBVIOUS
<1>3. s \in {"disabling", "disabled"} /\ Plain
    BY <1>2 DEF Disabling, Enable, At, Plain, Continues, HeapStays, heapVars,
                quarantineVars, chunkVars
<1>4. Shape(s, v) /\ IsJob(v) /\ v.op = "disable"
    BY <1>1, <1>2, <1>3, ShapeAt, FitAt DEF Fit
<1>5. v.op \in Pointless /\ v.batches = <<>>
    BY <1>3, <1>4 DEF Pointless, Shape
<1>6. CASE Disabling(t)
  <2>1. PICK todo : todo = Tail(v.todo)
      OBVIOUS
  <2>2. PICK w : w = WithTodo(v, todo)
      OBVIOUS
  <2>3. PICK stage \in {"disabling", "disabled"} : Step(t, stage, w)
      BY <1>1, <1>6, <2>1, <2>2 DEF Disabling, WithTodo
  <2>4. /\ Same(w, v) /\ w.tsd = v.tsd /\ w.result = v.result
        /\ w.batches = v.batches /\ w.todo = todo
      BY <1>4, <2>2, WorkFields
  <2>5. Shape(stage, w)
      BY <1>3, <1>4, <1>5, <2>4 DEF Shape, Same
  <2> QED
      BY <1>1, <1>3, <1>5, <2>3, <2>4, <2>5, PointlessGoesOn DEF Same
<1>7. CASE Enable(t)
  <2>1. Return(t)
      BY <1>7 DEF Enable
  <2> QED
      BY <1>1, <1>3, <1>5, <2>1, PointlessEnds
<1> QED
    BY <1>6, <1>7

LEMMA ExitingOwned ==
    ASSUME LockInv, Accounted, NEW t \in Threads, Exiting(t) PROVE Accounted'
<1>1. PICK v : v = job[t]
    OBVIOUS
<1>2. PICK s : s = pc[t]
    OBVIOUS
<1>3. s \in {"idle", "unlink"} /\ Plain
    BY <1>2 DEF Exiting, BeginExit, NextRound, TeardownThread, Unlink, At, Plain, Continues,
                HeapStays, registryVars, heapVars, quarantineVars, chunkVars
<1>4. Shape(s, v) /\ IsJob(v)
    BY <1>1, <1>2, ShapeAt
<1>5. CASE UNCHANGED <<pc, job>>
    BY <1>3, <1>5, Rests DEF Plain
<1>6. CASE Unlink(t)
  <2>1. s = "unlink" /\ Return(t)
      BY <1>2, <1>6 DEF Unlink, At
  <2>2. v.op = "exit"
      BY <1>1, <1>2, <2>1, FitAt DEF Fit
  <2>3. v.op \in Pointless /\ v.batches = <<>>
      BY <1>4, <2>1, <2>2 DEF Pointless, Shape
  <2> QED
      BY <1>1, <1>3, <2>1, <2>3, PointlessEnds
<1>7. CASE TeardownThread(t) /\ ~ UNCHANGED <<pc, job>>
  <2>1. PICK w : w = ExitJob(t)
      OBVIOUS
  <2>2. s = "idle" /\ key[t] = "due" /\ Step(t, "transfer", w)
      BY <1>2, <1>7, <2>1 DEF TeardownThread, At, callVars, ExitJob
  <2>3. v = NoJob
      BY <1>4, <2>2 DEF Shape
  <2>4. v.op \in Pointless /\ v.batches = <<>> /\ NoTSD = v.tsd
      BY <2>3, NewFields DEF Pointless
  <2>5. /\ w.op = "exit" /\ w.tsd = t /\ w.ptr = None /\ w.result = None
        /\ w.batches = <<>>
      BY <2>1, NewFields
  <2>6. t \in TSDs
    <3>1. Associated(t, s)
        BY <1>2 DEF LockInv, Sound
    <3>2. registry # "shared"
        BY <2>2, <3>1 DEF Associated
    <3> QED
        BY <3>2 DEF TSDs
  <2>7. Shape("transfer", w)
      BY <2>5, <2>6, EmptyList DEF Shape
  <2>8. w.op \in Pointless
      BY <2>5 DEF Pointless
  <2> QED
      BY <1>1, <1>3, <2>2, <2>4, <2>5, <2>7, <2>8, PointlessGoesOn
<1>8. (BeginExit(t) \/ NextRound(t)) => UNCHANGED <<pc, job>>
    BY DEF BeginExit, NextRound, callVars
<1> QED
    BY <1>5, <1>6, <1>7, <1>8 DEF Exiting

\* Cache.drain
LEMMA FlushOwned ==
    ASSUME LockInv, Accounted, NEW t \in Threads, Flush(t) PROVE Accounted'
<1>1. PICK v : v = job[t]
    OBVIOUS
<1>2. /\ pc[t] = "flush" /\ Continues /\ UNCHANGED <<unmapped, quarantine, pending, header, marker, live>>
    BY DEF Flush, At, Continues, registryVars, quarantineVars, chunkVars
<1>3. PICK x \in TSDs : x = v.tsd
    BY <1>1, <1>2, ShapeAt DEF InHand
<1>4. Shape("flush", v) /\ IsJob(v) /\ v.op \in {"drain", "exit"}
    BY <1>1, <1>2, ShapeAt, FitAt DEF Fit
<1>5. v.ptr = None /\ v.result = None /\ v.batches = <<>>
    BY <1>4 DEF Shape
<1>6. PICK stage, w : Step(t, stage, w) /\ Shape(stage, w)
                      /\ w.ptr = None /\ w.result = None /\ w.batches = v.batches
  <2>1. CASE v.op = "exit"
    <3>1. Step(t, "unlink", v)
        BY <1>1, <2>1 DEF Flush, Goto
    <3>2. Shape("unlink", v)
        BY <1>4, <1>5, <2>1 DEF Shape
    <3> QED
        BY <1>5, <3>1, <3>2
  <2>2. CASE v.op = "drain"
    <3>1. PICK w : w = WithTSD(v, NoTSD)
        OBVIOUS
    <3>2. Step(t, "nexttsd", w)
        BY <1>1, <2>2, <3>1 DEF Flush, WithTSD
    <3>3. /\ Same(w, v) /\ w.tsd = NoTSD /\ w.result = v.result
          /\ w.batches = v.batches /\ w.todo = v.todo
        BY <1>4, <3>1, WorkFields
    <3>4. Shape("nexttsd", w)
        BY <1>4, <1>5, <2>2, <3>3 DEF Shape, Same
    <3> QED
        BY <1>5, <3>2, <3>3, <3>4 DEF Same
  <2> QED
      BY <1>4, <2>1, <2>2
<1>7. SamePtrs(pc[t], v, stage, w)
    BY <1>5, <1>6, Alike
<1>8. /\ cache'[x] = {} /\ DOMAIN cache' = AllTSDs /\ free' = free \cup cache[x]
      /\ \A y \in TSDs \ {x} : cache'[y] = cache[y]
  <2>1. DOMAIN cache = AllTSDs /\ TSDs \subseteq AllTSDs
      BY DEF Accounted, TSDs, AllTSDs, TSDLocks
  <2>2. cache' = [cache EXCEPT ![x] = {}] /\ free' = free \cup cache[x]
      BY <1>1, <1>3 DEF Flush
  <2> QED
      BY <2>1, <2>2
<1>9. CachesFit /\ OnlyCaches(x)
    BY <1>2, <1>8 DEF CachesFit, OnlyCaches, Accounted
<1>10. PICK S : S = {CachePlace(x), FreePlace}
    OBVIOUS
<1>11. Goes(t, stage, w)
    BY <1>6 DEF Step, Goes
<1>12. Untouched(S, t, x, stage, w)
    BY <1>1, <1>2, <1>6, <1>7, <1>10 DEF Untouched, SamePtrs
<1>13. PICK T : T = Table
    OBVIOUS
<1>14. PICK T2 : T2 = Table'
    OBVIOUS
<1>15. /\ Shows(T, t, x, free, unmapped, live, quarantine, cache, pending, pc[t], job[t])
       /\ Shows(T2, t, x, free', unmapped', live', quarantine', cache', pending', stage, w)
       /\ SameBut(S, T, T2)
       /\ Owned(T2, header', marker') => Accounted'
    BY <1>2, <1>6, <1>9, <1>11, <1>12, <1>13, <1>14, Direct
<1>16. PICK moved : moved = cache[x]
    OBVIOUS
<1>17. Moves(T, T2, CachePlace(x), moved, FreePlace, moved)
  <2>1. /\ T[CachePlace(x)] = moved /\ T2[CachePlace(x)] = {}
        /\ T2[FreePlace] = T[FreePlace] \cup moved
      BY <1>8, <1>15, <1>16 DEF Shows
  <2> QED
      BY <1>10, <1>15, <2>1 DEF Moves, SameBut
<1>18. moved \in SUBSET T[CachePlace(x)]
    BY <1>15, <1>16 DEF Shows
<1>19. Owned(T, header, marker)
    BY <1>13 DEF Accounted
<1>20. Owned(T2, header, marker)
    BY <1>17, <1>18, <1>19, CacheIsPlace, MoveBlocks
<1> QED
    BY <1>2, <1>15, <1>20

-----------------------------------------------------------------------------
(* deallocate.                                                             *)

\* The pointer that a free gives up.
LEMMA PtrGivenUp ==
    ASSUME LockInv, Accounted, NEW t \in Threads, pc[t] \in {"push", "unmap", "put"},
           NEW v, v = job[t]
    PROVE  /\ v.ptr # None /\ Shape(pc[t], v) /\ IsJob(v) /\ v.batches = <<>>
           /\ Grip(pc[t], v) # "held"
           /\ MarkedBy(pc[t], v) = IF pc[t] = "push" THEN {v.ptr} ELSE {}
           /\ PtrAt("put", pc[t], v) = IF pc[t] = "put" THEN {v.ptr} ELSE {}
           /\ PtrAt("unmap", pc[t], v) = IF pc[t] = "unmap" THEN {v.ptr} ELSE {}
<1>1. Shape(pc[t], v) /\ IsJob(v)
    BY ShapeAt
<1>2. v.op = "free" \/ (v.op = "realloc" /\ v.result # None)
    BY <1>1 DEF Shape
<1>3. v.ptr # None /\ v.batches = <<>>
    BY <1>1, <1>2 DEF Shape
<1>4. {v.ptr} \ {None} = {v.ptr}
    BY <1>3
<1>5. CASE pc[t] = "push"
  <2>1. v.op = "free" \/ v.result # None
      BY <1>2
  <2>2. Grip(pc[t], v) = "marked"
      BY <1>5, <2>1 DEF Grip, Delivered, Marked
  <2> QED
      BY <1>1, <1>3, <1>4, <1>5, <2>2, Grips
<1>6. CASE pc[t] = "unmap"
  <2>1. Grip(pc[t], v) = "unmap"
      BY <1>6 DEF Grip, Delivered
  <2> QED
      BY <1>1, <1>3, <1>4, <1>6, <2>1, Grips
<1>7. CASE pc[t] = "put"
  <2>1. Grip(pc[t], v) = "put"
      BY <1>7 DEF Grip, Delivered
  <2> QED
      BY <1>1, <1>3, <1>4, <1>7, <2>1, Grips
<1> QED
    BY <1>5, <1>6, <1>7

\* A free into the local cache.
LEMMA PushOwned ==
    ASSUME LockInv, Accounted, NEW t \in Threads, Push(t) PROVE Accounted'
<1>1. PICK v : v = job[t]
    OBVIOUS
<1>2. /\ pc[t] = "push" /\ Continues
      /\ UNCHANGED <<unmapped, quarantine, pending, header, marker>>
    BY DEF Push, At, Continues, registryVars, quarantineVars
<1>3. PICK x \in TSDs : x = v.tsd
    BY <1>1, <1>2, ShapeAt DEF InHand
<1>4. /\ v.ptr # None /\ v.batches = <<>> /\ Grip(pc[t], v) # "held"
      /\ MarkedBy(pc[t], v) = {v.ptr}
      /\ PtrAt("put", pc[t], v) = {} /\ PtrAt("unmap", pc[t], v) = {}
    BY <1>1, <1>2, PtrGivenUp
<1>5. PICK p : p = v.ptr
    OBVIOUS
<1>6. PICK stock : stock = Stock(t)
    OBVIOUS
<1>7. PICK block : block = GetBlockBegin(p, header[p])
    OBVIOUS
<1>8. PICK r : r = CacheDeallocate(stock, block)
    OBVIOUS
<1>9. SetStock(t, r) /\ Finish(t)
    BY <1>1, <1>5, <1>6, <1>7, <1>8 DEF Push
<1>10. Advances(t, "idle", NoJob)
    BY <1>1, <1>4, <1>9, Finishes
<1>11. /\ cache'[x] = r.cache /\ free' = r.free /\ DOMAIN cache' = AllTSDs
       /\ \A y \in TSDs \ {x} : cache'[y] = cache[y]
    BY <1>1, <1>3, <1>9, StockSet
<1>12. CachesFit /\ OnlyCaches(x)
    BY <1>2, <1>11 DEF CachesFit, OnlyCaches, Accounted
<1>13. IsStock(stock) /\ stock.cache = cache[x] /\ stock.free = free
    BY <1>1, <1>3, <1>6, StockAt
<1>14. PICK M : M = MarkedPlace(t)
    OBVIOUS
<1>15. PICK S : S = {M, CachePlace(x), FreePlace}
    OBVIOUS
<1>16. /\ M \in PtrPlaces /\ S \subseteq Places /\ LivePlace \notin S /\ HeldPlace(t) \notin S
  <2>1. M \in PtrPlaces /\ M.kind = "marked" /\ LivePlace.kind = "live" /\ HeldPlace(t).kind = "held"
      BY <1>14, HandPlaces
  <2>2. LivePlace \in PtrPlaces /\ HeldPlace(t) \in PtrPlaces
      BY HandPlaces
  <2>3. CachePlace(x) \in BlockPlaces /\ FreePlace \in BlockPlaces
      BY CacheIsPlace
  <2> QED
      BY <1>15, <2>1, <2>2, <2>3, PlacesDiffer DEF Places
<1>17. PICK S2 : S2 = S \cup {LivePlace, HeldPlace(t)}
    OBVIOUS
<1>18. Untouched(S2, t, x, "idle", NoJob)
    BY <1>1, <1>2, <1>4, <1>10, <1>14, <1>15, <1>17, IdleShape DEF Untouched, Advances
<1>19. PICK T : T = Table
    OBVIOUS
<1>20. PICK T2 : T2 = Table'
    OBVIOUS
<1>21. /\ Shows(T, t, x, free, unmapped, live, quarantine, cache, pending, pc[t], job[t])
       /\ Shows(T2, t, x, free', unmapped', live', quarantine', cache', pending', "idle", NoJob)
       /\ \E T1 : /\ DOMAIN T1 = Places /\ SameBut(S, T, T1)
                  /\ \A R \in S : T1[R] = T2[R]
                  /\ Owned(T1, header', marker') => Accounted'
    BY <1>2, <1>10, <1>12, <1>16, <1>17, <1>18, <1>19, <1>20, Opens DEF Advances
<1>22. PICK T1 : /\ DOMAIN T1 = Places /\ SameBut(S, T, T1)
                 /\ \A R \in S : T1[R] = T2[R]
                 /\ Owned(T1, header', marker') => Accounted'
    BY <1>21
<1>23. /\ T[M] = {p} /\ T[CachePlace(x)] = stock.cache /\ T[FreePlace] = stock.free
       /\ DOMAIN T = Places
    BY <1>1, <1>4, <1>5, <1>13, <1>14, <1>21 DEF Shows
<1>24. T2[M] = {} /\ T2[CachePlace(x)] = r.cache /\ T2[FreePlace] = r.free
    BY <1>11, <1>14, <1>21, IdleShape DEF Shows
<1>25. T1[M] = T[M] \ {p} /\ T1[CachePlace(x)] = r.cache /\ T1[FreePlace] = r.free
    BY <1>15, <1>22, <1>23, <1>24
<1>26. \A R \in Places \ {M, CachePlace(x), FreePlace} : T1[R] = T[R]
    BY <1>15, <1>22 DEF SameBut
<1>27. Owned(T, header, marker)
    BY <1>19 DEF Accounted
<1>28. PICK hd, mk : hd = header /\ mk = marker
    OBVIOUS
<1>29. /\ hd \in [Ptrs -> Headers] /\ hd[p].state # "Allocated" /\ p \in T[M]
  <2>1. p \in T[M]
      BY <1>23
  <2>2. PtrRule(M, p, hd[p]) /\ hd \in [Ptrs -> Headers]
      BY <1>16, <1>27, <1>28, <2>1, AtPlace
  <2>3. M.kind = "marked"
      BY <1>14, HandPlaces
  <2> QED
      BY <2>1, <2>2, <2>3 DEF PtrRule
<1>30. Owned(T1, hd, mk)
  <2>1. Owned(T, hd, mk) /\ block = GetBlockBegin(p, hd[p])
      BY <1>7, <1>27, <1>28
  <2>2. \A q \in Ptrs \ {p} : hd[q] = hd[q]
      OBVIOUS
  <2> QED
      BY ONLY <1>8, <1>13, <1>16, <1>23, <1>25, <1>26, <1>29, <2>1, <2>2, x \in TSDs, ReleaseToCache
<1> QED
    BY <1>2, <1>22, <1>28, <1>30

\* Secondary.deallocate.
LEMMA UnmapOwned ==
    ASSUME LockInv, Accounted, NEW t \in Threads, Unmap(t) PROVE Accounted'
<1>1. PICK v : v = job[t]
    OBVIOUS
<1>2. /\ pc[t] = "unmap" /\ Continues
      /\ UNCHANGED <<free, cache, quarantine, pending, header, marker>>
    BY DEF Unmap, At, Continues, registryVars, quarantineVars
<1>4. /\ v.ptr # None /\ v.batches = <<>> /\ Grip(pc[t], v) # "held"
      /\ MarkedBy(pc[t], v) = {}
      /\ PtrAt("put", pc[t], v) = {} /\ PtrAt("unmap", pc[t], v) = {v.ptr}
    BY <1>1, <1>2, PtrGivenUp
<1>5. PICK p : p = v.ptr
    OBVIOUS
<1>7. PICK block : block = GetBlockBegin(p, header[p])
    OBVIOUS
<1>9. unmapped' = unmapped \cup {block} /\ Finish(t)
    BY <1>1, <1>5, <1>7 DEF Unmap
<1>10. Advances(t, "idle", NoJob)
    BY <1>1, <1>4, <1>9, Finishes
<1>12. CachesFit /\ OnlyCaches(NoTSD)
    BY <1>2, CachesStay DEF OnlyCaches
<1>14. PICK M : M = UnmapPlace(t)
    OBVIOUS
<1>15. PICK S : S = {M, UnmappedPlace}
    OBVIOUS
<1>16. /\ M \in PtrPlaces /\ UnmappedPlace \in BlockPlaces
       /\ S \subseteq Places /\ LivePlace \notin S /\ HeldPlace(t) \notin S
  <2>1. M \in PtrPlaces /\ M.kind = "unmap" /\ LivePlace.kind = "live" /\ HeldPlace(t).kind = "held"
      BY <1>14, HandPlaces
  <2>2. LivePlace \in PtrPlaces /\ HeldPlace(t) \in PtrPlaces
      BY HandPlaces
  <2>3. UnmappedPlace \in BlockPlaces
      BY DEF BlockPlaces, UnmappedPlace, Place
  <2> QED
      BY <1>15, <2>1, <2>2, <2>3, PlacesDiffer DEF Places
<1>17. PICK S2 : S2 = S \cup {LivePlace, HeldPlace(t)}
    OBVIOUS
<1>18. Untouched(S2, t, NoTSD, "idle", NoJob)
    BY <1>1, <1>2, <1>4, <1>10, <1>14, <1>15, <1>17, IdleShape DEF Untouched, Advances
<1>19. PICK T : T = Table
    OBVIOUS
<1>20. PICK T2 : T2 = Table'
    OBVIOUS
<1>21. /\ Shows(T, t, NoTSD, free, unmapped, live, quarantine, cache, pending, pc[t], job[t])
       /\ Shows(T2, t, NoTSD, free', unmapped', live', quarantine', cache', pending', "idle", NoJob)
       /\ \E T1 : /\ DOMAIN T1 = Places /\ SameBut(S, T, T1)
                  /\ \A R \in S : T1[R] = T2[R]
                  /\ Owned(T1, header', marker') => Accounted'
    BY <1>2, <1>10, <1>12, <1>16, <1>17, <1>18, <1>19, <1>20, Opens DEF Advances
<1>22. PICK T1 : /\ DOMAIN T1 = Places /\ SameBut(S, T, T1)
                 /\ \A R \in S : T1[R] = T2[R]
                 /\ Owned(T1, header', marker') => Accounted'
    BY <1>21
<1>23. T[M] = {p} /\ T[UnmappedPlace] = unmapped
    BY <1>1, <1>4, <1>5, <1>14, <1>21 DEF Shows
<1>24. T2[M] = {} /\ T2[UnmappedPlace] = unmapped \cup {block}
    BY <1>9, <1>14, <1>21, IdleShape DEF Shows
<1>25. Moves(T, T1, M, {p}, UnmappedPlace, {block})
    BY <1>15, <1>22, <1>23, <1>24 DEF Moves, SameBut
<1>27. Owned(T, header, marker)
    BY <1>19 DEF Accounted
<1>28. PICK hd, mk : hd = header /\ mk = marker
    OBVIOUS
<1>29. hd \in [Ptrs -> Headers] /\ p \in T[M] /\ BlockRule(UnmappedPlace, block, hd[p])
  <2>1. p \in T[M]
      BY <1>23
  <2>2. /\ PtrRule(M, p, hd[p]) /\ hd \in [Ptrs -> Headers]
        /\ block \in Blocks /\ hd[p].class = ClassOfBlock(block)
      BY <1>7, <1>16, <1>27, <1>28, <2>1, AtPlace
  <2>3. ClassOfBlock(block) = 0
    <3>1. M.kind = "unmap"
        BY <1>14, HandPlaces
    <3> QED
        BY <2>2, <3>1 DEF PtrRule
  <2>4. block \in SecondaryBlocks
      BY <2>2, <2>3, BlockFacts
  <2> QED
      BY <2>1, <2>2, <2>4 DEF BlockRule
<1>30. Owned(T1, hd, mk)
  <2>1. Owned(T, hd, mk) /\ block = GetBlockBegin(p, hd[p])
      BY <1>7, <1>27, <1>28
  <2>2. \A q \in Ptrs \ {p} : hd[q] = hd[q]
      OBVIOUS
  <2> QED
      BY ONLY <1>16, <1>25, <1>29, <2>1, <2>2, Release
<1> QED
    BY <1>2, <1>22, <1>28, <1>30

-----------------------------------------------------------------------------
(* The global quarantine.                                                  *)

\* Two parts go to two other places.
BothMove(T, T2, P, S, Q, P2, U, Q2) ==
    /\ T2[P] = T[P] \ S /\ T2[Q] = T[Q] \cup S
    /\ T2[P2] = T[P2] \ U /\ T2[Q2] = T[Q2] \cup U
    /\ SameBut({P, Q, P2, Q2}, T, T2)

AllDiffer(P, Q, P2, Q2) == P # Q /\ P # P2 /\ P # Q2 /\ Q # P2 /\ Q # Q2 /\ P2 # Q2

LEMMA MoveBoth ==
    ASSUME NEW T, NEW hd, NEW mk, Owned(T, hd, mk), DOMAIN T = Places,
           NEW P \in PtrPlaces, NEW Q \in PtrPlaces, NEW P2 \in PtrPlaces, NEW Q2 \in PtrPlaces,
           AllDiffer(P, Q, P2, Q2), NEW S \in SUBSET T[P], NEW U \in SUBSET T[P2],
           \A p \in S : PtrRule(Q, p, hd[p]), \A p \in U : PtrRule(Q2, p, hd[p]),
           NEW T2, BothMove(T, T2, P, S, Q, P2, U, Q2)
    PROVE  Owned(T2, hd, mk)
<1>1. P \in Places /\ Q \in Places /\ P2 \in Places /\ Q2 \in Places
    BY DEF Places
<1>2. PICK T1 : T1 = [T EXCEPT ![P] = @ \ S, ![Q] = @ \cup S]
    OBVIOUS
<1>3. /\ T1[P] = T[P] \ S /\ T1[Q] = T[Q] \cup S
      /\ \A R \in Places \ {P, Q} : T1[R] = T[R]
    BY <1>1, <1>2 DEF AllDiffer
<1>4. Owned(T1, hd, mk)
  <2>1. Moves(T, T1, P, S, Q, S)
      BY <1>3 DEF Moves
  <2> QED
      BY <2>1, MovePtrs DEF AllDiffer
<1>5. T1[P2] = T[P2] /\ T1[Q2] = T[Q2]
    BY <1>1, <1>3 DEF AllDiffer
<1>6. Moves(T1, T2, P2, U, Q2, U)
  <2>1. ASSUME NEW R \in Places \ {P2, Q2} PROVE T2[R] = T1[R]
    <3>1. CASE R \in {P, Q}
        BY <1>3, <3>1 DEF BothMove
    <3>2. CASE R \notin {P, Q}
        BY <1>3, <2>1, <3>2 DEF BothMove, SameBut
    <3> QED
        BY <3>1, <3>2
  <2> QED
      BY <1>5, <2>1 DEF Moves, BothMove
<1>7. U \in SUBSET T1[P2]
    BY <1>5
<1> QED
    BY <1>4, <1>6, <1>7, MovePtrs DEF AllDiffer

\* The places of quarantined chunks and of their batches.
LEMMA QuarantinePlaces ==
    ASSUME NEW t \in Threads, NEW x \in TSDs
    PROVE  /\ {QuarantinePlace, QuarantineBatches, PendingPlace(x), PendingBatches(x),
               RecyclePlace(t), RecycleBatches(t)} \subseteq PtrPlaces \ {LivePlace, HeldPlace(t)}
           /\ AllDiffer(PendingPlace(x), QuarantinePlace, PendingBatches(x), QuarantineBatches)
           /\ AllDiffer(QuarantinePlace, RecyclePlace(t), QuarantineBatches, RecycleBatches(t))
           /\ AllDiffer(PutPlace(t), PendingPlace(x), LivePlace, PendingBatches(x))
           /\ PutPlace(t) \in PtrPlaces \ {LivePlace, HeldPlace(t)}
           /\ PendingPlace(x) # HeldPlace(t) /\ PendingBatches(x) # HeldPlace(t)
<1>1. /\ LivePlace.kind = "live" /\ PutPlace(t).kind = "put"
      /\ QuarantinePlace.kind = "quarantine" /\ PendingPlace(x).kind = "pending"
      /\ QuarantineBatches.kind = "quarantine batches"
      /\ PendingBatches(x).kind = "pending batches"
      /\ HeldPlace(t).kind = "held"
      /\ RecyclePlace(t).kind = "recycle" /\ RecycleBatches(t).kind = "recycle batches"
    BY PtrPlaceFacts
<1>2. {QuarantinePlace, QuarantineBatches, PendingPlace(x), PendingBatches(x),
       RecyclePlace(t), RecycleBatches(t), PutPlace(t)} \subseteq PtrPlaces
    BY PtrPlaceFacts
<1>3. /\ {QuarantinePlace, QuarantineBatches, PendingPlace(x), PendingBatches(x),
          RecyclePlace(t), RecycleBatches(t), PutPlace(t)} \cap {LivePlace, HeldPlace(t)} = {}
    BY <1>1
<1>4. AllDiffer(PendingPlace(x), QuarantinePlace, PendingBatches(x), QuarantineBatches)
    BY <1>1 DEF AllDiffer
<1>5. AllDiffer(QuarantinePlace, RecyclePlace(t), QuarantineBatches, RecycleBatches(t))
    BY <1>1 DEF AllDiffer
<1>6. AllDiffer(PutPlace(t), PendingPlace(x), LivePlace, PendingBatches(x))
    BY <1>1 DEF AllDiffer
<1> QED
    BY <1>2, <1>3, <1>4, <1>5, <1>6

\* A chunk of a quarantine may be in any of them, and a batch too.
LEMMA RuleStays ==
    ASSUME NEW T, NEW hd, NEW mk, Owned(T, hd, mk), NEW P \in PtrPlaces, NEW Q \in PtrPlaces,
           \/ {P.kind, Q.kind} \subseteq {"put", "quarantine", "pending", "recycle"}
           \/ {P.kind, Q.kind} \subseteq
                {"quarantine batches", "pending batches", "recycle batches"}
    PROVE  \A p \in T[P] : PtrRule(Q, p, hd[p])
<1> SUFFICES ASSUME NEW p \in T[P] PROVE PtrRule(Q, p, hd[p])
    OBVIOUS
<1>1. PtrRule(P, p, hd[p])
    BY AtPlace
<1>2. CASE /\ P.kind \in {"put", "quarantine", "pending", "recycle"}
           /\ Q.kind \in {"put", "quarantine", "pending", "recycle"}
    BY <1>1, <1>2 DEF PtrRule
<1>3. CASE /\ P.kind \in {"quarantine batches", "pending batches", "recycle batches"}
           /\ Q.kind \in {"quarantine batches", "pending batches", "recycle batches"}
    BY <1>1, <1>3 DEF PtrRule
<1> QED
    BY <1>2, <1>3

\* A TSD's part of the quarantine becomes part of the global one.
LEMMA TransferOwned ==
    ASSUME LockInv, Accounted, NEW t \in Threads, TransferCache(t) PROVE Accounted'
<1>1. PICK v : v = job[t]
    OBVIOUS
<1>2. /\ pc[t] = "transfer" /\ Continues
      /\ UNCHANGED <<free, unmapped, cache, header, marker>>
    BY DEF TransferCache, At, Continues, registryVars, heapVars
<1>3. PICK x \in TSDs : x = v.tsd
    BY <1>1, <1>2, ShapeAt DEF InHand
<1>4. Shape(pc[t], v) /\ IsJob(v)
    BY <1>1, ShapeAt
<1>5. pc[t] \in Delivered /\ pc[t] \in GivenUp /\ v.batches = <<>> /\ Tidy(v.batches)
    BY <1>2, <1>4 DEF Delivered, GivenUp, Shape
<1>6. \E stage, work : Advances(t, stage, work) /\ work.batches = <<>>
  <2>1. CASE \E stage \in {"lockrecycle", "tryrecycle"} : Goto(t, stage) /\ live' = live
    <3>1. PICK stage \in {"lockrecycle", "tryrecycle"} : Goto(t, stage) /\ live' = live
        BY <2>1
    <3>2. Goes(t, stage, v) /\ stage \in Delivered /\ stage \notin {"unlock", "scrub"}
        BY <1>1, <3>1 DEF Goto, Step, Goes, Delivered
    <3>3. Same(v, v)
        BY <1>4 DEF Same
    <3> QED
        BY <1>1, <1>5, <3>1, <3>2, <3>3, GoesForward
  <2>2. CASE EndQuarantine(t, lock)
      BY <1>5, <2>2, QuarantineEnds
  <2> QED
      BY <2>1, <2>2 DEF TransferCache
<1>7. PICK stage, work : Advances(t, stage, work) /\ work.batches = <<>>
    BY <1>6
<1>8. PICK c, d : c = quarantine /\ d = pending[x]
    OBVIOUS
<1>9. PICK e : e = Transfer(c, d)
    OBVIOUS
<1>10. /\ quarantine' = e /\ pending'[x] = EmptyCache /\ DOMAIN pending' = AllTSDs
       /\ \A y \in AllTSDs \ {x} : pending'[y] = pending[y]
       /\ x \in AllTSDs /\ TSDs \subseteq AllTSDs
  <2>1. DOMAIN pending = AllTSDs /\ TSDs \subseteq AllTSDs
      BY DEF Accounted, TSDs, AllTSDs, TSDLocks
  <2>2. pending' = [pending EXCEPT ![x] = EmptyCache] /\ quarantine' = e
      BY <1>1, <1>3, <1>8, <1>9 DEF TransferCache
  <2> QED
      BY <2>1, <2>2
<1>11. OnlyCaches(x)
    BY <1>2, <1>10 DEF OnlyCaches
<1>12. PICK T : T = Table
    OBVIOUS
<1>13. PICK T2 : T2 = Table'
    OBVIOUS
<1>14. Owned(T, header, marker)
    BY <1>12 DEF Accounted
<1>15. /\ T[QuarantinePlace] = ChunksOf(c.list) /\ T[QuarantineBatches] = AtsOf(c.list)
       /\ T[PendingPlace(x)] = ChunksOf(d.list) /\ T[PendingBatches(x)] = AtsOf(d.list)
       /\ DOMAIN T = Places
    BY <1>8, <1>12, Lookups DEF Table
<1>16. IsCache(c) /\ IsCache(d)
    BY <1>8, <1>10 DEF Accounted
<1>17. PICK P, Q, P2, Q2 : /\ P = PendingPlace(x) /\ Q = QuarantinePlace
                           /\ P2 = PendingBatches(x) /\ Q2 = QuarantineBatches
    OBVIOUS
<1>18. /\ {P, Q, P2, Q2} \subseteq PtrPlaces \ {LivePlace, HeldPlace(t)}
       /\ AllDiffer(P, Q, P2, Q2)
       /\ P.kind = "pending" /\ Q.kind = "quarantine"
       /\ P2.kind = "pending batches" /\ Q2.kind = "quarantine batches"
    BY <1>17, QuarantinePlaces, PtrPlaceFacts
<1>19. /\ ChunksOf(c.list) \cap ChunksOf(d.list) = {} /\ AtsOf(c.list) \cap AtsOf(d.list) = {}
  <2>1. T[Q] \cap T[P] = {} /\ T[Q2] \cap T[P2] = {}
      BY <1>14, <1>18, Disjoint DEF AllDiffer
  <2> QED
      BY <1>15, <1>17, <2>1
<1>20. /\ IsCache(e) /\ ChunksOf(e.list) = ChunksOf(c.list) \cup ChunksOf(d.list)
       /\ AtsOf(e.list) = AtsOf(c.list) \cup AtsOf(d.list)
    BY <1>9, <1>16, <1>19, TransferFacts
<1>21. CachesFit
  <2>1. \A y \in AllTSDs : IsCache(pending'[y])
    <3>1. \A y \in AllTSDs \ {x} : IsCache(pending'[y])
        BY <1>10 DEF Accounted
    <3>2. IsCache(pending'[x])
        BY <1>10, EmptyList
    <3> QED
        BY <3>1, <3>2
  <2> QED
      BY <1>2, <1>10, <1>20, <2>1 DEF CachesFit, Accounted
<1>22. PICK S : S = {P, Q, P2, Q2}
    OBVIOUS
<1>23. S \subseteq Places /\ LivePlace \notin S /\ HeldPlace(t) \notin S
    BY <1>18, <1>22 DEF Places
<1>24. PICK S2 : S2 = S \cup {LivePlace, HeldPlace(t)}
    OBVIOUS
<1>25. Untouched(S2, t, x, stage, work)
  <2>1. /\ MarkedBy(pc[t], v) = {} /\ PtrAt("put", pc[t], v) = {} /\ PtrAt("unmap", pc[t], v) = {}
      BY <1>5, NothingMarked
  <2> QED
      BY <1>1, <1>2, <1>5, <1>7, <1>17, <1>22, <1>24, <2>1 DEF Untouched, Advances
<1>26. /\ Shows(T2, t, x, free', unmapped', live', quarantine', cache', pending', stage, work)
       /\ \E T1 : /\ DOMAIN T1 = Places /\ SameBut(S, T, T1)
                  /\ \A R \in S : T1[R] = T2[R]
                  /\ Owned(T1, header', marker') => Accounted'
    BY <1>2, <1>7, <1>11, <1>12, <1>13, <1>21, <1>23, <1>24, <1>25, Opens DEF Advances
<1>27. PICK T1 : /\ DOMAIN T1 = Places /\ SameBut(S, T, T1)
                 /\ \A R \in S : T1[R] = T2[R]
                 /\ Owned(T1, header', marker') => Accounted'
    BY <1>26
<1>28. /\ T2[Q] = ChunksOf(e.list) /\ T2[Q2] = AtsOf(e.list)
       /\ T2[P] = {} /\ T2[P2] = {}
    BY <1>10, <1>17, <1>26, EmptyList DEF Shows
<1>29. PICK U, W : U = ChunksOf(d.list) /\ W = AtsOf(d.list)
    OBVIOUS
<1>30. BothMove(T, T1, P, U, Q, P2, W, Q2)
    BY <1>15, <1>17, <1>20, <1>22, <1>27, <1>28, <1>29 DEF BothMove
<1>31. U \in SUBSET T[P] /\ W \in SUBSET T[P2]
    BY <1>15, <1>17, <1>29
<1>32. (\A p \in U : PtrRule(Q, p, header[p])) /\ (\A p \in W : PtrRule(Q2, p, header[p]))
  <2>1. (\A p \in T[P] : PtrRule(Q, p, header[p])) /\ (\A p \in T[P2] : PtrRule(Q2, p, header[p]))
      BY <1>14, <1>18, RuleStays
  <2> QED
      BY <1>31, <2>1
<1>33. PICK hd, mk : hd = header /\ mk = marker
    OBVIOUS
<1>34. Owned(T1, hd, mk)
  <2>1. /\ Owned(T, hd, mk)
        /\ \A p \in U : PtrRule(Q, p, hd[p])
        /\ \A p \in W : PtrRule(Q2, p, hd[p])
      BY <1>14, <1>32, <1>33
  <2> QED
      BY ONLY <1>15, <1>18, <1>30, <1>31, <2>1, MoveBoth
<1> QED
    BY <1>2, <1>27, <1>33, <1>34

\* Batches leave the global quarantine to be recycled.
LEMMA RecycleOwned ==
    ASSUME LockInv, Accounted, NEW t \in Threads, Recycle(t) PROVE Accounted'
<1>1. PICK v : v = job[t]
    OBVIOUS
<1>2. /\ pc[t] = "recycle" /\ Continues
      /\ UNCHANGED <<free, unmapped, cache, pending, header, marker, live>>
    BY DEF Recycle, At, Continues, registryVars, heapVars, chunkVars
<1>3. PICK x \in TSDs : x = v.tsd
    BY <1>1, <1>2, ShapeAt DEF InHand
<1>4. Shape(pc[t], v) /\ IsJob(v)
    BY <1>1, ShapeAt
<1>5. pc[t] \in Delivered /\ pc[t] \in GivenUp /\ v.batches = <<>> /\ "unlock" \in Delivered
    BY <1>2, <1>4 DEF Delivered, GivenUp, Shape
<1>6. PICK c : c = quarantine
    OBVIOUS
<1>7. PICK min : min = MinSizeFor(v.op)
    OBVIOUS
<1>8. PICK e : e = Extract(c, min)
    OBVIOUS
<1>9. PICK w : w = WithBatches(v, e.out)
    OBVIOUS
<1>10. quarantine' = e.kept /\ Goes(t, "unlock", w)
    BY <1>1, <1>6, <1>7, <1>8, <1>9 DEF Recycle, Step, Goes, WithBatches
<1>11. IsCache(c)
    BY <1>6 DEF Accounted
<1>12. Splits(c, e.kept, e.out)
    BY <1>8, <1>11, ExtractFacts
<1>13. /\ Same(w, v) /\ w.tsd = v.tsd /\ w.result = v.result
       /\ w.batches = e.out /\ w.todo = v.todo
    BY <1>4, <1>9, WorkFields
<1>14. Advances(t, "unlock", w)
    BY <1>1, <1>2, <1>5, <1>10, <1>12, <1>13, GoesForward DEF Splits
<1>15. CachesFit /\ OnlyCaches(x)
    BY <1>2, <1>10, <1>12 DEF CachesFit, OnlyCaches, Accounted, Splits
<1>16. PICK T : T = Table
    OBVIOUS
<1>17. PICK T2 : T2 = Table'
    OBVIOUS
<1>18. Owned(T, header, marker)
    BY <1>16 DEF Accounted
<1>19. /\ T[QuarantinePlace] = ChunksOf(c.list) /\ T[QuarantineBatches] = AtsOf(c.list)
       /\ T[RecyclePlace(t)] = {} /\ T[RecycleBatches(t)] = {}
       /\ DOMAIN T = Places
    BY <1>1, <1>5, <1>6, <1>16, Lookups, EmptyList DEF Table
<1>20. PICK P, Q, P2, Q2 : /\ P = QuarantinePlace /\ Q = RecyclePlace(t)
                           /\ P2 = QuarantineBatches /\ Q2 = RecycleBatches(t)
    OBVIOUS
<1>21. /\ {P, Q, P2, Q2} \subseteq PtrPlaces \ {LivePlace, HeldPlace(t)}
       /\ AllDiffer(P, Q, P2, Q2)
       /\ P.kind = "quarantine" /\ Q.kind = "recycle"
       /\ P2.kind = "quarantine batches" /\ Q2.kind = "recycle batches"
    BY <1>20, QuarantinePlaces, PtrPlaceFacts
<1>22. PICK S : S = {P, Q, P2, Q2}
    OBVIOUS
<1>23. S \subseteq Places /\ LivePlace \notin S /\ HeldPlace(t) \notin S
    BY <1>21, <1>22 DEF Places
<1>24. PICK S2 : S2 = S \cup {LivePlace, HeldPlace(t)}
    OBVIOUS
<1>25. Untouched(S2, t, x, "unlock", w)
  <2>1. /\ MarkedBy(pc[t], v) = {} /\ PtrAt("put", pc[t], v) = {} /\ PtrAt("unmap", pc[t], v) = {}
      BY <1>5, NothingMarked
  <2> QED
      BY <1>1, <1>2, <1>14, <1>20, <1>22, <1>24, <2>1 DEF Untouched, Advances
<1>26. /\ Shows(T2, t, x, free', unmapped', live', quarantine', cache', pending', "unlock", w)
       /\ \E T1 : /\ DOMAIN T1 = Places /\ SameBut(S, T, T1)
                  /\ \A R \in S : T1[R] = T2[R]
                  /\ Owned(T1, header', marker') => Accounted'
    BY <1>2, <1>14, <1>15, <1>16, <1>17, <1>23, <1>24, <1>25, Opens DEF Advances
<1>27. PICK T1 : /\ DOMAIN T1 = Places /\ SameBut(S, T, T1)
                 /\ \A R \in S : T1[R] = T2[R]
                 /\ Owned(T1, header', marker') => Accounted'
    BY <1>26
<1>28. PICK U, W : U = ChunksOf(e.out) /\ W = AtsOf(e.out)
    OBVIOUS
<1>29. /\ T2[P] = ChunksOf(c.list) \ U /\ T2[P2] = AtsOf(c.list) \ W
       /\ T2[Q] = U /\ T2[Q2] = W
    BY <1>10, <1>12, <1>13, <1>20, <1>26, <1>28 DEF Shows, Splits
<1>30. BothMove(T, T1, P, U, Q, P2, W, Q2)
    BY <1>19, <1>20, <1>22, <1>27, <1>29 DEF BothMove
<1>31. U \in SUBSET T[P] /\ W \in SUBSET T[P2]
    BY <1>12, <1>19, <1>20, <1>28 DEF Splits
<1>32. (\A p \in U : PtrRule(Q, p, header[p])) /\ (\A p \in W : PtrRule(Q2, p, header[p]))
  <2>1. (\A p \in T[P] : PtrRule(Q, p, header[p])) /\ (\A p \in T[P2] : PtrRule(Q2, p, header[p]))
      BY <1>18, <1>21, RuleStays
  <2> QED
      BY <1>31, <2>1
<1>33. PICK hd, mk : hd = header /\ mk = marker
    OBVIOUS
<1>34. Owned(T1, hd, mk)
  <2>1. /\ Owned(T, hd, mk)
        /\ \A p \in U : PtrRule(Q, p, hd[p])
        /\ \A p \in W : PtrRule(Q2, p, hd[p])
      BY <1>18, <1>32, <1>33
  <2> QED
      BY ONLY <1>19, <1>21, <1>30, <1>31, <2>1, MoveBoth
<1> QED
    BY <1>2, <1>27, <1>33, <1>34

-----------------------------------------------------------------------------
(* A chunk is put into the quarantine of a TSD.                            *)

\* A batch is a chunk of its class like any other.
LEMMA BatchFacts ==
    /\ BatchClass \in ClassIds
    /\ \A block \in BlocksOf(BatchClass) :
         LET at == block + HeaderSize
             h  == HeaderFor(block, BatchClass, at, BatchBytes)
         IN  block \in Blocks /\ Begins(at, block, h) /\ h = BatchHeader
<1>1. /\ BatchBytes \in Nat \ {0} /\ HeaderSize = 1 /\ MaxSize \in Nat
      /\ BatchBytes + HeaderSize \in 1 .. MaxSize
    BY QuarantineAssumption, FrontendAssumption, ClassesAssumption DEF HeaderSize
<1>2. /\ BatchClass \in ClassIds /\ BatchClass \in Nat
      /\ SizeOf(BatchClass) >= BatchBytes + HeaderSize /\ SizeOf(BatchClass) \in Nat
    BY <1>1, ClassesAssumption DEF BatchClass, ClassIds
<1> SUFFICES ASSUME NEW block \in BlocksOf(BatchClass), NEW at, at = block + HeaderSize,
                    NEW h, h = HeaderFor(block, BatchClass, at, BatchBytes)
             PROVE  block \in Blocks /\ Begins(at, block, h) /\ h = BatchHeader
    BY <1>2
<1>3. /\ block \in Blocks /\ block \in Nat /\ ClassOfBlock(block) = BatchClass /\ BatchClass # 0
    BY <1>2, BlockFacts, BlocksApart
<1>4. EndOf(block) = block + SizeOf(BatchClass)
    BY <1>3 DEF EndOf, BlockEnd
<1>5. at \in Nat /\ at = block + 1 /\ at + BatchBytes <= EndOf(block)
    BY <1>1, <1>2, <1>3, <1>4
<1>6. at \in Ptrs
    BY <1>3, <1>5, UserPtrFacts
<1>7. /\ h \in Headers /\ h.offset = at - (block + 1) /\ h.class = BatchClass /\ at <= EndOf(block)
    BY <1>1, <1>3, <1>5, HeaderForFacts
<1>8. Begins(at, block, h)
    BY <1>3, <1>5, <1>6, <1>7 DEF Begins
<1>9. h = BatchHeader
  <2>1. PICK none : none = NoHeader
      OBVIOUS
  <2>2. PICK used : used = [none EXCEPT !.state = "Allocated"]
      OBVIOUS
  <2>3. PICK ours : ours = [used EXCEPT !.class = BatchClass]
      OBVIOUS
  <2>4. BatchHeader = [ours EXCEPT !.amount = BatchBytes]
      BY <2>1, <2>2, <2>3, Zenon DEF BatchHeader
  <2>5. ours = [state |-> "Allocated", class |-> BatchClass, amount |-> 0, offset |-> 0]
      BY <2>1, <2>2, <2>3 DEF NoHeader
  <2>6. BatchHeader = [state |-> "Allocated", class |-> BatchClass, amount |-> BatchBytes, offset |-> 0]
      BY <2>4, <2>5
  <2>7. at - (block + HeaderSize) = 0
      BY <1>1, <1>3, <1>5
  <2> QED
      BY <1>3, <2>6, <2>7 DEF HeaderFor
<1> QED
    BY <1>3, <1>8, <1>9

\* The size of a chunk is a number.
LEMMA SizeIsNumber ==
    ASSUME NEW T, NEW hd, NEW mk, Owned(T, hd, mk), NEW R \in PtrPlaces, NEW p \in T[R]
    PROVE  GetSize(p, hd[p]) \in Int
<1>1. PICK b, h : b = GetBlockBegin(p, hd[p]) /\ h = hd[p]
    OBVIOUS
<1>2. b \in Blocks /\ p \in Nat /\ h \in Headers /\ h.class = ClassOfBlock(b)
    BY <1>1, AtPlace
<1>3. EndOf(b) \in Nat
    BY <1>2, BlocksApart
<1>4. h.amount \in Int
    BY <1>2 DEF Headers
<1>5. h.class = 0 => BlockEnd(b, 0) = EndOf(b)
    BY <1>2 DEF EndOf
<1> QED
    BY <1>1, <1>2, <1>3, <1>4, <1>5 DEF GetSize

\* The places that a chunk with a new batch of its own comes from and goes to.
Puts(T, T1, P, p, Q, Q2, at, C, left, F, rest) ==
    /\ T1[P] = T[P] \ {p} /\ T1[Q] = T[Q] \cup {p} /\ T1[Q2] = T[Q2] \cup {at}
    /\ T1[C] = left /\ T1[F] = rest
    /\ SameBut({P, Q, Q2, C, F}, T, T1)

LEMMA PutInNewBatch ==
    ASSUME NEW T, NEW hd, NEW mk, Owned(T, hd, mk), DOMAIN T = Places,
           NEW P \in PtrPlaces, NEW Q \in PtrPlaces, NEW Q2 \in PtrPlaces,
           P # Q, P # Q2, Q # Q2,
           P.kind = "put", Q.kind = "pending", Q2.kind = "pending batches",
           NEW x \in TSDs, NEW p \in T[P], NEW acc, IsStock(acc),
           acc.cache = T[CachePlace(x)], acc.free = T[FreePlace],
           NEW got, got = CacheAllocate(acc, BatchClass), got.block # None,
           NEW at, at = got.block + HeaderSize,
           NEW h, h = HeaderFor(got.block, BatchClass, at, BatchBytes),
           NEW T1, Puts(T, T1, P, p, Q, Q2, at, CachePlace(x), got.acc.cache,
                        FreePlace, got.acc.free)
    PROVE  /\ Owned(T1, Written(hd, got.block, at, h), [mk EXCEPT ![got.block] = h.offset])
           /\ at \in Ptrs /\ at \notin T[Q2]
<1>1. PICK C, F : C = CachePlace(x) /\ F = FreePlace
    OBVIOUS
<1>2. PICK b, left, rest : b = got.block /\ left = got.acc.cache /\ rest = got.acc.free
    OBVIOUS
<1>3. /\ C \in BlockPlaces /\ F \in BlockPlaces /\ C # F
      /\ C \notin PtrPlaces /\ F \notin PtrPlaces
    BY <1>1, CacheIsPlace, PlacesDiffer
<1>4. {P, Q, Q2, C, F} \subseteq Places
    BY <1>3 DEF Places
<1>5. BatchClass \in ClassIds /\ b \in BlocksOf(BatchClass)
    BY <1>2, AllocateFacts, BatchFacts
<1>6. Begins(at, b, h) /\ h = BatchHeader
    BY <1>2, <1>5, BatchFacts
<1>7. PtrRule(Q2, at, h)
    BY <1>6 DEF PtrRule
<1>8. PICK T0 : T0 = [T EXCEPT ![Q2] = @ \cup {at}, ![C] = left, ![F] = rest]
    OBVIOUS
<1>9. /\ T0[Q2] = T[Q2] \cup {at} /\ T0[C] = left /\ T0[F] = rest
      /\ \A R \in Places \ {Q2, C, F} : T0[R] = T[R]
    BY <1>3, <1>4, <1>8
<1>10. PICK hd2, mk2 : hd2 = Written(hd, b, at, h) /\ mk2 = [mk EXCEPT ![b] = h.offset]
    OBVIOUS
<1>11. Owned(T0, hd2, mk2) /\ IsNew(T, hd, at, hd2)
  <2>1. /\ acc.cache = T[C] /\ acc.free = T[F]
        /\ got.acc.cache = left /\ got.acc.free = rest /\ got.block = b
      BY <1>1, <1>2
  <2>2. Begins(at, got.block, h)
      BY <1>6, <2>1
  <2>3. T0[CachePlace(x)] = got.acc.cache /\ T0[FreePlace] = got.acc.free
      BY <1>1, <1>9, <2>1
  <2>4. \A R \in Places \ {Q2, CachePlace(x), FreePlace} : T0[R] = T[R]
      BY <1>1, <1>9
  <2>5. /\ Owned(T0, Written(hd, got.block, at, h), [mk EXCEPT ![got.block] = h.offset])
        /\ IsNew(T, hd, at, Written(hd, got.block, at, h))
    <3>1. /\ Owned(T, hd, mk) /\ DOMAIN T = Places /\ IsStock(acc)
          /\ acc.cache = T[CachePlace(x)] /\ acc.free = T[FreePlace]
          /\ got = CacheAllocate(acc, BatchClass) /\ got.block # None
        OBVIOUS
    <3>2. T0[Q2] = T[Q2] \cup {at} /\ Q2 \in PtrPlaces /\ x \in TSDs
        BY <1>9
    <3> QED
        BY ONLY <1>5, <1>7, <2>2, <2>3, <2>4, <3>1, <3>2, ClaimFromCache
  <2> QED
      BY <1>10, <2>1, <2>5
<1>12. hd2[p] = hd[p] /\ at \notin T[Q2]
    BY <1>11 DEF IsNew
<1>13. PtrRule(Q, p, hd2[p])
  <2>1. PtrRule(P, p, hd[p])
      BY AtPlace
  <2> QED
      BY <1>12, <2>1 DEF PtrRule
<1>14. Moves(T0, T1, P, {p}, Q, {p})
  <2>1. T0[P] = T[P] /\ T0[Q] = T[Q]
      BY <1>3, <1>4, <1>9
  <2>2. ASSUME NEW R \in Places \ {P, Q} PROVE T1[R] = T0[R]
    <3>1. CASE R \in {Q2, C, F}
        BY <1>1, <1>2, <1>9, <3>1 DEF Puts
    <3>2. CASE R \notin {Q2, C, F}
        BY <1>1, <1>9, <2>2, <3>2 DEF Puts, SameBut
    <3> QED
        BY <3>1, <3>2
  <2> QED
      BY <2>1, <2>2 DEF Moves, Puts
<1>15. {p} \in SUBSET T0[P]
    BY <1>3, <1>4, <1>9
<1>16. Owned(T1, hd2, mk2)
  <2>1. \A q \in {p} : PtrRule(Q, q, hd2[q])
      BY <1>13
  <2> QED
      BY ONLY <1>11, <1>14, <1>15, <2>1, P \in PtrPlaces, Q \in PtrPlaces, P # Q, MovePtrs
<1> QED
    BY <1>2, <1>6, <1>10, <1>12, <1>16 DEF Begins

\* The five places of a put.
LEMMA PutPlaces ==
    ASSUME NEW t \in Threads, NEW x \in TSDs,
           NEW S, S = {PutPlace(t), PendingPlace(x), PendingBatches(x), CachePlace(x), FreePlace}
    PROVE  /\ {PutPlace(t), PendingPlace(x), PendingBatches(x)} \subseteq PtrPlaces
           /\ PutPlace(t) # PendingPlace(x) /\ PutPlace(t) # PendingBatches(x)
           /\ PendingPlace(x) # PendingBatches(x)
           /\ PutPlace(t).kind = "put" /\ PendingPlace(x).kind = "pending"
           /\ PendingBatches(x).kind = "pending batches"
           /\ S \subseteq Places /\ LivePlace \notin S /\ HeldPlace(t) \notin S
<1>1. /\ {PutPlace(t), PendingPlace(x), PendingBatches(x)} \subseteq PtrPlaces
      /\ PutPlace(t).kind = "put" /\ PendingPlace(x).kind = "pending"
      /\ PendingBatches(x).kind = "pending batches"
      /\ LivePlace.kind = "live" /\ HeldPlace(t).kind = "held"
      /\ LivePlace \in PtrPlaces /\ HeldPlace(t) \in PtrPlaces
    BY PtrPlaceFacts
<1>2. CachePlace(x) \in BlockPlaces /\ FreePlace \in BlockPlaces
    BY CacheIsPlace
<1> QED
    BY <1>1, <1>2, PlacesDiffer DEF Places

\* What the call does with a chunk is over, but for the quarantine that it may have to
\* make smaller.
LEMMA PutAdvances ==
    ASSUME LockInv, Accounted, NEW t \in Threads, Put(t)
    PROVE  \E stage, work : Advances(t, stage, work) /\ work.batches = <<>>
<1>1. PICK v : v = job[t]
    OBVIOUS
<1>2. pc[t] = "put" /\ pc[t] \in GivenUp
    BY DEF Put, At, GivenUp
<1>3. Shape(pc[t], v) /\ IsJob(v) /\ v.batches = <<>> /\ Tidy(v.batches)
    BY <1>1, <1>2, ShapeAt, PtrGivenUp DEF Shape
<1>4. CASE Goto(t, "transfer") /\ live' = live
  <2>1. Goes(t, "transfer", v) /\ "transfer" \in Delivered /\ "transfer" \notin {"unlock", "scrub"}
      BY <1>1, <1>4 DEF Goto, Step, Goes, Delivered
  <2>2. Same(v, v)
      BY <1>3 DEF Same
  <2>3. Advances(t, "transfer", v)
      BY <1>1, <1>2, <1>3, <1>4, <2>1, <2>2, GoesForward
  <2> QED
      BY <1>3, <2>3
<1>5. CASE EndQuarantine(t, lock)
    BY <1>2, <1>5, QuarantineEnds
<1> QED
    BY <1>4, <1>5 DEF Put

\* GlobalQuarantine.put, with the batch it may need.
LEMMA PutOwned ==
    ASSUME LockInv, Accounted, NEW t \in Threads, Put(t) PROVE Accounted'
<1>1. PICK v : v = job[t]
    OBVIOUS
<1>2. /\ pc[t] = "put" /\ Continues
      /\ UNCHANGED <<unmapped, quarantine>>
    BY DEF Put, At, Continues, registryVars
<1>3. PICK x \in TSDs : x = v.tsd
    BY <1>1, <1>2, ShapeAt DEF InHand
<1>4. /\ v.ptr # None /\ v.batches = <<>>
      /\ MarkedBy(pc[t], v) = {} /\ PtrAt("put", pc[t], v) = {v.ptr}
      /\ PtrAt("unmap", pc[t], v) = {}
    BY <1>1, <1>2, PtrGivenUp
<1>5. PICK stage, work : Advances(t, stage, work) /\ work.batches = <<>>
    BY PutAdvances
<1>6. PICK p : p = v.ptr
    OBVIOUS
<1>7. PICK c : c = pending[x]
    OBVIOUS
<1>8. PICK stock : stock = Stock(t)
    OBVIOUS
<1>9. PICK got : got = CacheAllocate(stock, BatchClass)
    OBVIOUS
<1>10. PICK at : at = got.block + HeaderSize
    OBVIOUS
<1>11. PICK size : size = GetSize(p, header[p])
    OBVIOUS
<1>12. PICK e : e = Enqueue(c, p, size, at)
    OBVIOUS
<1>13. /\ NeedsBatch(c) => /\ got.block # None /\ SetStock(t, got.acc)
                           /\ NewBatchChunk(got.block)
       /\ ~NeedsBatch(c) => UNCHANGED <<cache, free, header, marker>>
       /\ pending' = [pending EXCEPT ![x] = e]
    BY <1>1, <1>3, <1>6, <1>7, <1>8, <1>9, <1>10, <1>11, <1>12 DEF Put
<1>14. DOMAIN cache = AllTSDs /\ DOMAIN pending = AllTSDs /\ x \in AllTSDs /\ TSDs \subseteq AllTSDs
    BY DEF Accounted, TSDs, AllTSDs, TSDLocks
<1>15. /\ pending'[x] = e /\ DOMAIN pending' = AllTSDs
       /\ \A y \in AllTSDs \ {x} : pending'[y] = pending[y]
    BY <1>13, <1>14
<1>16. /\ DOMAIN cache' = AllTSDs
       /\ \A y \in TSDs \ {x} : cache'[y] = cache[y]
       /\ NeedsBatch(c) => cache'[x] = got.acc.cache /\ free' = got.acc.free
  <2>1. CASE NeedsBatch(c)
      BY <1>1, <1>3, <1>13, <2>1, StockSet
  <2>2. CASE ~NeedsBatch(c)
      BY <1>13, <1>14, <2>2
  <2> QED
      BY <2>1, <2>2
<1>17. PICK P, Q, Q2 : P = PutPlace(t) /\ Q = PendingPlace(x) /\ Q2 = PendingBatches(x)
    OBVIOUS
<1>18. PICK C, F : C = CachePlace(x) /\ F = FreePlace
    OBVIOUS
<1>19. PICK S : S = {P, Q, Q2, C, F}
    OBVIOUS
<1>20. /\ P \in PtrPlaces /\ Q \in PtrPlaces /\ Q2 \in PtrPlaces
       /\ P # Q /\ P # Q2 /\ Q # Q2
       /\ P.kind = "put" /\ Q.kind = "pending" /\ Q2.kind = "pending batches"
       /\ S \subseteq Places /\ LivePlace \notin S /\ HeldPlace(t) \notin S
    BY <1>17, <1>18, <1>19, PutPlaces
<1>21. PICK T : T = Table
    OBVIOUS
<1>22. PICK T2 : T2 = Table'
    OBVIOUS
<1>23. PICK hd, mk : hd = header /\ mk = marker
    OBVIOUS
<1>24. Owned(T, hd, mk)
    BY <1>21, <1>23 DEF Accounted
<1>25. /\ T[P] = {p} /\ T[Q] = ChunksOf(c.list) /\ T[Q2] = AtsOf(c.list)
       /\ T[C] = cache[x] /\ T[F] = free /\ DOMAIN T = Places
    BY <1>1, <1>2, <1>4, <1>6, <1>7, <1>17, <1>18, <1>21, Lookups DEF Table
<1>26. IsCache(c) /\ p \in T[P] /\ p \in Ptrs /\ p \notin ChunksOf(c.list) /\ size \in Int
  <2>1. IsCache(c)
      BY <1>7, <1>14 DEF Accounted
  <2>2. p \in T[P]
      BY <1>25
  <2>3. p \in Ptrs
      BY <1>20, <1>24, <2>2, AtPlace
  <2>4. T[P] \cap T[Q] = {}
      BY <1>20, <1>24, Disjoint
  <2>5. size \in Int
      BY <1>11, <1>20, <1>23, <1>24, <2>2, SizeIsNumber
  <2> QED
      BY <1>25, <2>1, <2>2, <2>3, <2>4, <2>5
<1>27. IsStock(stock) /\ stock.cache = T[C] /\ stock.free = T[F]
    BY <1>1, <1>3, <1>8, <1>25, StockAt
<1>28. PICK h : h = HeaderFor(got.block, BatchClass, at, BatchBytes)
    OBVIOUS
<1>29. NeedsBatch(c) => /\ got.block # None
                        /\ header' = Written(hd, got.block, at, h)
                        /\ marker' = [mk EXCEPT ![got.block] = h.offset]
    BY <1>10, <1>13, <1>23, <1>28 DEF NewBatchChunk, WriteHeader, Written
\* Wherever the table goes that agrees with the batch.
<1>30. ASSUME NEW T1, NeedsBatch(c),
              Puts(T, T1, P, p, Q, Q2, at, C, got.acc.cache, F, got.acc.free)
       PROVE  Owned(T1, header', marker') /\ at \in Ptrs /\ at \notin T[Q2]
  <2>1. /\ C = CachePlace(x) /\ F = FreePlace /\ got.block # None
        /\ IsStock(stock) /\ stock.cache = T[CachePlace(x)] /\ stock.free = T[FreePlace]
        /\ Puts(T, T1, P, p, Q, Q2, at, CachePlace(x), got.acc.cache, FreePlace, got.acc.free)
      BY <1>18, <1>27, <1>29, <1>30
  <2>2. /\ Owned(T1, Written(hd, got.block, at, h), [mk EXCEPT ![got.block] = h.offset])
        /\ at \in Ptrs /\ at \notin T[Q2]
      BY ONLY <1>9, <1>10, <1>20, <1>24, <1>25, <1>26, <1>28, <2>1, x \in TSDs, PutInNewBatch
  <2> QED
      BY <1>29, <1>30, <2>2
<1>31. NeedsBatch(c) => at \in Ptrs /\ at \notin AtsOf(c.list)
  <2> HAVE NeedsBatch(c)
  <2>1. C \in Places /\ F \in Places /\ C \notin PtrPlaces /\ F \notin PtrPlaces /\ C # F
      BY <1>18, CacheIsPlace, PlacesDiffer DEF Places
  <2>2. P \in Places /\ Q \in Places /\ Q2 \in Places
      BY <1>20 DEF Places
  <2>3. PICK T1 : T1 = [T EXCEPT ![P] = @ \ {p}, ![Q] = @ \cup {p}, ![Q2] = @ \cup {at},
                                 ![C] = got.acc.cache, ![F] = got.acc.free]
      OBVIOUS
  <2>4. /\ T1[P] = T[P] \ {p} /\ T1[Q] = T[Q] \cup {p} /\ T1[Q2] = T[Q2] \cup {at}
        /\ T1[C] = got.acc.cache /\ T1[F] = got.acc.free
        /\ \A R \in Places \ {P, Q, Q2, C, F} : T1[R] = T[R]
      BY <1>20, <1>25, <2>1, <2>2, <2>3
  <2>5. Puts(T, T1, P, p, Q, Q2, at, C, got.acc.cache, F, got.acc.free)
      BY <2>4 DEF Puts, SameBut
  <2> QED
      BY <1>25, <1>30, <2>5
<1>32. /\ IsCache(e) /\ ChunksOf(e.list) = ChunksOf(c.list) \cup {p}
       /\ AtsOf(e.list) = AtsOf(c.list) \cup (IF NeedsBatch(c) THEN {at} ELSE {})
    BY <1>12, <1>26, <1>31, EnqueueFacts
<1>33. CachesFit /\ OnlyCaches(x)
  <2>1. \A y \in AllTSDs : IsCache(pending'[y])
      BY <1>15, <1>32 DEF Accounted
  <2>2. IsCache(quarantine')
      BY <1>2 DEF Accounted
  <2> QED
      BY <1>14, <1>15, <1>16, <2>1, <2>2 DEF CachesFit, OnlyCaches
<1>34. PICK S2 : S2 = S \cup {LivePlace, HeldPlace(t)}
    OBVIOUS
<1>35. Untouched(S2, t, x, stage, work)
    BY <1>1, <1>2, <1>4, <1>5, <1>17, <1>18, <1>19, <1>34 DEF Untouched, Advances
<1>36. /\ Shows(T2, t, x, free', unmapped', live', quarantine', cache', pending', stage, work)
       /\ \E T1 : /\ DOMAIN T1 = Places /\ SameBut(S, T, T1)
                  /\ \A R \in S : T1[R] = T2[R]
                  /\ Owned(T1, header', marker') => Accounted'
  <2>1. Hands(t, stage, work)
      BY <1>5 DEF Advances
  <2>2. /\ Continues /\ CachesFit /\ OnlyCaches(x)
        /\ S \subseteq Places /\ LivePlace \notin S /\ HeldPlace(t) \notin S
      BY <1>2, <1>20, <1>33
  <2>3. Untouched(S \cup {LivePlace, HeldPlace(t)}, t, x, stage, work)
      BY <1>34, <1>35
  <2> QED
      BY ONLY <1>21, <1>22, <2>1, <2>2, <2>3, t \in Threads, LockInv, Accounted, Opens
<1>37. PICK T1 : /\ DOMAIN T1 = Places /\ SameBut(S, T, T1)
                 /\ \A R \in S : T1[R] = T2[R]
                 /\ Owned(T1, header', marker') => Accounted'
    BY <1>36
<1>38. /\ T2[P] = {} /\ T2[Q] = T[Q] \cup {p} /\ T2[C] = cache'[x] /\ T2[F] = free'
       /\ T2[Q2] = T[Q2] \cup (IF NeedsBatch(c) THEN {at} ELSE {})
  <2>1. /\ T2[P] = PtrAt("put", stage, work) /\ T2[Q] = ChunksOf(pending'[x].list)
        /\ T2[C] = cache'[x] /\ T2[F] = free' /\ T2[Q2] = AtsOf(pending'[x].list)
      BY <1>17, <1>18, <1>36 DEF Shows
  <2>2. PtrAt("put", stage, work) = {}
      BY <1>5 DEF Advances
  <2> QED
      BY ONLY <1>15, <1>25, <1>32, <2>1, <2>2
<1>39. CASE NeedsBatch(c)
  <2>1. /\ T1[P] = T[P] \ {p} /\ T1[Q] = T[Q] \cup {p} /\ T1[Q2] = T[Q2] \cup {at}
        /\ T1[C] = got.acc.cache /\ T1[F] = got.acc.free
      BY <1>16, <1>19, <1>25, <1>37, <1>38, <1>39
  <2>2. Puts(T, T1, P, p, Q, Q2, at, C, got.acc.cache, F, got.acc.free)
      BY <1>19, <1>37, <2>1 DEF Puts
  <2> QED
      BY <1>30, <1>37, <1>39, <2>2
<1>40. CASE ~NeedsBatch(c)
  <2>1. UNCHANGED <<cache, free, header, marker>>
      BY <1>13, <1>40
  <2>2. /\ T1[P] = T[P] \ {p} /\ T1[Q] = T[Q] \cup {p} /\ T1[Q2] = T[Q2]
        /\ T1[C] = T[C] /\ T1[F] = T[F]
      BY <1>19, <1>25, <1>37, <1>38, <1>40, <2>1
  <2>3. Moves(T, T1, P, {p}, Q, {p})
      BY <1>19, <1>37, <2>2 DEF Moves, SameBut
  <2>4. {p} \in SUBSET T[P]
      BY <1>26
  <2>5. \A q \in {p} : PtrRule(Q, q, hd[q])
    <3>1. PtrRule(P, p, hd[p])
        BY <1>20, <1>24, <1>26, AtPlace
    <3> QED
        BY <1>20, <3>1 DEF PtrRule
  <2>6. Owned(T1, hd, mk)
      BY ONLY <1>20, <1>24, <2>3, <2>4, <2>5, MovePtrs
  <2> QED
      BY <1>23, <1>37, <2>1, <2>6
<1> QED
    BY <1>39, <1>40

-----------------------------------------------------------------------------
(* Recycling a batch: its chunks and then the batch itself go to the cache *)
(* of the TSD in hand.                                                     *)

Stocks == [cache : SUBSET Blocks, free : SUBSET Blocks, header : [Ptrs -> Headers]]

\* The table after the chunks U of a place went to the stock.
Recycling(T, P, U, x, acc) ==
    [T EXCEPT ![P] = @ \ U, ![CachePlace(x)] = acc.cache, ![FreePlace] = acc.free]

\* What is left of a header when the chunk is recycled.
AsAvailable(acc, p) == [acc EXCEPT !.header[p].state = "Available"]

LEMMA AvailableFacts ==
    ASSUME NEW X, NEW acc, acc \in [cache : X, free : X, header : X], NEW p \in Ptrs,
           acc.header \in [Ptrs -> Headers], NEW r, r = AsAvailable(acc, p)
    PROVE  /\ r.cache = acc.cache /\ r.free = acc.free /\ r.header \in [Ptrs -> Headers]
           /\ r.header[p].state = "Available"
           /\ \A q \in Ptrs \ {p} : r.header[q] = acc.header[q]
           /\ \E V : r \in [cache : V, free : V, header : V]
<1>1. PICK g : g = [acc.header[p] EXCEPT !.state = "Available"]
    OBVIOUS
<1>2. PICK hd : hd = [acc.header EXCEPT ![p] = g]
    OBVIOUS
<1>3. r = [acc EXCEPT !.header = hd]
    BY <1>1, <1>2 DEF AsAvailable
<1>4. g \in Headers /\ g.state = "Available"
    BY <1>1, StateFacts
<1>5. /\ hd \in [Ptrs -> Headers] /\ hd[p].state = "Available"
      /\ \A q \in Ptrs \ {p} : hd[q] = acc.header[q]
    BY <1>2, <1>4
<1>6. r.cache = acc.cache /\ r.free = acc.free /\ r.header = hd
    BY <1>3
<1>7. PICK V : V = X \cup {hd}
    OBVIOUS
<1>8. r \in [cache : V, free : V, header : V]
    BY <1>3, <1>7
<1> QED
    BY <1>5, <1>6, <1>8

\* Only chunks that become available have other headers.
Spared(hd, hd2) == \A q \in Ptrs : hd2[q] = hd[q] \/ hd2[q].state = "Available"

\* A place that holds blocks holds blocks.
LEMMA BlocksAt ==
    ASSUME NEW T, NEW hd, NEW mk, Owned(T, hd, mk), NEW R \in BlockPlaces
    PROVE  T[R] \in SUBSET Blocks
BY DEF Owned, Located

Recycles(T, T1, P, U, x, acc) ==
    /\ DOMAIN T1 = Places
    /\ T1[P] = T[P] \ U /\ T1[CachePlace(x)] = acc.cache /\ T1[FreePlace] = acc.free
    /\ SameBut({P, CachePlace(x), FreePlace}, T, T1)

LEMMA RecyclingFacts ==
    ASSUME NEW T, DOMAIN T = Places, NEW P \in PtrPlaces, NEW U, NEW x \in TSDs, NEW acc,
           NEW T1, T1 = Recycling(T, P, U, x, acc)
    PROVE  Recycles(T, T1, P, U, x, acc)
<1>1. PICK C, F : C = CachePlace(x) /\ F = FreePlace
    OBVIOUS
<1>2. C \in Places /\ F \in Places /\ P \in Places /\ C # F /\ P # C /\ P # F
    BY <1>1, CacheIsPlace, PlacesDiffer DEF Places
<1>3. T1 = [T EXCEPT ![P] = @ \ U, ![C] = acc.cache, ![F] = acc.free]
    BY <1>1 DEF Recycling
<1> QED
    BY <1>1, <1>2, <1>3 DEF Recycles, SameBut

\* QuarantineCallback.recycle and deallocate: one chunk.
LEMMA RecycleOne ==
    ASSUME NEW T, DOMAIN T = Places, NEW P \in PtrPlaces, NEW U, NEW x \in TSDs,
           NEW acc \in Stocks, NEW mk, Owned(Recycling(T, P, U, x, acc), acc.header, mk),
           NEW p \in T[P] \ U, NEW block, block = GetBlockBegin(p, acc.header[p]),
           NEW r, r = AsAvailable(CacheDeallocate(acc, block), p)
    PROVE  /\ r \in Stocks /\ Owned(Recycling(T, P, U \cup {p}, x, r), r.header, mk)
           /\ Spared(acc.header, r.header)
<1>1. PICK T1 : T1 = Recycling(T, P, U, x, acc)
    OBVIOUS
<1>2. PICK d : d = CacheDeallocate(acc, block)
    OBVIOUS
<1>3. PICK T2 : T2 = Recycling(T, P, U \cup {p}, x, r)
    OBVIOUS
<1>4. PICK C, F : C = CachePlace(x) /\ F = FreePlace
    OBVIOUS
<1>5. /\ DOMAIN T1 = Places
      /\ T1[P] = T[P] \ U /\ T1[C] = acc.cache /\ T1[F] = acc.free
      /\ \A R \in Places \ {P, C, F} : T1[R] = T[R]
  <2>1. Recycles(T, T1, P, U, x, acc)
      BY <1>1, RecyclingFacts
  <2> QED
      BY <1>4, <2>1 DEF Recycles, SameBut
<1>6. /\ DOMAIN T2 = Places
      /\ T2[P] = T[P] \ (U \cup {p}) /\ T2[C] = r.cache /\ T2[F] = r.free
      /\ \A R \in Places \ {P, C, F} : T2[R] = T[R]
  <2>1. PICK W : W = U \cup {p}
      OBVIOUS
  <2>2. T2 = Recycling(T, P, W, x, r)
      BY <1>3, <2>1
  <2>3. Recycles(T, T2, P, W, x, r)
      BY <2>2, RecyclingFacts
  <2> QED
      BY <1>4, <2>1, <2>3 DEF Recycles, SameBut
<1>7. PICK hd, cc, ff : hd = acc.header /\ cc = acc.cache /\ ff = acc.free
    OBVIOUS
<1>8. Owned(T1, hd, mk) /\ p \in T1[P] /\ block = GetBlockBegin(p, hd[p])
    BY <1>1, <1>5, <1>7
<1>9. p \in Ptrs
    BY <1>8, AtPlace
<1>10. PICK X : X = {cc, ff, hd}
    OBVIOUS
<1>11. acc \in [cache : X, free : X, header : X] /\ IsStock(acc) /\ hd \in [Ptrs -> Headers]
    BY <1>7, <1>10 DEF Stocks, IsStock
<1>12. /\ d.header = hd
       /\ \E V : d \in [cache : V, free : V, header : V]
    BY <1>2, <1>7, <1>11, DeallocateFacts
<1>13. /\ r.cache = d.cache /\ r.free = d.free /\ r.header \in [Ptrs -> Headers]
       /\ r.header[p].state = "Available"
       /\ \A q \in Ptrs \ {p} : r.header[q] = hd[q]
       /\ \E V : r \in [cache : V, free : V, header : V]
    BY <1>2, <1>9, <1>11, <1>12, AvailableFacts
<1>14. PICK hd2 : hd2 = r.header
    OBVIOUS
<1>15. Owned(T2, hd2, mk)
  <2>1. T2[P] = T1[P] \ {p} /\ T2[C] = d.cache /\ T2[F] = d.free
      BY <1>5, <1>6, <1>13
  <2>2. \A R \in Places \ {P, CachePlace(x), FreePlace} : T2[R] = T1[R]
      BY <1>4, <1>5, <1>6
  <2>3. hd2 \in [Ptrs -> Headers] /\ hd2[p].state # "Allocated" /\ \A q \in Ptrs \ {p} : hd2[q] = hd[q]
      BY <1>13, <1>14
  <2>4. acc.cache = T1[CachePlace(x)] /\ acc.free = T1[FreePlace] /\ DOMAIN T1 = Places
      BY <1>4, <1>5
  <2>5. T2[CachePlace(x)] = d.cache /\ T2[FreePlace] = d.free
      BY <1>4, <2>1
  <2> QED
      BY ONLY <1>2, <1>8, <1>11, <2>1, <2>2, <2>3, <2>4, <2>5, P \in PtrPlaces, x \in TSDs,
              ReleaseToCache
<1>16. r \in Stocks
  <2>1. C \in BlockPlaces /\ F \in BlockPlaces
      BY <1>4, CacheIsPlace
  <2>2. r.cache \in SUBSET Blocks /\ r.free \in SUBSET Blocks
      BY <1>6, <1>15, <2>1, BlocksAt
  <2> QED
      BY <1>13, <2>2 DEF Stocks
<1>17. Spared(acc.header, r.header)
    BY <1>7, <1>13 DEF Spared
<1> QED
    BY <1>3, <1>14, <1>15, <1>16, <1>17

\* The fold of Scrub, as the function it is defined by.
LEMMA ScrubFold ==
    ASSUME NEW stock, NEW S
    PROVE  FoldSet(LAMBDA p, acc : Recycled(acc, p), stock, S) =
             (CHOOSE f : f = [s \in SUBSET S |->
                IF s = {} THEN stock ELSE Recycled(f[s \ {AnyOf(s)}], AnyOf(s))])[S]
BY DEF FoldSet, MapThenFoldSet, AnyOf

\* The stock and the table when the chunks U have been recycled, from these headers.
Emptying(T, P, U, x, mk, hd, acc) ==
    Owned(Recycling(T, P, U, x, acc), acc.header, mk) /\ Spared(hd, acc.header)

\* One chunk more.
LEMMA EmptyOne ==
    ASSUME NEW T, DOMAIN T = Places, NEW P \in PtrPlaces, NEW U, NEW x \in TSDs, NEW hd,
           NEW acc \in Stocks, NEW mk, Emptying(T, P, U, x, mk, hd, acc), NEW p \in T[P] \ U,
           NEW r, r = Recycled(acc, p)
    PROVE  r \in Stocks /\ Emptying(T, P, U \cup {p}, x, mk, hd, r)
<1>1. PICK block : block = GetBlockBegin(p, acc.header[p])
    OBVIOUS
<1>2. r = AsAvailable(CacheDeallocate(acc, block), p)
    BY <1>1 DEF Recycled, AsAvailable
<1>3. Owned(Recycling(T, P, U, x, acc), acc.header, mk) /\ Spared(hd, acc.header)
    BY DEF Emptying
<1>4. /\ r \in Stocks /\ Owned(Recycling(T, P, U \cup {p}, x, r), r.header, mk)
      /\ Spared(acc.header, r.header)
    BY <1>1, <1>2, <1>3, RecycleOne
<1>5. Spared(hd, r.header)
    BY <1>3, <1>4 DEF Spared
<1> QED
    BY <1>4, <1>5 DEF Emptying

\* All chunks of a batch.
LEMMA EmptyAll ==
    ASSUME NEW T, DOMAIN T = Places, NEW P \in PtrPlaces, NEW x \in TSDs, NEW hd,
           NEW stock \in Stocks, NEW mk, Emptying(T, P, {}, x, mk, hd, stock),
           NEW S \in SUBSET T[P], IsFiniteSet(S),
           NEW done, done = FoldSet(LAMBDA p, acc : Recycled(acc, p), stock, S)
    PROVE  done \in Stocks /\ Emptying(T, P, S, x, mk, hd, done)
<1> DEFINE ch    == [s \in SUBSET S |-> AnyOf(s)]
           D     == [s \in SUBSET S |-> {v \in Stocks : Emptying(T, P, s, x, mk, hd, v)}]
           h     == [q \in S \X Stocks |-> Recycled(q[2], q[1])]
           Eq(f) == f = [s \in SUBSET S |->
                           IF s = {} THEN stock ELSE Recycled(f[s \ {AnyOf(s)}], AnyOf(s))]
<1>1. \A s \in SUBSET S : s # {} => ch[s] = AnyOf(s) /\ ch[s] \in s
    BY DEF AnyOf
<1>2. \A s \in SUBSET S : D[s] = {v \in Stocks : Emptying(T, P, s, x, mk, hd, v)}
    OBVIOUS
<1>3. \A p \in S, v \in Stocks : h[<<p, v>>] = Recycled(v, p)
    OBVIOUS
<1>4. \A s \in SUBSET S : D[s] \in SUBSET Stocks
    OBVIOUS
<1>5. stock \in D[{}]
  <2> HIDE DEF D
  <2> QED
      BY <1>2
<1>6. ASSUME NEW s \in SUBSET S, s # {}, NEW v \in D[s \ {ch[s]}]
      PROVE  Recycled(v, ch[s]) \in D[s]
  <2>1. PICK p \in S : p = ch[s] /\ p \in s
      BY <1>1, <1>6
  <2>2. PICK less \in SUBSET S : less = s \ {p}
      OBVIOUS
  <2> HIDE DEF D, ch
  <2>3. v \in Stocks /\ Emptying(T, P, less, x, mk, hd, v)
      BY <1>2, <1>6, <2>1, <2>2
  <2>4. p \in T[P] \ less /\ less \cup {p} = s
      BY <2>1, <2>2
  <2>5. PICK r : r = Recycled(v, p)
      OBVIOUS
  <2>6. r \in Stocks /\ Emptying(T, P, less \cup {p}, x, mk, hd, r)
      BY <2>3, <2>4, <2>5, EmptyOne
  <2> QED
      BY <1>2, <2>1, <2>4, <2>5, <2>6
<1> HIDE DEF ch, D, h
<1>7. \E f : Eq(f)
  <2>1. ASSUME NEW s \in SUBSET S, s # {}
        PROVE  ch[s] \in s /\ \A v \in D[s \ {ch[s]}] : h[<<ch[s], v>>] \in D[s]
    <3>1. ch[s] \in S /\ s \ {ch[s]} \in SUBSET S /\ ch[s] \in s
        BY <1>1, <2>1
    <3>2. ASSUME NEW v \in D[s \ {ch[s]}] PROVE h[<<ch[s], v>>] \in D[s]
      <4>1. v \in Stocks
          BY <1>4, <3>1
      <4>2. h[<<ch[s], v>>] = Recycled(v, ch[s])
          BY <1>3, <3>1, <4>1
      <4> QED
          BY <1>6, <2>1, <4>2
    <3> QED
        BY <3>1, <3>2
  <2>2. PICK f : IsFold(f, S, ch, stock, h) /\ \A s \in SUBSET S : f[s] \in D[s]
      BY <1>5, <2>1, FoldWithin
  <2>3. ASSUME NEW s \in SUBSET S, s # {}
        PROVE  h[<<ch[s], f[s \ {ch[s]}]>>] = Recycled(f[s \ {AnyOf(s)}], AnyOf(s))
    <3>1. ch[s] \in S /\ s \ {ch[s]} \in SUBSET S
        BY <1>1, <2>3
    <3>2. f[s \ {ch[s]}] \in Stocks
        BY <1>4, <2>2, <3>1
    <3>3. h[<<ch[s], f[s \ {ch[s]}]>>] = Recycled(f[s \ {ch[s]}], ch[s])
        BY <1>3, <3>1, <3>2
    <3> QED
        BY <1>1, <2>3, <3>3
  <2>4. Eq(f)
      BY <2>2, <2>3 DEF IsFold
  <2> QED
      BY <2>4
<1>8. PICK f : f = (CHOOSE g : Eq(g))
    OBVIOUS
<1>9. Eq(f)
  <2> HIDE DEF Eq
  <2> QED
      BY <1>7, <1>8
<1>10. f[{}] = stock
    BY <1>9
<1>11. \A s \in SUBSET S : s # {} => f[s] = Recycled(f[s \ {ch[s]}], ch[s])
    BY <1>1, <1>9
<1>12. done = f[S]
    BY <1>8, ScrubFold
<1> HIDE DEF Eq
<1>13. \A s \in SUBSET S : f[s] \in D[s]
  <2>1. \A s \in SUBSET S : s # {} =>
              ch[s] \in s /\ (f[s \ {ch[s]}] \in D[s \ {ch[s]}] => f[s] \in D[s])
      BY <1>1, <1>6, <1>11
  <2>2. f[{}] \in D[{}]
      BY <1>5, <1>10
  <2> QED
      BY <2>1, <2>2, SubsetInduction
<1> QED
    BY <1>2, <1>12, <1>13

\* The batch follows its chunks; its header says that it begins right behind the header.
LEMMA BatchGoes ==
    ASSUME NEW T, DOMAIN T = Places, NEW P2 \in PtrPlaces, P2.kind = "recycle batches",
           NEW x \in TSDs, NEW acc \in Stocks, NEW mk, Owned(T, acc.header, mk),
           acc.cache = T[CachePlace(x)], acc.free = T[FreePlace], NEW at \in T[P2],
           NEW r, r = DeallocatedBatch(acc, at)
    PROVE  /\ r \in Stocks /\ Owned(Recycling(T, P2, {at}, x, r), r.header, mk)
           /\ Spared(acc.header, r.header)
<1>1. PtrRule(P2, at, acc.header[at]) /\ at \in Nat
    BY AtPlace
<1>2. acc.header[at] = BatchHeader
    BY <1>1 DEF PtrRule
<1>3. BatchHeader.offset = 0
  <2>1. PICK none : none = NoHeader
      OBVIOUS
  <2>2. PICK used : used = [none EXCEPT !.state = "Allocated"]
      OBVIOUS
  <2>3. PICK ours : ours = [used EXCEPT !.class = BatchClass]
      OBVIOUS
  <2>4. BatchHeader = [ours EXCEPT !.amount = BatchBytes]
      BY <2>1, <2>2, <2>3, Zenon DEF BatchHeader
  <2>5. ours = [state |-> "Allocated", class |-> BatchClass, amount |-> 0, offset |-> 0]
      BY <2>1, <2>2, <2>3 DEF NoHeader
  <2> QED
      BY <2>4, <2>5
<1>4. PICK block : block = at - HeaderSize
    OBVIOUS
<1>5. block = GetBlockBegin(at, acc.header[at])
  <2>1. PICK g : g = acc.header[at]
      OBVIOUS
  <2>2. g.offset = 0 /\ HeaderSize = 1
      BY <1>2, <1>3, <2>1 DEF HeaderSize
  <2>3. at - HeaderSize - g.offset = at - HeaderSize
    <3>1. PICK o, s : o = g.offset /\ s = HeaderSize
        OBVIOUS
    <3>2. o = 0 /\ s = 1 /\ at \in Nat
        BY <1>1, <2>2, <3>1
    <3>3. at - s - o = at - s
        BY ONLY <3>2
    <3> QED
        BY <3>1, <3>3
  <2> QED
      BY <1>4, <2>1, <2>3 DEF GetBlockBegin
<1>6. r = AsAvailable(CacheDeallocate(acc, block), at)
    BY <1>4 DEF DeallocatedBatch, AsAvailable
<1>7. PICK T1 : T1 = Recycling(T, P2, {}, x, acc)
    OBVIOUS
<1>8. Recycles(T, T1, P2, {}, x, acc)
    BY <1>7, RecyclingFacts
<1>9. Owned(T1, acc.header, mk)
  <2>1. \A R \in Places : T1[R] = T[R]
    <3> SUFFICES ASSUME NEW R \in Places PROVE T1[R] = T[R]
        OBVIOUS
    <3>1. CASE R \in {P2, CachePlace(x), FreePlace}
        BY <1>8, <3>1 DEF Recycles
    <3>2. CASE R \notin {P2, CachePlace(x), FreePlace}
        BY <1>8, <3>2 DEF Recycles, SameBut
    <3> QED
        BY <3>1, <3>2
  <2>2. LivePlace \in PtrPlaces /\ LivePlace # P2 /\ P2 \in Places /\ LivePlace \in Places
    <3>1. LivePlace.kind = "live"
        BY DEF LivePlace, Place
    <3>2. LivePlace \in PtrPlaces
        BY DEF LivePlace, Place, PtrPlaces
    <3> QED
        BY <3>1, <3>2 DEF Places
  <2>3. Moves(T, T1, P2, {}, LivePlace, {})
      BY <2>1, <2>2 DEF Moves
  <2>4. PICK hd : hd = acc.header
      OBVIOUS
  <2>5. Owned(T, hd, mk) /\ {} \in SUBSET T[P2] /\ \A p \in {} : PtrRule(LivePlace, p, hd[p])
      BY <2>4
  <2>6. Owned(T1, hd, mk)
      BY ONLY <2>2, <2>3, <2>5, P2 \in PtrPlaces, MovePtrs
  <2> QED
      BY <2>4, <2>6
<1>10. PICK U : U = {}
    OBVIOUS
<1>11. at \in T[P2] \ U /\ U \cup {at} = {at} /\ Owned(Recycling(T, P2, U, x, acc), acc.header, mk)
    BY <1>7, <1>9, <1>10
<1>12. /\ r \in Stocks /\ Owned(Recycling(T, P2, U \cup {at}, x, r), r.header, mk)
       /\ Spared(acc.header, r.header)
    BY ONLY <1>5, <1>6, <1>11, DOMAIN T = Places, P2 \in PtrPlaces, x \in TSDs, acc \in Stocks,
            RecycleOne
<1> QED
    BY <1>11, <1>12

\* Only what is at the places counts.
LEMMA Agrees ==
    ASSUME NEW T, NEW hd, NEW mk, Owned(T, hd, mk), NEW P \in PtrPlaces, NEW Q \in PtrPlaces,
           P # Q, NEW T1, \A R \in Places : T1[R] = T[R]
    PROVE  Owned(T1, hd, mk)
<1>1. P \in Places /\ Q \in Places
    BY DEF Places
<1>2. Moves(T, T1, P, {}, Q, {}) /\ {} \in SUBSET T[P] /\ \A p \in {} : PtrRule(Q, p, hd[p])
    BY <1>1 DEF Moves
<1> QED
    BY <1>2, MovePtrs

\* The table after a batch and its chunks have gone.
Scrubs(T, T1, P, U, P2, at, x, done) ==
    /\ T1[P] = T[P] \ U /\ T1[P2] = T[P2] \ {at}
    /\ T1[CachePlace(x)] = done.cache /\ T1[FreePlace] = done.free
    /\ SameBut({P, P2, CachePlace(x), FreePlace}, T, T1)

LEMMA ScrubBatch ==
    ASSUME NEW T, DOMAIN T = Places, NEW P \in PtrPlaces, NEW P2 \in PtrPlaces, P # P2,
           P2.kind = "recycle batches", NEW x \in TSDs, NEW stock \in Stocks, NEW mk,
           Owned(T, stock.header, mk),
           stock.cache = T[CachePlace(x)], stock.free = T[FreePlace],
           NEW S \in SUBSET T[P], IsFiniteSet(S), NEW at \in T[P2],
           NEW emptied, emptied = FoldSet(LAMBDA p, acc : Recycled(acc, p), stock, S),
           NEW done, done = DeallocatedBatch(emptied, at),
           NEW T1, Scrubs(T, T1, P, S, P2, at, x, done)
    PROVE  done \in Stocks /\ Owned(T1, done.header, mk) /\ Spared(stock.header, done.header)
<1>1. PICK C, F : C = CachePlace(x) /\ F = FreePlace
    OBVIOUS
<1>2. /\ C \in Places /\ F \in Places /\ P \in Places /\ P2 \in Places /\ C # F
      /\ P # C /\ P # F /\ P2 # C /\ P2 # F
    BY <1>1, CacheIsPlace, PlacesDiffer DEF Places
<1>3. PICK hd : hd = stock.header
    OBVIOUS
<1>4. PICK T0 : T0 = Recycling(T, P, {}, x, stock)
    OBVIOUS
<1>5. Recycles(T, T0, P, {}, x, stock)
    BY <1>4, RecyclingFacts
<1>6. Owned(T0, hd, mk)
  <2>1. \A R \in Places : T0[R] = T[R]
    <3> SUFFICES ASSUME NEW R \in Places PROVE T0[R] = T[R]
        OBVIOUS
    <3>1. CASE R \in {P, CachePlace(x), FreePlace}
        BY <1>5, <3>1 DEF Recycles
    <3>2. CASE R \notin {P, CachePlace(x), FreePlace}
        BY <1>5, <3>2 DEF Recycles, SameBut
    <3> QED
        BY <3>1, <3>2
  <2>2. Owned(T, hd, mk)
      BY <1>3
  <2> QED
      BY ONLY <2>1, <2>2, P \in PtrPlaces, P2 \in PtrPlaces, P # P2, Agrees
<1>7. Emptying(T, P, {}, x, mk, hd, stock)
    BY <1>3, <1>4, <1>6 DEF Emptying, Spared
<1>8. emptied \in Stocks /\ Emptying(T, P, S, x, mk, hd, emptied)
    BY <1>7, EmptyAll
<1>9. PICK T3 : T3 = Recycling(T, P, S, x, emptied)
    OBVIOUS
<1>10. Owned(T3, emptied.header, mk) /\ Spared(hd, emptied.header)
    BY <1>8, <1>9 DEF Emptying
<1>11. Recycles(T, T3, P, S, x, emptied)
    BY <1>9, RecyclingFacts
<1>12. /\ DOMAIN T3 = Places /\ emptied.cache = T3[CachePlace(x)] /\ emptied.free = T3[FreePlace]
       /\ at \in T3[P2]
    BY <1>1, <1>2, <1>11 DEF Recycles, SameBut
<1>13. PICK T4 : T4 = Recycling(T3, P2, {at}, x, done)
    OBVIOUS
<1>14. Recycles(T3, T4, P2, {at}, x, done)
  <2>1. PICK U : U = {at}
      OBVIOUS
  <2>2. T4 = Recycling(T3, P2, U, x, done)
      BY <1>13, <2>1
  <2>3. Recycles(T3, T4, P2, U, x, done)
      BY <1>12, <2>2, RecyclingFacts
  <2> QED
      BY <2>1, <2>3
<1>15. done \in Stocks /\ Owned(T4, done.header, mk) /\ Spared(emptied.header, done.header)
    BY <1>8, <1>10, <1>12, <1>13, BatchGoes
<1>16. \A R \in Places : T1[R] = T4[R]
  <2>1. /\ T3[P] = T[P] \ S /\ T3[P2] = T[P2]
        /\ \A R \in Places \ {P, C, F} : T3[R] = T[R]
      BY <1>1, <1>2, <1>11 DEF Recycles, SameBut
  <2>2. /\ T4[P2] = T3[P2] \ {at} /\ T4[C] = done.cache /\ T4[F] = done.free /\ T4[P] = T3[P]
        /\ \A R \in Places \ {P2, C, F} : T4[R] = T3[R]
      BY <1>1, <1>2, <1>14 DEF Recycles, SameBut
  <2>3. /\ T1[P] = T[P] \ S /\ T1[P2] = T[P2] \ {at} /\ T1[C] = done.cache /\ T1[F] = done.free
        /\ \A R \in Places \ {P, P2, C, F} : T1[R] = T[R]
      BY <1>1 DEF Scrubs, SameBut
  <2>4. ASSUME NEW R \in Places \ {P, P2, C, F} PROVE T1[R] = T4[R]
      BY ONLY <2>1, <2>2, <2>3, <2>4
  <2>5. T1[P] = T4[P] /\ T1[P2] = T4[P2] /\ T1[C] = T4[C] /\ T1[F] = T4[F]
      BY ONLY <2>1, <2>2, <2>3
  <2> QED
      BY ONLY <2>4, <2>5
<1>17. PICK hd3 : hd3 = done.header
    OBVIOUS
<1>18. Owned(T1, hd3, mk)
  <2>1. Owned(T4, hd3, mk)
      BY <1>15, <1>17
  <2> QED
      BY ONLY <1>16, <2>1, P \in PtrPlaces, P2 \in PtrPlaces, P # P2, Agrees
<1>19. Spared(stock.header, done.header)
    BY <1>3, <1>10, <1>15 DEF Spared
<1> QED
    BY <1>15, <1>17, <1>18, <1>19

\* doRecycle, one batch.
LEMMA ScrubOwned ==
    ASSUME LockInv, Accounted, NEW t \in Threads, Scrub(t)
    PROVE  Accounted' /\ Spared(header, header')
<1>1. PICK v : v = job[t]
    OBVIOUS
<1>2. /\ pc[t] = "scrub" /\ Continues
      /\ UNCHANGED <<unmapped, quarantine, pending, marker>>
    BY DEF Scrub, At, Continues, registryVars, quarantineVars
<1>3. PICK x \in TSDs : x = v.tsd
    BY <1>1, <1>2, ShapeAt DEF InHand
<1>4. Shape(pc[t], v) /\ IsJob(v)
    BY <1>1, ShapeAt
<1>5. /\ pc[t] \in Delivered /\ pc[t] \in GivenUp
      /\ v.batches # <<>> /\ Tidy(v.batches)
    BY <1>2, <1>4 DEF Delivered, GivenUp, Shape
<1>6. PICK list : list = v.batches
    OBVIOUS
<1>7. PICK batch, left : batch = Head(list) /\ left = Tail(list)
    OBVIOUS
<1>8. PICK U, at : U = batch.chunks /\ at = batch.at
    OBVIOUS
<1>9. /\ Tidy(left) /\ IsFiniteSet(U) /\ U \subseteq ChunksOf(list) /\ at \in AtsOf(list)
      /\ ChunksOf(left) = ChunksOf(list) \ U /\ AtsOf(left) = AtsOf(list) \ {at}
    BY <1>5, <1>6, <1>7, <1>8, TailList DEF Batches, FiniteParts
<1>10. PICK stock : stock = [cache |-> cache[x], free |-> free, header |-> header]
    OBVIOUS
<1>11. PICK emptied : emptied = FoldSet(LAMBDA p, acc : Recycled(acc, p), stock, U)
    OBVIOUS
<1>12. PICK done : done = DeallocatedBatch(emptied, at)
    OBVIOUS
<1>13. /\ SetStock(t, done) /\ header' = done.header
       /\ IF left = <<>> THEN EndQuarantine(t, lock)
          ELSE Step(t, "scrub", WithBatches(v, left)) /\ UNCHANGED <<lock, live>>
    BY <1>1, <1>3, <1>6, <1>7, <1>8, <1>10, <1>11, <1>12 DEF Scrub, WithBatches
<1>14. \E stage, work : Advances(t, stage, work) /\ work.batches = left
  <2>1. CASE left = <<>>
      BY <1>5, <1>13, <2>1, QuarantineEnds
  <2>2. CASE left # <<>>
    <3>1. PICK w : w = WithBatches(v, left)
        OBVIOUS
    <3>2. /\ Same(w, v) /\ w.tsd = v.tsd /\ w.result = v.result
          /\ w.batches = left /\ w.todo = v.todo
        BY <1>4, <3>1, WorkFields
    <3>3. Goes(t, "scrub", w) /\ live' = live /\ "scrub" \in Delivered
        BY <1>13, <2>2, <3>1 DEF Step, Goes, Delivered
    <3>4. Advances(t, "scrub", w)
        BY <1>1, <1>5, <1>9, <2>2, <3>2, <3>3, GoesForward
    <3> QED
        BY <3>2, <3>4
  <2> QED
      BY <2>1, <2>2
<1>15. PICK stage, work : Advances(t, stage, work) /\ work.batches = left
    BY <1>14
<1>16. /\ cache'[x] = done.cache /\ free' = done.free /\ DOMAIN cache' = AllTSDs
       /\ \A y \in TSDs \ {x} : cache'[y] = cache[y]
    BY <1>1, <1>3, <1>13, StockSet
<1>17. CachesFit /\ OnlyCaches(x)
    BY <1>2, <1>16 DEF CachesFit, OnlyCaches, Accounted
<1>18. PICK P, P2 : P = RecyclePlace(t) /\ P2 = RecycleBatches(t)
    OBVIOUS
<1>19. PICK S : S = {P, P2, CachePlace(x), FreePlace}
    OBVIOUS
<1>20. /\ P \in PtrPlaces /\ P2 \in PtrPlaces /\ P # P2 /\ P2.kind = "recycle batches"
       /\ S \subseteq Places /\ LivePlace \notin S /\ HeldPlace(t) \notin S
  <2>1. /\ P \in PtrPlaces /\ P2 \in PtrPlaces /\ P.kind = "recycle"
        /\ P2.kind = "recycle batches" /\ LivePlace.kind = "live" /\ HeldPlace(t).kind = "held"
        /\ LivePlace \in PtrPlaces /\ HeldPlace(t) \in PtrPlaces
      BY <1>18, HandPlaces
  <2>2. CachePlace(x) \in BlockPlaces /\ FreePlace \in BlockPlaces
      BY CacheIsPlace
  <2> QED
      BY <1>19, <2>1, <2>2, PlacesDiffer DEF Places
<1>21. PICK S2 : S2 = S \cup {LivePlace, HeldPlace(t)}
    OBVIOUS
<1>22. Untouched(S2, t, x, stage, work)
  <2>1. /\ MarkedBy(pc[t], v) = {} /\ PtrAt("put", pc[t], v) = {} /\ PtrAt("unmap", pc[t], v) = {}
      BY <1>5, NothingMarked
  <2> QED
      BY <1>1, <1>2, <1>15, <1>18, <1>19, <1>21, <2>1 DEF Untouched, Advances
<1>23. PICK T : T = Table
    OBVIOUS
<1>24. PICK T2 : T2 = Table'
    OBVIOUS
<1>25. /\ Shows(T2, t, x, free', unmapped', live', quarantine', cache', pending', stage, work)
       /\ \E T1 : /\ DOMAIN T1 = Places /\ SameBut(S, T, T1)
                  /\ \A R \in S : T1[R] = T2[R]
                  /\ Owned(T1, header', marker') => Accounted'
  <2>1. Hands(t, stage, work)
      BY <1>15 DEF Advances
  <2>2. /\ Continues /\ CachesFit /\ OnlyCaches(x)
        /\ S \subseteq Places /\ LivePlace \notin S /\ HeldPlace(t) \notin S
      BY <1>2, <1>17, <1>20
  <2>3. Untouched(S \cup {LivePlace, HeldPlace(t)}, t, x, stage, work)
      BY <1>21, <1>22
  <2> QED
      BY ONLY <1>23, <1>24, <2>1, <2>2, <2>3, t \in Threads, LockInv, Accounted, Opens
<1>26. PICK T1 : /\ DOMAIN T1 = Places /\ SameBut(S, T, T1)
                 /\ \A R \in S : T1[R] = T2[R]
                 /\ Owned(T1, header', marker') => Accounted'
    BY <1>25
<1>27. PICK hd, mk : hd = header /\ mk = marker
    OBVIOUS
<1>28. Owned(T, hd, mk)
    BY <1>23, <1>27 DEF Accounted
<1>29. /\ T[P] = ChunksOf(list) /\ T[P2] = AtsOf(list)
       /\ T[CachePlace(x)] = cache[x] /\ T[FreePlace] = free /\ DOMAIN T = Places
    BY <1>1, <1>6, <1>18, <1>23, Lookups DEF Table
<1>30. stock \in Stocks
  <2>1. CachePlace(x) \in BlockPlaces /\ FreePlace \in BlockPlaces
      BY CacheIsPlace
  <2>2. cache[x] \in SUBSET Blocks /\ free \in SUBSET Blocks
      BY <1>28, <1>29, <2>1, BlocksAt
  <2>3. hd \in [Ptrs -> Headers]
      BY <1>28 DEF Owned, Located
  <2> QED
      BY <1>10, <1>27, <2>2, <2>3 DEF Stocks
<1>31. /\ T2[P] = ChunksOf(left) /\ T2[P2] = AtsOf(left)
       /\ T2[CachePlace(x)] = done.cache /\ T2[FreePlace] = done.free
    BY <1>15, <1>16, <1>18, <1>25 DEF Shows
<1>32. Scrubs(T, T1, P, U, P2, at, x, done)
    BY <1>9, <1>19, <1>26, <1>29, <1>31 DEF Scrubs
<1>33. Owned(T1, done.header, mk) /\ Spared(hd, done.header)
  <2>1. /\ stock.header = hd /\ stock.cache = T[CachePlace(x)] /\ stock.free = T[FreePlace]
      BY <1>10, <1>27, <1>29
  <2>2. Owned(T, stock.header, mk)
      BY <1>28, <2>1
  <2>3. U \in SUBSET T[P] /\ at \in T[P2]
      BY <1>9, <1>29
  <2> QED
      BY ONLY <1>9, <1>11, <1>12, <1>20, <1>29, <1>30, <1>32, <2>1, <2>2, <2>3, x \in TSDs,
              ScrubBatch
<1> QED
    BY <1>2, <1>13, <1>26, <1>27, <1>33

-----------------------------------------------------------------------------
(* Every step keeps the account.                                           *)

\* The process is aborted.
LEMMA AbortDead == ASSUME LockInv, NEW t \in Threads, OutOfMemory(t) PROVE Dead'
BY DEF OutOfMemory, Dead, Aborted, At

\* A process that has aborted does nothing more.
LEMMA DeadDoesNothing == ASSUME Dead, NEW t \in Threads, Action(t) PROVE FALSE
<1>1. pc[t] = "aborted"
    BY DEF Dead
<1>2. ~ Initialize(t) /\ ~ GetTSD(t)
    BY <1>1 DEF Initialize, InitOnce, AttachExclusive, AttachShared, GetTSD, TakeOwn,
                TakeFallback, LockFallback, TakeCurrent, TakeSlow, TakeCandidate, At
<1>3. ~ Allocate(t) /\ ~ Deallocate(t)
    BY <1>1 DEF Allocate, Malloc, Pop, Map, Deallocate, Dealloc, Realloc, Resize, Mark, Push,
                Unmap, Call, At
<1>4. ~ Quarantining(t)
    BY <1>1 DEF Quarantining, Put, OutOfMemory, TransferCache, TryRecycle, LockRecycle, Recycle,
                UnlockRecycle, Scrub, At
<1>5. ~ Draining(t) /\ ~ Exiting(t) /\ ~ Blocking(t)
    BY <1>1 DEF Draining, DrainCaches, LockTSDs, NextTSD, Flush, Exiting, BeginExit, NextRound,
                TeardownThread, Unlink, Blocking, Disable, Disabling, Enable, Call, At
<1> QED
    BY <1>2, <1>3, <1>4, <1>5 DEF Action

LEMMA ActionOwned ==
    ASSUME LockInv, Accounted, NEW t \in Threads, Action(t) PROVE Accounted' \/ OutOfMemory(t)
<1>1. CASE Initialize(t) \/ GetTSD(t)
    BY <1>1, InitializeOwned, GetTSDOwned
<1>2. CASE Allocate(t)
    BY <1>2, PlainCalls, PopOwned, MapOwned DEF Allocate
<1>3. CASE Deallocate(t)
    BY <1>3, PtrCalls, ResizeOwned, MarkOwned, PushOwned, UnmapOwned DEF Deallocate
<1>4. CASE Quarantining(t)
    BY <1>4, PutOwned, TransferOwned, RecycleLockOwned, RecycleOwned, ScrubOwned
       DEF Quarantining
<1>5. CASE Draining(t)
    BY <1>5, PlainCalls, DrainingOwned, FlushOwned DEF Draining
<1>6. CASE Exiting(t) \/ Blocking(t)
    BY <1>6, PlainCalls, ExitingOwned, BlockingOwned DEF Blocking
<1> QED
    BY <1>1, <1>2, <1>3, <1>4, <1>5, <1>6 DEF Action

LEMMA OwnInvStep == LockInv /\ OwnInv /\ [Next]_vars => OwnInv'
<1> SUFFICES ASSUME LockInv, OwnInv, [Next]_vars PROVE OwnInv'
    OBVIOUS
<1>1. CASE UNCHANGED vars
  <2>1. UNCHANGED <<pc, job>> /\ Continues /\ HeapStays
      BY <1>1 DEF vars, registryVars, threadVars, heapVars, quarantineVars, chunkVars, callVars,
                  Continues, HeapStays
  <2>2. Dead => Dead'
      BY <2>1 DEF Dead, Aborted, At
  <2>3. Accounted => Accounted'
      BY <2>1, Rests
  <2> QED
      BY <2>2, <2>3 DEF OwnInv
<1>2. ASSUME NEW t \in Threads, Action(t) PROVE OwnInv'
    BY <1>2, DeadDoesNothing, ActionOwned, AbortDead DEF OwnInv
<1>3. UNCHANGED vars \/ \E t \in Threads : Action(t)
    BY DEF Next, Over, Action
<1> QED
    BY <1>1, <1>2, <1>3

\* The blocks are accounted for, unless the process has aborted.
THEOREM OwnInvariant == Spec => []OwnInv
<1>1. LockInv /\ OwnInv /\ [Next]_vars => OwnInv'
    BY OwnInvStep
<1> QED
    BY <1>1, OwnInvInit, LockInvariant, PTL DEF Spec

-----------------------------------------------------------------------------
(* A block has one holder.                                                 *)

\* The block of a chunk at a place is at that place.
LEMMA Home ==
    ASSUME NEW loc, NEW T, Located(loc, T, header, marker), NEW R \in PtrPlaces,
           NEW block \in Blocks
    PROVE  /\ \A p \in T[R] : BlockOf(p) = block => loc[block] = R /\ p = ChunkAt(block, marker)
           /\ loc[block] = R => /\ ChunkAt(block, marker) \in T[R]
                                /\ BlockOf(ChunkAt(block, marker)) = block
<1>1. ASSUME NEW p \in T[R], BlockOf(p) = block
      PROVE  loc[block] = R /\ p = ChunkAt(block, marker)
    BY <1>1, Behind DEF BlockOf
<1>2. ASSUME loc[block] = R
      PROVE  /\ ChunkAt(block, marker) \in T[R]
             /\ BlockOf(ChunkAt(block, marker)) = block
  <2>1. PICK p : p = ChunkAt(block, marker)
      OBVIOUS
  <2>2. p \in T[R]
      BY <1>2, <2>1 DEF Located
  <2>3. PICK b : b = BlockOf(p)
      OBVIOUS
  <2>4. b \in Blocks /\ p = ChunkAt(b, marker)
      BY <2>2, <2>3, Behind DEF BlockOf
  <2>5. marker \in [Blocks -> Nat] /\ \A c \in Blocks : c + marker[c] < EndOf(c)
      BY DEF Located
  <2>6. b = block
      BY <2>1, <2>4, <2>5, ChunksDiffer
  <2> QED
      BY <2>1, <2>2, <2>3, <2>6
<1> QED
    BY <1>1, <1>2

LEMMA HoldersParts ==
    ASSUME NEW block
    PROVE  /\ Holders(block) = OtherHolders(block) \cup TSDHolders(block) \cup CallHolders(block)
           /\ \A h : h \in TSDHolders(block) <=> \E tsd \in TSDs : h \in HoldersInTSD(tsd, block)
           /\ \A h : h \in CallHolders(block) <=> \E t \in Threads : h \in HoldersInCall(t, block)
<1>1. Holders(block) = OtherHolders(block) \cup TSDHolders(block) \cup CallHolders(block)
    BY DEF Holders
<1>2. \A h : h \in TSDHolders(block) <=> \E tsd \in TSDs : h \in HoldersInTSD(tsd, block)
    BY DEF TSDHolders
<1>3. \A h : h \in CallHolders(block) <=> \E t \in Threads : h \in HoldersInCall(t, block)
    BY DEF CallHolders
<1> QED
    BY <1>1, <1>2, <1>3

\* A part has one holder if the place is one of its places, and none otherwise.
Part(part, place, places) ==
    /\ place \in places => \E h : part = {h}
    /\ place \notin places => part = {}

LEMMA PartOfSet ==
    ASSUME NEW set, NEW block, NEW R, NEW places, block \in set <=> R \in places,
           NEW place, NEW of
    PROVE  Part(InSet(place, of, set, block), R, places)
BY DEF Part, InSet

LEMMA PartOfList ==
    ASSUME NEW loc, NEW T, Located(loc, T, header, marker), NEW list, Tidy(list),
           NEW P \in PtrPlaces, NEW P2 \in PtrPlaces, P # P2,
           T[P] = ChunksOf(list), T[P2] = AtsOf(list), NEW block \in Blocks, NEW place, NEW of
    PROVE  Part(InList(place, of, list, block), loc[block], {P, P2})
<1>1. PICK p : p = ChunkAt(block, marker)
    OBVIOUS
<1>2. ASSUME NEW j \in DOMAIN list, block \in BlocksOfBatch(list[j])
      PROVE  \/ loc[block] = P /\ p \in list[j].chunks
             \/ loc[block] = P2 /\ p = list[j].at
  <2>1. PICK q \in {list[j].at} \cup list[j].chunks : BlockOf(q) = block
      BY <1>2 DEF BlocksOfBatch
  <2>2. CASE q = list[j].at
    <3>1. q \in T[P2]
        BY <2>2 DEF AtsOf
    <3> QED
        BY <1>1, <2>1, <2>2, <3>1, Home
  <2>3. CASE q \in list[j].chunks
    <3>1. q \in T[P]
        BY <2>3 DEF ChunksOf
    <3> QED
        BY <1>1, <2>1, <2>3, <3>1, Home
  <2> QED
      BY <2>1, <2>2, <2>3
<1>3. CASE loc[block] \notin {P, P2}
    BY <1>2, <1>3 DEF Part, InList
<1>4. ASSUME NEW i \in DOMAIN list, block \in BlocksOfBatch(list[i]),
             \A j \in DOMAIN list : block \in BlocksOfBatch(list[j]) => j = i
      PROVE  InList(place, of, list, block) = {<<place, of, i>>}
    BY <1>4 DEF InList
<1>5. CASE loc[block] = P
  <2>1. p \in ChunksOf(list) /\ BlockOf(p) = block
      BY <1>1, <1>5, Home
  <2>2. PICK i \in DOMAIN list : p \in list[i].chunks
      BY <2>1 DEF ChunksOf
  <2>3. block \in BlocksOfBatch(list[i])
      BY <2>1, <2>2 DEF BlocksOfBatch
  <2>4. ASSUME NEW j \in DOMAIN list, block \in BlocksOfBatch(list[j]) PROVE j = i
    <3>1. p \in list[j].chunks
        BY <1>2, <1>5, <2>4
    <3> QED
        BY <2>2, <3>1 DEF Tidy
  <2> QED
      BY <1>4, <1>5, <2>3, <2>4 DEF Part
<1>6. CASE loc[block] = P2
  <2>1. p \in AtsOf(list) /\ BlockOf(p) = block
      BY <1>1, <1>6, Home
  <2>2. PICK i \in DOMAIN list : p = list[i].at
      BY <2>1 DEF AtsOf
  <2>3. block \in BlocksOfBatch(list[i])
      BY <2>1, <2>2 DEF BlocksOfBatch
  <2>4. ASSUME NEW j \in DOMAIN list, block \in BlocksOfBatch(list[j]) PROVE j = i
    <3>1. p = list[j].at
        BY <1>2, <1>6, <2>4
    <3> QED
        BY <2>2, <3>1 DEF Tidy
  <2> QED
      BY <1>4, <1>6, <2>3, <2>4 DEF Part
<1> QED
    BY <1>3, <1>5, <1>6

\* What a call has in its hands is at one of its places.
LEMMA InHandParts ==
    ASSUME NEW t \in Threads
    PROVE  Passed(t) \cup ({job[t].result} \ {None}) =
             HeldBy(pc[t], job[t]) \cup MarkedBy(pc[t], job[t])
             \cup PtrAt("put", pc[t], job[t]) \cup PtrAt("unmap", pc[t], job[t])
<1>1. PICK stage, v : stage = pc[t] /\ v = job[t]
    OBVIOUS
<1>2. Passed(t) = IF stage \in Delivered THEN {} ELSE {v.ptr} \ {None}
    BY <1>1 DEF Passed
<1>3. CASE stage \in Delivered
  <2>1. Grip(stage, v) = "gone"
      BY <1>3 DEF Grip
  <2> QED
      BY <1>1, <1>2, <1>3, <2>1, Grips
<1>4. CASE stage \in {"put", "unmap"}
  <2>1. Grip(stage, v) = stage /\ stage \notin Delivered
      BY <1>4 DEF Grip, Delivered
  <2> QED
      BY <1>1, <1>2, <1>4, <2>1, Grips
<1>5. CASE stage \notin Delivered \cup {"put", "unmap"} /\ Marked(stage, v)
  <2>1. Grip(stage, v) = "marked"
      BY <1>5 DEF Grip
  <2> QED
      BY <1>1, <1>2, <1>5, <2>1, Grips
<1>6. CASE stage \notin Delivered \cup {"put", "unmap"} /\ ~Marked(stage, v)
  <2>1. Grip(stage, v) = "held"
      BY <1>6 DEF Grip
  <2> QED
      BY <1>1, <1>2, <1>6, <2>1, Grips
<1> QED
    BY <1>3, <1>4, <1>5, <1>6

LEMMA JoinParts ==
    ASSUME NEW A, NEW B, NEW R, NEW K, NEW L, Part(A, R, K), Part(B, R, L), K \cap L = {}
    PROVE  Part(A \cup B, R, K \cup L)
<1>1. CASE R \in K
  <2>1. B = {} /\ \E h : A = {h}
      BY <1>1 DEF Part
  <2> QED
      BY <1>1, <2>1 DEF Part
<1>2. CASE R \in L
  <2>1. A = {} /\ \E h : B = {h}
      BY <1>2 DEF Part
  <2> QED
      BY <1>2, <2>1 DEF Part
<1>3. CASE R \notin K /\ R \notin L
    BY <1>3 DEF Part
<1> QED
    BY <1>1, <1>2, <1>3

\* Of the parts of TSDs, or of threads, at most one has the block.
LEMMA UnionParts ==
    ASSUME NEW S, NEW f, NEW g, NEW R, \A y \in S : Part(f[y], R, g[y]),
           \A y, z \in S : R \in g[y] /\ R \in g[z] => y = z,
           NEW A, \A h : h \in A <=> \E y \in S : h \in f[y],
           NEW K, \A P : P \in K <=> \E y \in S : P \in g[y]
    PROVE  Part(A, R, K)
<1>1. ASSUME NEW y \in S, R \in g[y] PROVE \E h : A = {h}
  <2>1. PICK h : f[y] = {h}
      BY <1>1 DEF Part
  <2>2. \A z \in S \ {y} : f[z] = {}
      BY <1>1 DEF Part
  <2>3. A = {h}
      BY <2>1, <2>2
  <2> QED
      BY <2>3
<1>2. ASSUME \A y \in S : R \notin g[y] PROVE A = {}
    BY <1>2 DEF Part
<1> QED
    BY <1>1, <1>2 DEF Part

\* The places of a TSD, and those of a call.
TSDPlaces(x) == {CachePlace(x), PendingPlace(x), PendingBatches(x)}
CallPlaces(t) ==
    {HeldPlace(t), MarkedPlace(t), PutPlace(t), UnmapPlace(t), RecyclePlace(t), RecycleBatches(t)}

LEMMA PartOfTSD ==
    ASSUME Accounted, NEW loc, NEW T, T = Table, Located(loc, T, header, marker),
           NEW block \in Blocks, NEW x \in TSDs
    PROVE  Part(HoldersInTSD(x, block), loc[block], TSDPlaces(x))
<1>1. PICK C, P, P2 : C = CachePlace(x) /\ P = PendingPlace(x) /\ P2 = PendingBatches(x)
    OBVIOUS
<1>2. /\ T[C] = cache[x] /\ T[P] = ChunksOf(pending[x].list) /\ T[P2] = AtsOf(pending[x].list)
    BY <1>1, Lookups DEF Table
<1>3. C \in BlockPlaces /\ P \in PtrPlaces /\ P2 \in PtrPlaces /\ P # P2 /\ C # P /\ C # P2
  <2>1. C \in BlockPlaces
      BY <1>1, CacheIsPlace
  <2>2. P.kind = "pending" /\ P2.kind = "pending batches"
      BY <1>1 DEF PendingPlace, PendingBatches, Place
  <2>3. P \in PtrPlaces /\ P2 \in PtrPlaces
      BY <1>1 DEF PendingPlace, PendingBatches, Place, PtrPlaces
  <2> QED
      BY <2>1, <2>2, <2>3, PlacesDiffer
<1>4. block \in cache[x] <=> loc[block] = C
    BY <1>2, <1>3 DEF Located
<1>5. Part(InSet("cache", x, cache[x], block), loc[block], {C})
    BY <1>4, PartOfSet
<1>6. Tidy(pending[x].list)
  <2>1. x \in AllTSDs
      BY DEF TSDs, AllTSDs, TSDLocks
  <2> QED
      BY <2>1 DEF Accounted, IsCache
<1>7. Part(InList("pending", x, pending[x].list, block), loc[block], {P, P2})
    BY <1>2, <1>3, <1>6, PartOfList
<1>8. Part(HoldersInTSD(x, block), loc[block], {C} \cup {P, P2})
    BY <1>3, <1>5, <1>7, JoinParts DEF HoldersInTSD
<1> QED
  <2>1. {C} \cup {P, P2} = TSDPlaces(x)
      BY <1>1 DEF TSDPlaces
  <2> QED
      BY <1>8, <2>1

LEMMA PartOfCall ==
    ASSUME Accounted, NEW loc, NEW T, T = Table, Located(loc, T, header, marker),
           NEW block \in Blocks, NEW t \in Threads
    PROVE  Part(HoldersInCall(t, block), loc[block], CallPlaces(t))
<1>1. PICK H, M, P, U : /\ H = HeldPlace(t) /\ M = MarkedPlace(t) /\ P = PutPlace(t)
                        /\ U = UnmapPlace(t)
    OBVIOUS
<1>2. PICK R, R2 : R = RecyclePlace(t) /\ R2 = RecycleBatches(t)
    OBVIOUS
<1>3. /\ {H, M, P, U, R, R2} \subseteq PtrPlaces
      /\ R # R2 /\ {H, M, P, U} \cap {R, R2} = {}
  <2>1. /\ H.kind = "held" /\ M.kind = "marked" /\ P.kind = "put" /\ U.kind = "unmap"
        /\ R.kind = "recycle" /\ R2.kind = "recycle batches" /\ {H, M, P, U, R, R2} \subseteq PtrPlaces
      BY <1>1, <1>2, HandPlaces
  <2> QED
      BY <2>1
<1>4. /\ T[H] = HeldBy(pc[t], job[t]) /\ T[M] = MarkedBy(pc[t], job[t])
      /\ T[P] = PtrAt("put", pc[t], job[t]) /\ T[U] = PtrAt("unmap", pc[t], job[t])
      /\ T[R] = ChunksOf(job[t].batches) /\ T[R2] = AtsOf(job[t].batches)
    BY <1>1, <1>2, Lookups DEF Table
<1>5. PICK inHand : inHand = Passed(t) \cup ({job[t].result} \ {None})
    OBVIOUS
<1>6. inHand = T[H] \cup T[M] \cup T[P] \cup T[U]
    BY <1>4, <1>5, InHandParts
<1>7. BlocksInHand(t) = {BlockOf(p) : p \in inHand}
    BY <1>5 DEF BlocksInHand
<1>8. block \in {BlockOf(p) : p \in inHand} <=> loc[block] \in {H, M, P, U}
  <2>1. ASSUME NEW p \in inHand, BlockOf(p) = block PROVE loc[block] \in {H, M, P, U}
    <3>1. PICK Q \in {H, M, P, U} : p \in T[Q]
        BY <1>6
    <3>2. loc[block] = Q
        BY <1>3, <2>1, <3>1, Home
    <3> QED
        BY <3>2
  <2>2. ASSUME NEW Q \in {H, M, P, U}, loc[block] = Q
        PROVE  \E p \in inHand : BlockOf(p) = block
    <3>1. PICK p : p = ChunkAt(block, marker)
        OBVIOUS
    <3>2. p \in T[Q] /\ BlockOf(p) = block
        BY <1>3, <2>2, <3>1, Home
    <3> QED
        BY <1>6, <3>2
  <2> QED
      BY <2>1, <2>2
<1>9. Part(InSet("call", t, BlocksInHand(t), block), loc[block], {H, M, P, U})
    BY <1>7, <1>8, PartOfSet
<1>10. Tidy(job[t].batches)
    BY DEF Accounted, Shape
<1>11. Part(InList("batches", t, job[t].batches, block), loc[block], {R, R2})
    BY <1>3, <1>4, <1>10, PartOfList
<1>12. Part(HoldersInCall(t, block), loc[block], {H, M, P, U} \cup {R, R2})
    BY <1>3, <1>9, <1>11, JoinParts DEF HoldersInCall
<1> QED
  <2>1. {H, M, P, U} \cup {R, R2} = CallPlaces(t)
      BY <1>1, <1>2 DEF CallPlaces
  <2> QED
      BY <1>12, <2>1

\* The places that belong to no TSD and no thread.
LEMMA PartsOfAll ==
    ASSUME Accounted, NEW loc, NEW T, T = Table, Located(loc, T, header, marker),
           NEW block \in Blocks
    PROVE  /\ Part(InSet("free", NoTSD, free, block), loc[block], {FreePlace})
           /\ Part(InSet("unmapped", NoTSD, unmapped, block), loc[block], {UnmappedPlace})
           /\ Part(InSet("live", NoTSD, {BlockOf(p) : p \in live}, block), loc[block], {LivePlace})
           /\ Part(InList("quarantine", NoTSD, quarantine.list, block),
                   loc[block], {QuarantinePlace, QuarantineBatches})
<1>1. /\ T[FreePlace] = free /\ T[UnmappedPlace] = unmapped /\ T[LivePlace] = live
      /\ T[QuarantinePlace] = ChunksOf(quarantine.list)
      /\ T[QuarantineBatches] = AtsOf(quarantine.list)
    BY Lookups DEF Table
<1>2. /\ FreePlace \in BlockPlaces /\ UnmappedPlace \in BlockPlaces
      /\ {LivePlace, QuarantinePlace, QuarantineBatches} \subseteq PtrPlaces
      /\ QuarantinePlace # QuarantineBatches
  <2>1. FreePlace \in BlockPlaces /\ UnmappedPlace \in BlockPlaces
      BY DEF FreePlace, UnmappedPlace, Place, BlockPlaces
  <2>2. {LivePlace, QuarantinePlace, QuarantineBatches} \subseteq PtrPlaces
      BY DEF LivePlace, QuarantinePlace, QuarantineBatches, Place, PtrPlaces
  <2>3. QuarantinePlace.kind = "quarantine" /\ QuarantineBatches.kind = "quarantine batches"
      BY DEF QuarantinePlace, QuarantineBatches, Place
  <2> QED
      BY <2>1, <2>2, <2>3
<1>3. (block \in free <=> loc[block] = FreePlace) /\ (block \in unmapped <=> loc[block] = UnmappedPlace)
    BY <1>1, <1>2 DEF Located
<1>4. block \in {BlockOf(p) : p \in live} <=> loc[block] = LivePlace
    BY <1>1, <1>2, Home
<1>5. Tidy(quarantine.list)
    BY DEF Accounted, IsCache
<1>6. Part(InList("quarantine", NoTSD, quarantine.list, block),
           loc[block], {QuarantinePlace, QuarantineBatches})
    BY <1>1, <1>2, <1>5, PartOfList
<1> QED
    BY <1>3, <1>4, <1>6, PartOfSet

\* The places of TSDs and of calls by what they are places of.
LEMMA PlacesOfTSD ==
    ASSUME NEW x, NEW R \in TSDPlaces(x)
    PROVE  R.of = x /\ R.kind \in {"cache", "pending", "pending batches"}
<1>1. CASE R = CachePlace(x)
    BY <1>1 DEF CachePlace, Place
<1>2. CASE R = PendingPlace(x)
    BY <1>2 DEF PendingPlace, Place
<1>3. CASE R = PendingBatches(x)
    BY <1>3 DEF PendingBatches, Place
<1> QED
    BY <1>1, <1>2, <1>3 DEF TSDPlaces

CallKinds == {"held", "marked", "put", "unmap", "recycle", "recycle batches"}

LEMMA PlacesOfCall ==
    ASSUME NEW t, NEW R \in CallPlaces(t)
    PROVE  R.of = t /\ R.kind \in CallKinds
<1>1. CASE R = HeldPlace(t)
    BY <1>1 DEF HeldPlace, Place, CallKinds
<1>2. CASE R = MarkedPlace(t)
    BY <1>2 DEF MarkedPlace, Place, CallKinds
<1>3. CASE R = PutPlace(t)
    BY <1>3 DEF PutPlace, Place, CallKinds
<1>4. CASE R = UnmapPlace(t)
    BY <1>4 DEF UnmapPlace, Place, CallKinds
<1>5. CASE R = RecyclePlace(t)
    BY <1>5 DEF RecyclePlace, Place, CallKinds
<1>6. CASE R = RecycleBatches(t)
    BY <1>6 DEF RecycleBatches, Place, CallKinds
<1> QED
    BY <1>1, <1>2, <1>3, <1>4, <1>5, <1>6 DEF CallPlaces

LEMMA OtherPlaces ==
    /\ FreePlace.kind = "free" /\ UnmappedPlace.kind = "unmapped" /\ LivePlace.kind = "live"
    /\ QuarantinePlace.kind = "quarantine" /\ QuarantineBatches.kind = "quarantine batches"
<1>1. FreePlace.kind = "free" /\ UnmappedPlace.kind = "unmapped" /\ LivePlace.kind = "live"
    BY DEF FreePlace, UnmappedPlace, LivePlace, Place
<1>2. QuarantinePlace.kind = "quarantine" /\ QuarantineBatches.kind = "quarantine batches"
    BY DEF QuarantinePlace, QuarantineBatches, Place
<1> QED
    BY <1>1, <1>2

\* The holders of a block that is at place R are one.
LEMMA OneHolder ==
    ASSUME Accounted, NEW block \in Blocks
    PROVE  \E h : Holders(block) = {h}
<1>1. PICK loc : Located(loc, Table, header, marker)
    BY DEF Accounted, Owned
<1>2. PICK T : T = Table
    OBVIOUS
<1>3. Located(loc, T, header, marker)
    BY <1>1, <1>2
<1>4. PICK R : R = loc[block]
    OBVIOUS
<1>5. R \in Places
    BY <1>1, <1>4 DEF Located
<1>6. PICK F, U, L, Q : /\ F = InSet("free", NoTSD, free, block)
                        /\ U = InSet("unmapped", NoTSD, unmapped, block)
                        /\ L = InSet("live", NoTSD, {BlockOf(p) : p \in live}, block)
                        /\ Q = InList("quarantine", NoTSD, quarantine.list, block)
    OBVIOUS
<1>7. /\ Part(F, R, {FreePlace}) /\ Part(U, R, {UnmappedPlace}) /\ Part(L, R, {LivePlace})
      /\ Part(Q, R, {QuarantinePlace, QuarantineBatches})
    BY <1>2, <1>3, <1>4, <1>6, PartsOfAll
<1>8. PICK X, XP : X = TSDHolders(block) /\ XP = UNION {TSDPlaces(x) : x \in TSDs}
    OBVIOUS
<1>9. Part(X, R, XP)
  <2>1. PICK f, g : /\ f = [x \in TSDs |-> HoldersInTSD(x, block)]
                    /\ g = [x \in TSDs |-> TSDPlaces(x)]
      OBVIOUS
  <2>2. \A x \in TSDs : f[x] = HoldersInTSD(x, block) /\ g[x] = TSDPlaces(x)
      BY <2>1
  <2>3. \A x \in TSDs : Part(f[x], R, g[x])
      BY <1>2, <1>3, <1>4, <2>2, PartOfTSD
  <2>4. \A x, y \in TSDs : R \in g[x] /\ R \in g[y] => x = y
    <3> SUFFICES ASSUME NEW x \in TSDs, NEW y \in TSDs, R \in g[x], R \in g[y] PROVE x = y
        OBVIOUS
    <3>1. R \in TSDPlaces(x) /\ R \in TSDPlaces(y)
        BY <2>2
    <3>2. R.of = x /\ R.of = y
        BY <3>1, PlacesOfTSD
    <3> QED
        BY <3>2
  <2>5. \A h : h \in X <=> \E x \in TSDs : h \in f[x]
      BY <1>8, <2>2, HoldersParts
  <2>6. \A P : P \in XP <=> \E x \in TSDs : P \in g[x]
      BY <1>8, <2>2
  <2> QED
      BY <2>3, <2>4, <2>5, <2>6, UnionParts
<1>10. PICK C, CP : C = CallHolders(block) /\ CP = UNION {CallPlaces(t) : t \in Threads}
    OBVIOUS
<1>11. Part(C, R, CP)
  <2>1. PICK f, g : /\ f = [t \in Threads |-> HoldersInCall(t, block)]
                    /\ g = [t \in Threads |-> CallPlaces(t)]
      OBVIOUS
  <2>2. \A t \in Threads : f[t] = HoldersInCall(t, block) /\ g[t] = CallPlaces(t)
      BY <2>1
  <2>3. \A t \in Threads : Part(f[t], R, g[t])
      BY <1>2, <1>3, <1>4, <2>2, PartOfCall
  <2>4. \A t, u \in Threads : R \in g[t] /\ R \in g[u] => t = u
    <3> SUFFICES ASSUME NEW t \in Threads, NEW u \in Threads, R \in g[t], R \in g[u] PROVE t = u
        OBVIOUS
    <3>1. R \in CallPlaces(t) /\ R \in CallPlaces(u)
        BY <2>2
    <3>2. R.of = t /\ R.of = u
        BY <3>1, PlacesOfCall
    <3> QED
        BY <3>2
  <2>5. \A h : h \in C <=> \E t \in Threads : h \in f[t]
      BY <1>10, <2>2, HoldersParts
  <2>6. \A P : P \in CP <=> \E t \in Threads : P \in g[t]
      BY <1>10, <2>2
  <2> QED
      BY <2>3, <2>4, <2>5, <2>6, UnionParts
<1>12. Holders(block) = F \cup U \cup L \cup Q \cup X \cup C
    BY <1>6, <1>8, <1>10, HoldersParts DEF OtherHolders
<1>13. /\ \A P \in XP : P.kind \in {"cache", "pending", "pending batches"}
       /\ \A P \in CP : P.kind \in CallKinds
  <2>1. \A P \in XP : \E x \in TSDs : P \in TSDPlaces(x)
      BY <1>8
  <2>2. \A P \in CP : \E t \in Threads : P \in CallPlaces(t)
      BY <1>10
  <2> QED
      BY <2>1, <2>2, PlacesOfTSD, PlacesOfCall
<1>14. Part(F \cup U, R, {FreePlace} \cup {UnmappedPlace})
  <2>1. {FreePlace} \cap {UnmappedPlace} = {}
      BY OtherPlaces
  <2> QED
      BY <1>7, <2>1, JoinParts
<1>15. Part(F \cup U \cup L, R, {FreePlace, UnmappedPlace} \cup {LivePlace})
  <2>1. {FreePlace, UnmappedPlace} \cap {LivePlace} = {}
      BY OtherPlaces
  <2>2. Part(F \cup U, R, {FreePlace, UnmappedPlace})
    <3>1. {FreePlace} \cup {UnmappedPlace} = {FreePlace, UnmappedPlace}
        OBVIOUS
    <3> QED
        BY <1>14, <3>1
  <2> QED
      BY <1>7, <2>1, <2>2, JoinParts
<1>16. PICK S : S = {FreePlace, UnmappedPlace} \cup {LivePlace}
                    \cup {QuarantinePlace, QuarantineBatches}
    OBVIOUS
<1>17. Part(F \cup U \cup L \cup Q, R, S)
  <2>1. ({FreePlace, UnmappedPlace} \cup {LivePlace})
          \cap {QuarantinePlace, QuarantineBatches} = {}
      BY OtherPlaces
  <2> QED
      BY <1>7, <1>15, <1>16, <2>1, JoinParts
<1>18. \A P \in S : P.kind \in {"free", "unmapped", "live", "quarantine", "quarantine batches"}
    BY <1>16, OtherPlaces
<1>19. Part(F \cup U \cup L \cup Q \cup X, R, S \cup XP)
  <2>1. S \cap XP = {}
      BY <1>13, <1>18
  <2> QED
      BY <1>9, <1>17, <2>1, JoinParts
<1>20. Part(F \cup U \cup L \cup Q \cup X \cup C, R, (S \cup XP) \cup CP)
  <2>1. (S \cup XP) \cap CP = {}
      BY <1>13, <1>18 DEF CallKinds
  <2> QED
      BY <1>11, <1>19, <2>1, JoinParts
<1>21. R \in (S \cup XP) \cup CP
  <2>1. CASE R \in {FreePlace, UnmappedPlace, LivePlace, QuarantinePlace, QuarantineBatches}
      BY <1>16, <2>1
  <2>2. ASSUME NEW x \in TSDs, R \in {CachePlace(x), PendingPlace(x), PendingBatches(x)}
        PROVE  R \in XP
      BY <1>8, <2>2 DEF TSDPlaces
  <2>3. ASSUME NEW t \in Threads,
               R \in {HeldPlace(t), MarkedPlace(t), PutPlace(t), UnmapPlace(t),
                      RecyclePlace(t), RecycleBatches(t)}
        PROVE  R \in CP
      BY <1>10, <2>3 DEF CallPlaces
  <2> QED
      BY <1>5, <2>1, <2>2, <2>3, PlaceKinds
<1> QED
    BY <1>12, <1>20, <1>21 DEF Part

\* Whatever calls interleave, and whatever fails on the way, every block is in one place:
\* allocate, deallocate, reallocate, the quarantine's put, transfer and recycling, and the
\* drains of caches hand a block on and never copy it, so that no two calls of allocate
\* return the same block and none is lost.
THEOREM BlocksHeldOnce == Spec => []BlocksAccounted
<1>1. OwnInv => BlocksAccounted
  <2> SUFFICES ASSUME OwnInv, ~Aborted, NEW block \in Blocks
               PROVE  Cardinality(Holders(block)) = 1
      BY DEF BlocksAccounted
  <2>1. Accounted
      BY DEF OwnInv, Dead
  <2>2. PICK h : Holders(block) = {h}
      BY <2>1, OneHolder
  <2> QED
      BY <2>2, FS_Singleton
<1> QED
    BY <1>1, OwnInvariant, PTL

-----------------------------------------------------------------------------
(* What the program holds.                                                 *)

\* The largest of three numbers.
LEMMA MaxOfThree ==
    ASSUME NEW x \in Int, NEW y \in Int
    PROVE  /\ Max({0, x, y}) \in {0, x, y} /\ Max({0, x, y}) >= 0
           /\ Max({0, x, y}) >= x /\ Max({0, x, y}) >= y
<1>1. \E z \in {0, x, y} : \A w \in {0, x, y} : z >= w
  <2>1. CASE 0 >= x /\ 0 >= y
      BY <2>1
  <2>2. CASE x >= 0 /\ x >= y
      BY <2>2
  <2>3. CASE y >= 0 /\ y >= x
      BY <2>3
  <2> QED
      BY <2>1, <2>2, <2>3
<1>2. /\ Max({0, x, y}) \in {0, x, y}
      /\ \A w \in {0, x, y} : Max({0, x, y}) >= w
    BY <1>1 DEF Max
<1> QED
    BY <1>2

\* The index of the block of size s that an offset lies in.
LEMMA IndexOf ==
    ASSUME NEW s \in Nat \ {0}, NEW i \in Nat, NEW r \in 0 .. s - 1
    PROVE  (i * s + r) \div s = i
<1>1. PICK x \in Nat : x = i * s
    OBVIOUS
<1>2. PICK q \in Int : q = (x + r) \div s
    BY <1>1
<1>3. x + r = s * q + ((x + r) % s) /\ ((x + r) % s) \in 0 .. s - 1
    BY <1>1, <1>2
<1>4. s * q \in Int /\ q >= 0
    BY <1>1, <1>3
<1>5. ~ (q < i)
  <2> SUFFICES ASSUME q < i PROVE FALSE
      OBVIOUS
  <2>1. q + 1 \in Nat /\ q + 1 <= i
      BY <1>4
  <2>2. (q + 1) * s <= i * s
      BY <2>1, Products
  <2>3. (q + 1) * s = s * q + s
      BY <1>4
  <2> QED
      BY <1>1, <1>3, <1>4, <2>2, <2>3
<1>6. ~ (q > i)
  <2> SUFFICES ASSUME q > i PROVE FALSE
      OBVIOUS
  <2>1. i + 1 \in Nat /\ i + 1 <= q /\ q \in Nat
      BY <1>4
  <2>2. (i + 1) * s <= q * s
      BY <2>1, Products
  <2>3. (i + 1) * s = i * s + s /\ q * s = s * q
      BY <1>4
  <2> QED
      BY <1>1, <1>3, <1>4, <2>2, <2>3
<1> QED
    BY <1>1, <1>2, <1>5, <1>6

\* The region of a class ends before the next one begins.
LEMMA RegionFacts ==
    ASSUME NEW c \in ClassIds, NumBlocks[c] > 0
    PROVE  /\ RegionBegin(c) \in Nat /\ RegionEnd(c) \in Nat
           /\ RegionBegin(c) < RegionEnd(c) /\ RegionEnd(c) < RegionBegin(c) + RegionSize
           /\ RegionSize \in Nat
           /\ \A d \in ClassIds : c < d => RegionBegin(c) + RegionSize <= RegionBegin(d)
<1>1. /\ LargestClassId \in Nat \ {0} /\ ClassIds = 1 .. LargestClassId
      /\ MaxSize \in Nat \ {0} /\ SizeOf(c) \in 1 .. MaxSize
    BY ClassesAssumption DEF ClassesAssumption, ClassIds
<1>2. PICK most \in Nat : /\ most = Max({NumBlocks[d] : d \in ClassIds})
                          /\ \A d \in ClassIds : NumBlocks[d] \in Nat /\ NumBlocks[d] <= most
    BY MostBlocks
<1>3. PICK s \in Nat : s = SizeOf(c) /\ s >= 1 /\ s <= MaxSize
    BY <1>1
<1>4. PICK n \in Nat : n = NumBlocks[c] /\ n >= 1 /\ n <= most
    BY <1>2
<1>5. n * s <= most * MaxSize /\ n * s \in Nat /\ most * MaxSize \in Nat /\ 1 * 1 <= n * s
    BY <1>1, <1>3, <1>4, Products
<1>6. RegionSize = 2 * (most * MaxSize) /\ RegionSize \in Nat
  <2>1. PICK m \in Nat : m = MaxSize
      BY <1>1
  <2>2. RegionSize = (2 * m) * most
      BY <1>2, <2>1 DEF RegionSize
  <2>3. (2 * m) * most = 2 * (most * m) /\ most * m \in Nat
      OBVIOUS
  <2> QED
      BY <2>1, <2>2, <2>3
<1>7. RegionBegin(c) \in Nat
  <2>1. c * RegionSize \in Nat
      BY <1>1, <1>6
  <2> QED
      BY <2>1 DEF RegionBegin
<1>8. RegionEnd(c) = RegionBegin(c) + n * s
    BY <1>3, <1>4 DEF RegionEnd
<1>9. ASSUME NEW d \in ClassIds, c < d PROVE RegionBegin(c) + RegionSize <= RegionBegin(d)
  <2>1. c \in Nat /\ d \in Nat /\ c + 1 <= d /\ c + 1 \in Nat
      BY <1>1, <1>9
  <2>2. (c + 1) * RegionSize <= d * RegionSize
      BY <1>6, <2>1, Products
  <2>3. (c + 1) * RegionSize = c * RegionSize + RegionSize
      BY <1>6, <2>1
  <2> QED
      BY <2>2, <2>3 DEF RegionBegin
<1> QED
    BY <1>5, <1>6, <1>7, <1>8, <1>9

\* From any byte of a block of the Primary the search finds the block.
LEMMA NearestFound ==
    ASSUME NEW c \in ClassIds, NEW block \in BlocksOf(c), NEW q \in Int,
           block <= q, q < block + SizeOf(c)
    PROVE  NearestBlock(q) = {block}
<1>1. /\ ClassIds \subseteq Nat /\ NearDistance \in Nat
    BY ClassesAssumption DEF ClassesAssumption, ClassIds, NearDistance
<1>2. PICK s \in Nat \ {0} : s = SizeOf(c)
    BY InRegion
<1>3. PICK n \in Nat : n = NumBlocks[c]
    BY MostBlocks
<1>4. PICK i \in 0 .. n - 1 : block = RegionBegin(c) + i * s
    BY <1>2, <1>3 DEF BlocksOf
<1>5. i \in Nat /\ n > 0 /\ i + 1 <= n
    BY <1>3, <1>4
<1>6. PICK begin \in Nat : begin = RegionBegin(c)
    BY <1>3, <1>5, RegionFacts
<1>7. i * s \in Nat /\ (i + 1) * s = i * s + s /\ (i + 1) * s <= n * s /\ n * s \in Nat
    BY <1>3, <1>5, Products
<1>8. RegionEnd(c) = begin + n * s
    BY <1>2, <1>3, <1>6 DEF RegionEnd
<1>9. RegionDistance(q, c) = 0
  <2>1. PICK x \in Int : x = RegionBegin(c) - q
      BY <1>6
  <2>2. PICK y \in Int : y = q - RegionEnd(c)
      BY <1>6, <1>7, <1>8
  <2>3. x <= 0 /\ y <= 0
      BY <1>2, <1>4, <1>6, <1>7, <1>8, <2>1, <2>2
  <2>4. Max({0, x, y}) = 0
      BY <2>3, MaxOfThree
  <2> QED
      BY <2>1, <2>2, <2>4 DEF RegionDistance
<1>10. ASSUME NEW d \in ClassIds, d # c, NumBlocks[d] # 0 PROVE RegionDistance(q, d) > 0
  <2>0. NumBlocks[d] > 0
      BY <1>10, MostBlocks
  <2>1. /\ RegionBegin(d) \in Nat /\ RegionEnd(d) \in Nat
        /\ RegionEnd(d) < RegionBegin(d) + RegionSize
        /\ d < c => RegionBegin(d) + RegionSize <= RegionBegin(c)
      BY <2>0, RegionFacts
  <2>2. /\ RegionEnd(c) < RegionBegin(c) + RegionSize /\ RegionSize \in Nat
        /\ c < d => RegionBegin(c) + RegionSize <= RegionBegin(d)
      BY <1>3, <1>5, RegionFacts
  <2>3. PICK x \in Int : x = RegionBegin(d) - q
      BY <2>1
  <2>4. PICK y \in Int : y = q - RegionEnd(d)
      BY <2>1
  <2>5. RegionBegin(c) <= q /\ q < RegionEnd(c)
      BY <1>2, <1>4, <1>6, <1>7, <1>8
  <2>6. x > 0 \/ y > 0
    <3>1. c < d \/ d < c
        BY <1>1, <1>10
    <3>2. CASE c < d
        BY <1>6, <1>7, <1>8, <2>1, <2>2, <2>3, <2>5, <3>2
    <3>3. CASE d < c
        BY <1>6, <2>1, <2>2, <2>4, <2>5, <3>3
    <3> QED
        BY <3>1, <3>2, <3>3
  <2>7. Max({0, x, y}) > 0
    <3>1. PICK m : m = Max({0, x, y})
        OBVIOUS
    <3>2. m \in {0, x, y} /\ m >= x /\ m >= y
        BY <3>1, MaxOfThree
    <3>3. m > 0
        BY <2>6, <3>2
    <3> QED
        BY <3>1, <3>3
  <2> QED
      BY <2>3, <2>4, <2>7 DEF RegionDistance
<1>11. NearestRegion(q) = c
  <2> DEFINE Nearest(e) ==
        /\ NumBlocks[e] > 0
        /\ \A d \in ClassIds :
             \/ NumBlocks[d] = 0
             \/ RegionDistance(q, e) < RegionDistance(q, d)
             \/ RegionDistance(q, e) = RegionDistance(q, d) /\ e <= d
  <2>1. Nearest(c)
    <3> SUFFICES ASSUME NEW d \in ClassIds, NumBlocks[d] # 0
                 PROVE  \/ RegionDistance(q, c) < RegionDistance(q, d)
                        \/ RegionDistance(q, c) = RegionDistance(q, d) /\ c <= d
        BY <1>3, <1>5
    <3> QED
        BY <1>1, <1>9, <1>10
  <2>2. ASSUME NEW e \in ClassIds, Nearest(e), e # c PROVE FALSE
    <3>1. NumBlocks[e] # 0
        BY <2>2
    <3>2. RegionDistance(q, e) > 0
        BY <2>2, <3>1, <1>10
    <3>3. \/ RegionDistance(q, e) < RegionDistance(q, c)
          \/ RegionDistance(q, e) = RegionDistance(q, c)
        BY <1>3, <1>5, <2>2
    <3>4. RegionDistance(q, e) \in Int
      <4>1. RegionBegin(e) \in Nat /\ RegionEnd(e) \in Nat
          BY <2>2, RegionFacts
      <4>2. PICK x \in Int : x = RegionBegin(e) - q
          BY <4>1
      <4>3. PICK y \in Int : y = q - RegionEnd(e)
          BY <4>1
      <4>4. Max({0, x, y}) \in Int
        <5>1. Max({0, x, y}) \in {0, x, y}
            BY MaxOfThree
        <5> QED
            BY <5>1
      <4> QED
          BY <4>2, <4>3, <4>4 DEF RegionDistance
    <3> QED
        BY <1>9, <3>2, <3>3, <3>4
  <2>3. NearestRegion(q) = CHOOSE e \in ClassIds : Nearest(e)
      BY DEF NearestRegion
  <2> QED
      BY <2>1, <2>2, <2>3
<1>12. (q - RegionBegin(c)) \div SizeOf(c) = i
  <2>1. PICK r \in 0 .. s - 1 : q - begin = i * s + r
    <3>1. q - block \in 0 .. s - 1
        BY <1>2, <1>4, <1>6, <1>7
    <3>2. q - begin = i * s + (q - block)
        BY <1>4, <1>6, <1>7
    <3> QED
        BY <3>1, <3>2
  <2>2. (i * s + r) \div s = i
      BY <1>5, IndexOf
  <2> QED
      BY <1>2, <1>6, <2>1, <2>2
<1>13. Max({0, Min({i, NumBlocks[c] - 1})}) = i
  <2>1. Min({i, n - 1}) = i
      BY <1>4, <1>5 DEF Min
  <2>2. Max({0, i}) = i
      BY <1>5 DEF Max
  <2> QED
      BY <1>3, <2>1, <2>2
<1>14. NearestBlock(q) = {RegionBegin(c) + SizeOf(c) * i}
  <2>1. ~ (RegionDistance(q, c) > NearDistance)
      BY <1>1, <1>9
  <2> QED
      BY <1>11, <1>12, <1>13, <2>1 DEF NearestBlock
<1>15. s * i = i * s
    BY <1>5
<1> QED
    BY <1>2, <1>4, <1>14, <1>15

LEMMA ChunksFitNow == ASSUME Accounted PROVE ChunksFit
<1>1. PICK loc : Located(loc, Table, header, marker)
    BY DEF Accounted, Owned
<1>2. PICK T : T = Table
    OBVIOUS
<1>3. Located(loc, T, header, marker) /\ T[LivePlace] = live
    BY <1>1, <1>2, Lookups DEF Table
<1>4. SUFFICES ASSUME NEW p \in live
               PROVE  LET block == BlockOf(p)
                          size  == AllocSize(p)
                      IN  /\ block \in Blocks
                          /\ IsOwned(p)
                          /\ IsPrimaryAllocation(p) <=> block \in PrimaryBlocks
                          /\ ClassOfBlock(block) = header[p].class
                          /\ block \in PrimaryBlocks =>
                               \A q \in p - HeaderSize .. p + size - 1 : NearestBlock(q) = {block}
                          /\ p >= block + HeaderSize
                          /\ p + size <= BlockEnd(block, header[p].class)
                          /\ \E t \in Threads : \E c \in calls[t] : c.size = size
    BY DEF ChunksFit
<1>5. PICK block, hd : block = BlockOf(p) /\ hd = header[p]
    OBVIOUS
<1>6. PICK size : size = AllocSize(p)
    OBVIOUS
<1>7. /\ block \in Blocks /\ p \in Nat /\ hd.class = ClassOfBlock(block)
      /\ PtrRule(LivePlace, p, hd) /\ block + 1 <= p
  <2>1. LivePlace \in PtrPlaces
      BY DEF LivePlace, Place, PtrPlaces
  <2> QED
      BY <1>3, <1>5, <2>1, Behind DEF BlockOf
<1>8. Usable(p, hd)
    BY <1>7, OtherPlaces DEF PtrRule
<1>9. /\ hd.state = "Allocated" /\ size \in Nat /\ p + size <= EndOf(block)
      /\ \E t \in Threads : \E c \in calls[t] : c.size = size
    BY <1>5, <1>6, <1>8 DEF Usable, AllocSize, BlockOf
<1>10. block \in PrimaryBlocks <=> block \notin SecondaryBlocks
    BY <1>7, ApartAssumption DEF Blocks, ApartAssumption
<1>11. IsPrimaryAllocation(p) <=> block \in PrimaryBlocks
  <2>1. hd.class # 0 <=> block \notin SecondaryBlocks
      BY <1>7, BlockFacts
  <2> QED
      BY <1>5, <1>9, <1>10, <2>1 DEF IsPrimaryAllocation, IsOwned
<1>12. ASSUME block \in PrimaryBlocks, NEW q \in p - HeaderSize .. p + size - 1
       PROVE  NearestBlock(q) = {block}
  <2>1. PICK c \in ClassIds : block \in BlocksOf(c)
      BY <1>12 DEF PrimaryBlocks
  <2>2. EndOf(block) = block + SizeOf(c) /\ block \in Nat /\ SizeOf(c) \in Nat
      BY <2>1, BlockFacts, InRegion DEF EndOf, BlockEnd
  <2>3. q \in Int /\ block <= q /\ q < block + SizeOf(c)
      BY <1>7, <1>9, <1>12, <2>2 DEF HeaderSize
  <2> QED
      BY <2>1, <2>3, NearestFound
<1>13. p + size <= BlockEnd(block, hd.class)
    BY <1>7, <1>9 DEF EndOf
<1>14. p >= block + HeaderSize
    BY <1>7, BlocksApart DEF HeaderSize
<1> QED
    BY <1>5, <1>6, <1>7, <1>9, <1>11, <1>12, <1>13, <1>14 DEF IsOwned

\* The batches of a list are batches.
LEMMA BatchKnown ==
    ASSUME NEW list \in BatchLists, NEW p \in AtsOf(list) PROVE p \in BatchPtrs
<1>1. PICK i \in DOMAIN list : p = list[i].at
    BY DEF AtsOf
<1>2. list[i] \in ToSet(list)
    BY DEF ToSet
<1>3. list[i] \in AllBatches
    BY <1>2 DEF AllBatches
<1> QED
    BY <1>1, <1>3 DEF BatchPtrs

LEMMA ReportedAreKnown ==
    ASSUME Accounted, NEW p \in Reported, p \notin live
    PROVE  \/ p \in BatchPtrs
           \/ \E t \in Threads : p \in Passed(t) \cup {job[t].result}
<1>1. PICK loc : Located(loc, Table, header, marker)
    BY DEF Accounted, Owned
<1>2. PICK T : T = Table
    OBVIOUS
<1>3. Located(loc, T, header, marker)
    BY <1>1, <1>2
<1>4. PICK block \in IteratedBlocks : p = ChunkFromBlock(block)
    BY DEF Reported
<1>5. header[p].state = "Allocated"
    BY DEF Reported
<1>6. block \in Blocks /\ (block \in SecondaryBlocks => block \notin unmapped)
    BY <1>4, ApartAssumption DEF IteratedBlocks, InUseBlocks, Blocks, ApartAssumption
<1>7. p = ChunkAt(block, marker)
    BY <1>4 DEF ChunkFromBlock, ChunkAt
<1>8. PICK R \in Places : R = loc[block]
    BY <1>1, <1>6 DEF Located
<1>9. Ruled(R, block, header, marker)
    BY <1>1, <1>6, <1>8 DEF Located
<1>10. CASE R \in BlockPlaces
  <2>1. BlockRule(R, block, header[p])
      BY <1>7, <1>9, <1>10 DEF Ruled
  <2>2. R = UnmappedPlace /\ block \in SecondaryBlocks
      BY <1>5, <2>1 DEF BlockRule
  <2>3. block \in T[UnmappedPlace]
      BY <1>3, <1>6, <1>8, <1>10, <2>2 DEF Located
  <2>4. T[UnmappedPlace] = unmapped
      BY <1>2, Lookups DEF Table
  <2> QED
      BY <1>6, <2>2, <2>3, <2>4
<1>11. CASE R \in PtrPlaces
  <2>1. PtrRule(R, p, header[p])
      BY <1>7, <1>9, <1>11, PlacesDiffer DEF Ruled
  <2>2. p \in T[R]
      BY <1>3, <1>6, <1>7, <1>8, <1>11, Home
  <2>3. R.kind \notin {"marked", "put", "quarantine", "pending", "recycle"}
      BY <1>5, <2>1 DEF PtrRule
  <2>4. R # LivePlace
    <3>1. T[LivePlace] = live
        BY <1>2, Lookups DEF Table
    <3> QED
        BY <2>2, <3>1
  <2>5. CASE R = QuarantineBatches
    <3>1. T[QuarantineBatches] = AtsOf(quarantine.list)
        BY <1>2, Lookups DEF Table
    <3>2. quarantine.list \in BatchLists
        BY DEF BatchLists
    <3> QED
        BY <2>2, <2>5, <3>1, <3>2, BatchKnown
  <2>6. ASSUME NEW x \in TSDs, R = PendingBatches(x) PROVE p \in BatchPtrs
    <3>1. T[PendingBatches(x)] = AtsOf(pending[x].list)
        BY <1>2, Lookups DEF Table
    <3>2. pending[x].list \in BatchLists
        BY DEF BatchLists
    <3> QED
        BY <2>2, <2>6, <3>1, <3>2, BatchKnown
  <2>7. ASSUME NEW t \in Threads, R = RecycleBatches(t) PROVE p \in BatchPtrs
    <3>1. T[RecycleBatches(t)] = AtsOf(job[t].batches)
        BY <1>2, Lookups DEF Table
    <3>2. job[t].batches \in BatchLists
        BY DEF BatchLists
    <3> QED
        BY <2>2, <2>7, <3>1, <3>2, BatchKnown
  <2>8. ASSUME NEW t \in Threads, R \in {HeldPlace(t), UnmapPlace(t)}
        PROVE  p \in Passed(t) \cup {job[t].result}
    <3>1. /\ T[HeldPlace(t)] = HeldBy(pc[t], job[t])
          /\ T[UnmapPlace(t)] = PtrAt("unmap", pc[t], job[t])
        BY <1>2, Lookups DEF Table
    <3> QED
        BY <2>2, <2>8, <3>1, InHandParts
  <2>9. R \notin {FreePlace, UnmappedPlace, QuarantinePlace}
    <3>1. FreePlace \notin PtrPlaces /\ UnmappedPlace \notin PtrPlaces
      <4>1. FreePlace \in BlockPlaces /\ UnmappedPlace \in BlockPlaces
          BY DEF FreePlace, UnmappedPlace, Place, BlockPlaces
      <4> QED
          BY <4>1, PlacesDiffer
    <3> QED
        BY <1>11, <2>3, <3>1, OtherPlaces
  <2>10. \A x \in TSDs : R \notin {CachePlace(x), PendingPlace(x)}
    <3> SUFFICES ASSUME NEW x \in TSDs PROVE R # CachePlace(x) /\ R # PendingPlace(x)
        OBVIOUS
    <3>1. CachePlace(x) \notin PtrPlaces
        BY CacheIsPlace, PlacesDiffer
    <3>2. PendingPlace(x).kind = "pending"
        BY DEF PendingPlace, Place
    <3> QED
        BY <1>11, <2>3, <3>1, <3>2
  <2>11. \A t \in Threads : R \notin {MarkedPlace(t), PutPlace(t), RecyclePlace(t)}
      BY <2>3, HandPlaces
  <2> QED
      BY <2>4, <2>5, <2>6, <2>7, <2>8, <2>9, <2>10, <2>11, PlaceKinds
<1> QED
    BY <1>10, <1>11, PlacesDiffer

LEMMA LiveIsReported == ASSUME Accounted, NEW p \in live PROVE p \in Reported
<1>1. PICK loc : Located(loc, Table, header, marker)
    BY DEF Accounted, Owned
<1>2. PICK T : T = Table
    OBVIOUS
<1>3. Located(loc, T, header, marker) /\ T[LivePlace] = live /\ T[UnmappedPlace] = unmapped
    BY <1>1, <1>2, Lookups DEF Table
<1>4. PICK block : block = BlockOf(p)
    OBVIOUS
<1>5. /\ block \in Blocks /\ loc[block] = LivePlace /\ p = ChunkAt(block, marker)
      /\ p \in Ptrs /\ PtrRule(LivePlace, p, header[p])
  <2>1. LivePlace \in PtrPlaces
      BY DEF LivePlace, Place, PtrPlaces
  <2> QED
      BY <1>3, <1>4, <2>1, Behind DEF BlockOf
<1>6. header[p].state = "Allocated"
    BY <1>5, OtherPlaces DEF PtrRule, Usable
<1>7. block \notin unmapped
  <2>1. UnmappedPlace \in BlockPlaces
      BY DEF UnmappedPlace, Place, BlockPlaces
  <2> QED
      BY <1>3, <1>5, <2>1, OtherPlaces DEF Located
<1>8. block \in IteratedBlocks
    BY <1>5, <1>7 DEF IteratedBlocks, InUseBlocks, Blocks
<1>9. p = ChunkFromBlock(block)
    BY <1>5 DEF ChunkFromBlock, ChunkAt
<1> QED
    BY <1>5, <1>6, <1>8, <1>9 DEF Reported

\* A process that has aborted stays as it was.
LEMMA LastState == ASSUME LockInv, NEW t \in Threads, OutOfMemory(t)
                   PROVE  UNCHANGED <<heapVars, quarantineVars, chunkVars, calls>>
BY DEF OutOfMemory, registryVars

\* What iterateOverChunks reports to a thread that has disabled the allocator is all that
\* the program holds, and no chunk that was freed: every chunk of another place is marked
\* Quarantined or Available in its header, its block has no header, or it is unmapped.
THEOREM IterationComplete == Spec => []IterationSeesLive
<1>1. OwnInv => IterationSeesLive
  <2> SUFFICES ASSUME OwnInv, NEW t \in Threads, At(t, "disabled")
               PROVE  /\ live \subseteq Reported
                      /\ \A p \in Reported \ live :
                           \/ p \in BatchPtrs
                           \/ \E u \in Threads : p \in Passed(u) \cup {job[u].result}
      BY DEF IterationSeesLive
  <2>1. Accounted
      BY DEF OwnInv, Dead, At
  <2> QED
      BY <2>1, LiveIsReported, ReportedAreKnown
<1> QED
    BY <1>1, OwnInvariant, PTL

\* Every chunk the program holds is inside its block and known to the allocator.  The header
\* and the memory of a chunk are those that initChunk or a reallocate in place left, until
\* deallocate takes it back.
THEOREM ChunksStayFit == Spec => []ChunksFit
<1>1. Init => ChunksFit
    BY DEF Init, ChunksFit
<1>2. Accounted => ChunksFit
    BY ChunksFitNow
<1>3. LockInv /\ OwnInv /\ ChunksFit /\ (Accounted' => ChunksFit') /\ [Next]_vars => ChunksFit'
  <2> SUFFICES ASSUME LockInv, OwnInv, ChunksFit, Accounted' => ChunksFit', [Next]_vars
               PROVE  ChunksFit'
      OBVIOUS
  <2>1. ASSUME UNCHANGED <<heapVars, quarantineVars, chunkVars, calls>> PROVE ChunksFit'
      BY <2>1 DEF chunkVars, ChunksFit, BlockOf, AllocSize, IsOwned, IsPrimaryAllocation
  <2>2. CASE UNCHANGED vars
      BY <2>1, <2>2 DEF vars, registryVars
  <2>3. ASSUME NEW t \in Threads, Action(t) PROVE ChunksFit'
      BY <2>1, <2>3, DeadDoesNothing, ActionOwned, LastState DEF OwnInv
  <2>4. UNCHANGED vars \/ \E t \in Threads : Action(t)
      BY DEF Next, Over, Action
  <2> QED
      BY <2>2, <2>3, <2>4
<1> QED
    BY <1>1, <1>2, <1>3, OwnInvariant, LockInvariant, PTL DEF Spec

-----------------------------------------------------------------------------
(* The counters of the quarantine.                                         *)

\* What the headers of chunks and batches in the quarantine say.
ChunkStates ==
    /\ \A list \in BatchLists :
         /\ \A p \in ChunksOf(list) : p \in Ptrs /\ header[p].state = "Quarantined"
         /\ \A p \in AtsOf(list) : header[p] = BatchHeader

\* The account of blocks says so for every list, of the quarantine, of a TSD or of a call.
LEMMA ChunksMarked == ASSUME Accounted PROVE ChunkStates
<1>1. PICK T : T = Table
    OBVIOUS
<1>2. Owned(T, header, marker)
    BY <1>1 DEF Accounted
<1>3. ASSUME NEW R \in PtrPlaces, NEW p \in T[R] PROVE PtrRule(R, p, header[p]) /\ p \in Ptrs
    BY <1>2, <1>3, AtPlace
<1>4. SUFFICES ASSUME NEW list \in BatchLists
               PROVE  /\ \A p \in ChunksOf(list) : p \in Ptrs /\ header[p].state = "Quarantined"
                      /\ \A p \in AtsOf(list) : header[p] = BatchHeader
    BY DEF ChunkStates
<1>5. \E R \in PtrPlaces : \E Q \in PtrPlaces :
         /\ T[R] = ChunksOf(list) /\ R.kind \in {"quarantine", "pending", "recycle"}
         /\ T[Q] = AtsOf(list)
         /\ Q.kind \in {"quarantine batches", "pending batches", "recycle batches"}
  <2>1. CASE list = quarantine.list
    <3>1. T[QuarantinePlace] = ChunksOf(list) /\ T[QuarantineBatches] = AtsOf(list)
        BY <1>1, <2>1, Lookups DEF Table
    <3>2. /\ QuarantinePlace \in PtrPlaces /\ QuarantineBatches \in PtrPlaces
          /\ QuarantinePlace.kind = "quarantine" /\ QuarantineBatches.kind = "quarantine batches"
        BY DEF QuarantinePlace, QuarantineBatches, Place, PtrPlaces
    <3> QED
        BY <3>1, <3>2
  <2>2. ASSUME NEW x \in TSDs, list = pending[x].list
        PROVE  \E R \in PtrPlaces : \E Q \in PtrPlaces :
                 /\ T[R] = ChunksOf(list) /\ R.kind = "pending"
                 /\ T[Q] = AtsOf(list) /\ Q.kind = "pending batches"
    <3>1. T[PendingPlace(x)] = ChunksOf(list) /\ T[PendingBatches(x)] = AtsOf(list)
        BY <1>1, <2>2, Lookups DEF Table
    <3>2. /\ PendingPlace(x) \in PtrPlaces /\ PendingBatches(x) \in PtrPlaces
          /\ PendingPlace(x).kind = "pending" /\ PendingBatches(x).kind = "pending batches"
        BY DEF PendingPlace, PendingBatches, Place, PtrPlaces
    <3> QED
        BY <3>1, <3>2
  <2>3. ASSUME NEW t \in Threads, list = job[t].batches
        PROVE  \E R \in PtrPlaces : \E Q \in PtrPlaces :
                 /\ T[R] = ChunksOf(list) /\ R.kind = "recycle"
                 /\ T[Q] = AtsOf(list) /\ Q.kind = "recycle batches"
    <3>1. T[RecyclePlace(t)] = ChunksOf(list) /\ T[RecycleBatches(t)] = AtsOf(list)
        BY <1>1, <2>3, Lookups DEF Table
    <3>2. /\ RecyclePlace(t) \in PtrPlaces /\ RecycleBatches(t) \in PtrPlaces
          /\ RecyclePlace(t).kind = "recycle" /\ RecycleBatches(t).kind = "recycle batches"
        BY DEF RecyclePlace, RecycleBatches, Place, PtrPlaces
    <3> QED
        BY <3>1, <3>2
  <2> QED
      BY <2>1, <2>2, <2>3 DEF BatchLists
<1>6. PICK R \in PtrPlaces, Q \in PtrPlaces :
         /\ T[R] = ChunksOf(list) /\ R.kind \in {"quarantine", "pending", "recycle"}
         /\ T[Q] = AtsOf(list)
         /\ Q.kind \in {"quarantine batches", "pending batches", "recycle batches"}
    BY <1>5
<1>7. \A p \in ChunksOf(list) : p \in Ptrs /\ header[p].state = "Quarantined"
    BY <1>3, <1>6 DEF PtrRule
<1>8. \A p \in AtsOf(list) : header[p] = BatchHeader
    BY <1>3, <1>6 DEF PtrRule
<1> QED
    BY <1>7, <1>8

\* What the quarantine holds is in the lists.
LEMMA QuarantinedIn ==
    /\ \A p \in QuarantinedPtrs : \E list \in BatchLists : p \in ChunksOf(list)
    /\ \A p \in BatchPtrs : \E list \in BatchLists : p \in AtsOf(list)
    /\ \A list \in BatchLists : ChunksOf(list) \subseteq QuarantinedPtrs
<1>1. \A b \in AllBatches : \E list \in BatchLists : \E i \in DOMAIN list : b = list[i]
    BY DEF AllBatches, ToSet
<1>2. \A list \in BatchLists : \A i \in DOMAIN list : list[i] \in AllBatches
  <2>1. \A list \in BatchLists : \A i \in DOMAIN list : list[i] \in ToSet(list)
      BY DEF ToSet
  <2> QED
      BY <2>1 DEF AllBatches
<1>3. \A p \in QuarantinedPtrs : \E b \in AllBatches : p \in b.chunks
    BY DEF QuarantinedPtrs
<1>4. \A p \in BatchPtrs : \E b \in AllBatches : p = b.at
    BY DEF BatchPtrs
<1>5. \A list \in BatchLists : ChunksOf(list) \subseteq QuarantinedPtrs
    BY <1>2 DEF QuarantinedPtrs, ChunksOf
<1>6. \A p \in QuarantinedPtrs : \E list \in BatchLists : p \in ChunksOf(list)
    BY <1>1, <1>3 DEF ChunksOf
<1>7. \A p \in BatchPtrs : \E list \in BatchLists : p \in AtsOf(list)
    BY <1>1, <1>4 DEF AtsOf
<1> QED
    BY <1>5, <1>6, <1>7

\* The sizes that the headers tell.
SizesNow == [p \in Ptrs |-> GetSize(p, header[p])]

\* A header that fits its chunk tells a number.
LEMMA SizesAreNumbers == ASSUME Accounted PROVE SizesNow \in Weights
<1>1. PICK loc : Located(loc, Table, header, marker)
    BY DEF Accounted, Owned
<1>2. ASSUME NEW p \in Ptrs PROVE GetSize(p, header[p]) \in Int
  <2>1. PICK h \in Headers : h = header[p]
      BY <1>1 DEF Located
  <2>2. p \in Nat
    <3>1. PICK b \in Blocks, a \in Alignments \cup {MinAlignment} : p = UserPtr(b, a)
        BY DEF Ptrs
    <3>2. a \in Nat \ {0}
        BY LayoutAssumption DEF LayoutAssumption, MinAlignment
    <3> QED
        BY <3>1, <3>2, UserPtrFacts
  <2>3. h.class \in Nat /\ h.amount \in Int /\ h.offset \in Nat
      BY <2>1 DEF Headers
  <2>4. SecondaryBytes \in Int
      BY LayoutAssumption DEF LayoutAssumption
  <2>5. PICK b : b = GetBlockBegin(p, h)
      OBVIOUS
  <2>6. b \in Int
      BY <2>2, <2>3, <2>5 DEF GetBlockBegin, HeaderSize
  <2>7. BlockEnd(b, 0) = b + SecondaryBytes
      BY DEF BlockEnd
  <2>8. GetSize(p, h) = IF h.class # 0 THEN h.amount ELSE BlockEnd(b, 0) - p - h.amount
      BY <2>5 DEF GetSize
  <2> QED
      BY <2>1, <2>2, <2>3, <2>4, <2>6, <2>7, <2>8
<1> QED
    BY <1>2 DEF SizesNow, Weights

\* The counters of all caches are right.
CountInv ==
    /\ CountedBy(quarantine, SizesNow)
    /\ \A x \in TSDs : CountedBy(pending[x], SizesNow)

\* The counters are right.
LEMMA CountersRight == ASSUME Accounted, CountInv PROVE QuarantineConsistent
<1>1. PICK sizeOf : sizeOf = [p \in QuarantinedPtrs |-> GetSize(p, header[p])]
    OBVIOUS
<1>2. ChunkStates /\ SizesNow \in Weights
    BY ChunksMarked, SizesAreNumbers
<1>3. ASSUME NEW c, IsCache(c), CountedBy(c, SizesNow), c.list \in BatchLists
      PROVE  Counted(c, sizeOf)
  <2>1. \A q \in ChunksOf(c.list) : sizeOf[q] = SizesNow[q]
    <3>1. \A q \in ChunksOf(c.list) : q \in Ptrs /\ q \in QuarantinedPtrs
        BY <1>2, <1>3, QuarantinedIn DEF ChunkStates
    <3> QED
        BY <1>1, <3>1 DEF SizesNow
  <2>2. CountedBy(c, sizeOf)
      BY <1>2, <1>3, <2>1, CountedSame
  <2>3. PICK list \in Seq(Batches) : list = c.list
      BY <1>3 DEF IsCache, Tidy
  <2>4. c.size = SizeOfBatches(list)
    <3>1. Adds(list, c.size)
        BY <2>2, <2>3 DEF CountedBy
    <3> QED
        BY <3>1, AddsOnce, SizeAdds
  <2>5. DOMAIN list = 1 .. Len(list)
      OBVIOUS
  <2>6. ASSUME NEW i \in 1 .. Len(list)
        PROVE  /\ list[i].size = BatchBytes + MapThenSumSet(LAMBDA q : sizeOf[q], list[i].chunks)
               /\ Cardinality(list[i].chunks) \in 1 .. BatchCount
    <3>1. Weighed(list[i], sizeOf)
        BY <2>2, <2>3, <2>5 DEF CountedBy
    <3> QED
        BY <3>1 DEF Weighed, Total
  <2> QED
      BY <2>3, <2>4, <2>6 DEF Counted
<1>4. Counted(quarantine, sizeOf)
  <2>1. IsCache(quarantine) /\ quarantine.list \in BatchLists
      BY DEF Accounted, BatchLists
  <2> QED
      BY <1>3, <2>1 DEF CountInv
<1>5. \A x \in TSDs : Counted(pending[x], sizeOf)
  <2> SUFFICES ASSUME NEW x \in TSDs PROVE Counted(pending[x], sizeOf)
      OBVIOUS
  <2>1. x \in AllTSDs
      BY DEF TSDs, AllTSDs, TSDLocks
  <2>2. IsCache(pending[x]) /\ pending[x].list \in BatchLists
      BY <2>1 DEF Accounted, BatchLists
  <2> QED
      BY <1>3, <2>2 DEF CountInv
<1>6. \A p \in QuarantinedPtrs : header[p].state = "Quarantined"
    BY <1>2, QuarantinedIn DEF ChunkStates
<1>7. \A p \in BatchPtrs : header[p] = BatchHeader
    BY <1>2, QuarantinedIn DEF ChunkStates
<1> QED
    BY <1>1, <1>4, <1>5, <1>6, <1>7 DEF QuarantineConsistent, BatchHeader

-----------------------------------------------------------------------------
(* What steps leave of headers and caches.                                 *)

\* A chunk that is quarantined before and after a step has the same header.
HeadersStay ==
    \A p \in Ptrs : header[p].state = "Quarantined" /\ header'[p].state = "Quarantined"
                      => header'[p] = header[p]

\* A new chunk, of the program or a batch, and a chunk that is resized are allocated.
LEMMA AllocatedHeaders ==
    /\ \A block, c, p, size : HeaderFor(block, c, p, size).state = "Allocated"
    /\ \A p, h, size : Resized(p, h, size).state = "Allocated"
    /\ NoHeader.state = "none"
<1>1. \A block, c, p, size : HeaderFor(block, c, p, size).state = "Allocated"
    BY DEF HeaderFor
<1>2. \A p, h, size : Resized(p, h, size).state = "Allocated"
    BY <1>1 DEF Resized
<1> QED
    BY <1>1, <1>2 DEF NoHeader

\* Writing the header of an allocated chunk leaves no other one quarantined but as it was.
LEMMA WriteStays ==
    ASSUME NEW block, NEW p, NEW h, h.state = "Allocated", WriteHeader(block, p, h)
    PROVE  HeadersStay
<1>1. \A q \in Ptrs : header'[q] = h \/ header'[q] = NoHeader \/ header'[q] = header[q]
    BY DEF WriteHeader
<1> QED
    BY <1>1, AllocatedHeaders DEF HeadersStay

\* initChunk writes such a header.
LEMMA InitStays ==
    ASSUME NEW t, NEW block, NEW c, InitChunk(t, block, c) PROVE HeadersStay
<1>1. PICK p, h : h.state = "Allocated" /\ WriteHeader(block, p, h)
    BY AllocatedHeaders DEF InitChunk
<1> QED
    BY <1>1, WriteStays

\* Marking takes an allocated chunk, recycling ends in another state, and realloc writes an
\* allocated header.
LEMMA MovesStay ==
    ASSUME LockInv, Accounted, NEW t \in Threads, Mark(t) \/ Scrub(t) \/ Resize(t)
    PROVE  HeadersStay
<1>1. PICK hd : hd = header
    OBVIOUS
<1>2. hd \in [Ptrs -> Headers]
    BY <1>1 DEF Accounted, Owned, Located
<1>3. CASE Mark(t)
  <2>1. hd[job[t].ptr].state = "Allocated"
      BY <1>1, <1>3, MarkOwned
  <2>2. PICK s : header' = [hd EXCEPT ![job[t].ptr].state = s]
      BY <1>1, <1>3 DEF Mark
  <2>3. \A q \in Ptrs : q = job[t].ptr \/ header'[q] = hd[q]
      BY <1>2, <2>2
  <2> QED
      BY <1>1, <2>1, <2>3 DEF HeadersStay
<1>4. CASE Scrub(t)
  <2>1. Spared(header, header')
      BY <1>4, ScrubOwned
  <2> QED
      BY <2>1 DEF Spared, HeadersStay
<1>5. CASE Resize(t)
  <2>1. CASE header' = header
      BY <2>1 DEF HeadersStay
  <2>2. CASE header' # header
    <3>1. PICK p : header' = [hd EXCEPT ![p] = Resized(p, hd[p], job[t].size)]
      <4>1. header' = [header EXCEPT ![job[t].ptr]
                         = Resized(job[t].ptr, header[job[t].ptr], job[t].size)]
          BY <1>5, <2>2 DEF Resize
      <4> QED
          BY <1>1, <4>1
    <3>2. PICK g : g.state = "Allocated" /\ header' = [hd EXCEPT ![p] = g]
        BY <3>1, AllocatedHeaders
    <3>3. \A q \in Ptrs : header'[q] = g \/ header'[q] = hd[q]
        BY <1>2, <3>2
    <3> QED
        BY <1>1, <3>2, <3>3 DEF HeadersStay
  <2> QED
      BY <2>1, <2>2
<1> QED
    BY <1>3, <1>4, <1>5

\* Allocations write such headers, for the program or for a batch.
LEMMA StoresStay ==
    ASSUME NEW t, Pop(t) \/ Map(t) \/ Put(t) PROVE HeadersStay
<1>1. CASE header' = header
    BY <1>1 DEF HeadersStay
<1>2. CASE header' # header
  <2>1. CASE Pop(t)
    <3>1. \E block, c : InitChunk(t, block, c)
        BY <1>2, <2>1 DEF Pop, chunkVars
    <3> QED
        BY <3>1, InitStays
  <2>2. CASE Map(t)
    <3>1. \E block, c : InitChunk(t, block, c)
        BY <1>2, <2>2 DEF Map
    <3> QED
        BY <3>1, InitStays
  <2>3. CASE Put(t)
    <3>1. PICK block : NewBatchChunk(block)
        BY <1>2, <2>3 DEF Put
    <3> QED
        BY <3>1, AllocatedHeaders, WriteStays DEF NewBatchChunk
  <2> QED
      BY <2>1, <2>2, <2>3
<1> QED
    BY <1>1, <1>2

\* Only these steps touch headers, and only three the caches of the quarantine.
LEMMA OthersQuiet ==
    ASSUME NEW t \in Threads, Action(t)
    PROVE  /\ registry' = registry
           /\ \/ UNCHANGED header
              \/ Pop(t) \/ Map(t) \/ Put(t) \/ Mark(t) \/ Scrub(t) \/ Resize(t)
           /\ UNCHANGED quarantineVars \/ Put(t) \/ TransferCache(t) \/ Recycle(t)
<1>1. CASE Initialize(t)
    BY <1>1 DEF Initialize, InitOnce, AttachExclusive, AttachShared, registryVars, chunkVars
<1>2. CASE GetTSD(t)
    BY <1>2 DEF GetTSD, TakeOwn, TakeFallback, LockFallback, TakeCurrent, TakeSlow,
                TakeCandidate, registryVars, chunkVars
<1>3. CASE Allocate(t)
    BY <1>3 DEF Allocate, Malloc, Pop, Map, Call, registryVars
<1>4. CASE Deallocate(t)
    BY <1>4 DEF Deallocate, Dealloc, Realloc, Resize, Mark, Push, Unmap, Call, registryVars
<1>5. CASE Quarantining(t)
    BY <1>5 DEF Quarantining, Put, OutOfMemory, TransferCache, TryRecycle, LockRecycle, Recycle,
                UnlockRecycle, Scrub, registryVars, chunkVars
<1>6. CASE Draining(t)
    BY <1>6 DEF Draining, DrainCaches, LockTSDs, NextTSD, Flush, Call, registryVars, chunkVars
<1>7. CASE Exiting(t)
    BY <1>7 DEF Exiting, BeginExit, NextRound, TeardownThread, Unlink, registryVars, chunkVars
<1>8. CASE Blocking(t)
    BY <1>8 DEF Blocking, Disable, Disabling, Enable, Call, registryVars, chunkVars
<1> QED
    BY <1>1, <1>2, <1>3, <1>4, <1>5, <1>6, <1>7, <1>8 DEF Action

\* So no step changes the header of a chunk that stays quarantined.
LEMMA HeadersOfActions ==
    ASSUME LockInv, Accounted, NEW t \in Threads, Action(t) PROVE HeadersStay
<1>1. CASE UNCHANGED header
    BY <1>1 DEF HeadersStay
<1> QED
    BY <1>1, OthersQuiet, StoresStay, MovesStay

-----------------------------------------------------------------------------
(* Every step keeps the counters.                                          *)

\* A cache that is counted with the old sizes, and whose chunks were quarantined.
Followed(c) ==
    CountedBy(c, SizesNow) /\ \A q \in ChunksOf(c.list) : header[q].state = "Quarantined"

\* All caches are, before a step.
LEMMA FollowedNow ==
    ASSUME Accounted, CountInv
    PROVE  Followed(quarantine) /\ \A x \in TSDs : Followed(pending[x])
<1>1. ChunkStates
    BY ChunksMarked
<1>2. quarantine.list \in BatchLists /\ \A x \in TSDs : pending[x].list \in BatchLists
    BY DEF BatchLists
<1> QED
    BY <1>1, <1>2 DEF ChunkStates, CountInv, Followed

\* put: the batch that takes the chunk counts the size its header tells.
LEMMA PutFollowed ==
    ASSUME LockInv, Accounted, Accounted', CountInv, NEW t \in Threads, Put(t)
    PROVE  \A x \in TSDs : Followed(pending'[x])
<1>1. PICK v : v = job[t]
    OBVIOUS
<1>2. PICK x \in TSDs : x = v.tsd
  <2>1. pc[t] = "put"
      BY DEF Put, At
  <2> QED
      BY <1>1, <2>1, ShapeAt DEF InHand
<1>3. PICK p, c : p = v.ptr /\ c = pending[x]
    OBVIOUS
<1>4. PICK at : pending' = [pending EXCEPT ![x] = Enqueue(c, p, GetSize(p, header[p]), at)]
    BY <1>1, <1>2, <1>3 DEF Put
<1>5. PICK f : f = SizesNow
    OBVIOUS
<1>6. PICK T, P, Q : T = Table /\ P = PutPlace(t) /\ Q = PendingPlace(x)
    OBVIOUS
<1>7. /\ Owned(T, header, marker) /\ P \in PtrPlaces /\ Q \in PtrPlaces /\ P # Q
      /\ P.kind = "put"
    BY <1>6, PtrPlaceFacts DEF Accounted
<1>8. p \in T[P] /\ T[Q] = ChunksOf(c.list)
  <2>1. pc[t] = "put"
      BY DEF Put, At
  <2>2. v.ptr # None
      BY <1>1, <2>1, PtrGivenUp
  <2>3. PtrAt("put", pc[t], job[t]) = {p}
      BY <1>1, <1>3, <2>1, <2>2 DEF PtrAt
  <2> QED
      BY <1>3, <1>6, <2>3, Lookups DEF Table
<1>9. p \in Ptrs /\ header[p].state = "Quarantined" /\ p \notin ChunksOf(c.list)
  <2>1. p \in Ptrs /\ PtrRule(P, p, header[p])
      BY <1>7, <1>8, AtPlace
  <2>2. T[P] \cap T[Q] = {}
      BY <1>7, Disjoint
  <2> QED
      BY <1>7, <1>8, <2>1, <2>2 DEF PtrRule
<1>10. /\ TSDs \subseteq AllTSDs /\ DOMAIN pending = AllTSDs /\ IsCache(c)
       /\ \A y \in AllTSDs : IsCache(pending'[y])
  <2>1. TSDs \subseteq AllTSDs
      BY DEF TSDs, AllTSDs, TSDLocks
  <2>2. AllTSDs' = AllTSDs
      BY DEF AllTSDs, TSDLocks
  <2> QED
      BY <1>3, <2>1, <2>2 DEF Accounted
<1>11. f \in Weights /\ f[p] = GetSize(p, header[p]) /\ Followed(c) /\ CountedBy(c, f)
    BY <1>3, <1>5, <1>9, SizesAreNumbers, FollowedNow DEF SizesNow, Followed
<1>12. PICK e : e = Enqueue(c, p, f[p], at)
    OBVIOUS
<1>13. IsCache(e) /\ pending'[x] = e /\ \A y \in TSDs \ {x} : pending'[y] = pending[y]
    BY <1>4, <1>10, <1>11, <1>12
<1>14. NeedsBatch(c) => at \in Ptrs /\ at \notin AtsOf(c.list)
  <2> HAVE NeedsBatch(c)
  <2>1. PICK b : b = NewBatch(at, p, f[p])
      OBVIOUS
  <2>2. PICK list, more : list = c.list /\ more = e.list
      OBVIOUS
  <2>3. more = Append(list, b)
      BY <1>12, <2>1, <2>2 DEF Enqueue, EnqueueBatch
  <2>4. Tidy(more) /\ more \in Seq(Batches) /\ list \in Seq(Batches)
      BY <1>10, <1>13, <2>2 DEF IsCache, Tidy
  <2>5. PICK n \in Nat : n = Len(list) /\ DOMAIN list = 1 .. n
      BY <2>4
  <2>6. DOMAIN more = 1 .. n + 1 /\ more[n + 1] = b /\ \A i \in 1 .. n : more[i] = list[i]
      BY <2>3, <2>4, <2>5
  <2>7. b \in Batches /\ b.at = at
      BY <2>1, <2>4, <2>5, <2>6 DEF NewBatch
  <2>8. \A i \in 1 .. n : list[i].at # at
    <3>1. \A i \in 1 .. n : i \in DOMAIN more /\ n + 1 \in DOMAIN more /\ i # n + 1
        BY <2>5, <2>6
    <3> QED
        BY <2>4, <2>6, <2>7, <3>1 DEF Tidy
  <2> QED
      BY <2>2, <2>5, <2>7, <2>8 DEF Batches, AtsOf
<1>15. CountedBy(e, f)
    BY <1>9, <1>10, <1>11, <1>12, <1>14, EnqueueCounts
<1>16. ChunksOf(e.list) = ChunksOf(c.list) \cup {p}
  <2>1. PICK size : size = f[p]
      OBVIOUS
  <2>2. PICK g : g = Enqueue(c, p, size, at)
      OBVIOUS
  <2>3. IsCache(c) /\ p \in Ptrs /\ p \notin ChunksOf(c.list) /\ size \in Int
      BY <1>9, <1>10, <1>11, <2>1 DEF Weights
  <2>4. ChunksOf(g.list) = ChunksOf(c.list) \cup {p}
      BY ONLY <1>14, <2>2, <2>3, EnqueueFacts
  <2> QED
      BY <1>12, <2>1, <2>2, <2>4
<1>17. Followed(e)
    BY <1>5, <1>9, <1>11, <1>15, <1>16 DEF Followed
<1> QED
    BY <1>13, <1>17, FollowedNow

\* transfer: the batches of the TSD go to the quarantine with their bytes.
LEMMA TransferFollowed ==
    ASSUME LockInv, Accounted, CountInv, NEW t \in Threads, TransferCache(t)
    PROVE  Followed(quarantine') /\ \A x \in TSDs : Followed(pending'[x])
<1>1. PICK x \in TSDs : x = job[t].tsd
  <2>1. pc[t] = "transfer"
      BY DEF TransferCache, At
  <2> QED
      BY <2>1, ShapeAt DEF InHand
<1>2. PICK c, d : c = quarantine /\ d = pending[x]
    OBVIOUS
<1>3. quarantine' = Transfer(c, d) /\ pending' = [pending EXCEPT ![x] = EmptyCache]
    BY <1>1, <1>2 DEF TransferCache
<1>4. /\ TSDs \subseteq AllTSDs /\ DOMAIN pending = AllTSDs /\ IsCache(c) /\ IsCache(d)
  <2>1. TSDs \subseteq AllTSDs
      BY DEF TSDs, AllTSDs, TSDLocks
  <2> QED
      BY <1>2, <2>1 DEF Accounted
<1>5. Followed(c) /\ Followed(d)
    BY <1>2, FollowedNow
<1>6. PICK T, P, Q, P2, Q2 : /\ T = Table /\ P = QuarantinePlace /\ Q = PendingPlace(x)
                             /\ P2 = QuarantineBatches /\ Q2 = PendingBatches(x)
    OBVIOUS
<1>7. ChunksOf(c.list) \cap ChunksOf(d.list) = {} /\ AtsOf(c.list) \cap AtsOf(d.list) = {}
  <2>1. /\ Owned(T, header, marker) /\ {P, Q, P2, Q2} \subseteq PtrPlaces /\ P # Q /\ P2 # Q2
      BY <1>6, PtrPlaceFacts DEF Accounted
  <2>2. /\ T[P] = ChunksOf(c.list) /\ T[Q] = ChunksOf(d.list)
        /\ T[P2] = AtsOf(c.list) /\ T[Q2] = AtsOf(d.list)
      BY <1>2, <1>6, Lookups DEF Table
  <2>3. T[P] \cap T[Q] = {} /\ T[P2] \cap T[Q2] = {}
      BY <2>1, Disjoint
  <2> QED
      BY <2>2, <2>3
<1>8. PICK e : e = Transfer(c, d)
    OBVIOUS
<1>9. CountedBy(e, SizesNow)
    BY <1>4, <1>5, <1>8, TransferCounts DEF Followed
<1>10. ChunksOf(e.list) = ChunksOf(c.list) \cup ChunksOf(d.list)
    BY <1>4, <1>7, <1>8, TransferFacts
<1>11. Followed(e)
    BY <1>5, <1>9, <1>10 DEF Followed
<1>12. Followed(EmptyCache)
    BY CountedEmpty, EmptyList DEF Followed
<1>13. pending'[x] = EmptyCache /\ \A y \in TSDs \ {x} : pending'[y] = pending[y]
    BY <1>3, <1>4
<1> QED
    BY <1>3, <1>8, <1>11, <1>12, <1>13, FollowedNow

\* Merging and dequeuing batches take off the bytes of what leaves.
LEMMA RecycleFollowed ==
    ASSUME LockInv, Accounted, CountInv, NEW t \in Threads, Recycle(t)
    PROVE  Followed(quarantine') /\ pending' = pending
<1>1. PICK c, min : c = quarantine /\ min = MinSizeFor(job[t].op)
    OBVIOUS
<1>2. quarantine' = Extract(c, min).kept /\ pending' = pending
    BY <1>1 DEF Recycle
<1>3. IsCache(c) /\ Followed(c)
    BY <1>1, FollowedNow DEF Accounted
<1>4. PICK r : r = Extract(c, min)
    OBVIOUS
<1>5. CountedBy(r.kept, SizesNow)
  <2>1. PICK f \in Weights : f = SizesNow
      BY SizesAreNumbers
  <2>2. CountedBy(c, f)
      BY <1>3, <2>1 DEF Followed
  <2> QED
      BY <1>3, <1>4, <2>1, <2>2, ExtractCounts
<1>6. ChunksOf(r.kept.list) \subseteq ChunksOf(c.list)
  <2>1. Splits(c, r.kept, r.out)
      BY <1>3, <1>4, ExtractFacts
  <2> QED
      BY <2>1 DEF Splits
<1>7. Followed(r.kept)
    BY <1>3, <1>5, <1>6 DEF Followed
<1> QED
    BY <1>2, <1>4, <1>7

\* What was followed is counted with the new sizes.
LEMMA CountersStep ==
    ASSUME LockInv, Accounted, Accounted', CountInv, NEW t \in Threads, Action(t)
    PROVE  CountInv'
<1>1. /\ Followed(quarantine') /\ \A x \in TSDs : Followed(pending'[x])
  <2>1. CASE UNCHANGED quarantineVars
      BY <2>1, FollowedNow DEF quarantineVars
  <2>2. CASE Put(t)
    <3>1. quarantine' = quarantine
        BY <2>2 DEF Put
    <3> QED
        BY <2>2, <3>1, FollowedNow, PutFollowed
  <2>3. CASE TransferCache(t)
      BY <2>3, TransferFollowed
  <2>4. CASE Recycle(t)
      BY <2>4, RecycleFollowed, FollowedNow
  <2> QED
      BY <2>1, <2>2, <2>3, <2>4, OthersQuiet
<1>2. TSDs' = TSDs
    BY OthersQuiet DEF TSDs
<1>3. PICK f, g : f = SizesNow /\ g = SizesNow'
    OBVIOUS
<1>4. f \in Weights
    BY <1>3, SizesAreNumbers
<1>5. ChunkStates'
    BY ChunksMarked, PTL
<1>6. ASSUME NEW c, Followed(c), IsCache(c), c.list \in BatchLists'
      PROVE  CountedBy(c, g)
  <2>1. \A q \in ChunksOf(c.list) : q \in Ptrs /\ header[q].state = "Quarantined"
                                    /\ header'[q].state = "Quarantined"
      BY <1>5, <1>6 DEF ChunkStates, Followed
  <2>2. \A q \in ChunksOf(c.list) : q \in Ptrs /\ header'[q] = header[q]
      BY <2>1, HeadersOfActions DEF HeadersStay
  <2>3. \A q \in ChunksOf(c.list) : g[q] = f[q]
      BY <1>3, <2>2 DEF SizesNow
  <2>4. CountedBy(c, f)
      BY <1>3, <1>6 DEF Followed
  <2> QED
      BY <1>4, <1>6, <2>3, <2>4, CountedSame
<1>7. CountedBy(quarantine', g)
  <2>1. IsCache(quarantine') /\ quarantine'.list \in BatchLists'
      BY DEF Accounted, BatchLists
  <2> QED
      BY <1>1, <1>6, <2>1
<1>8. \A x \in TSDs : CountedBy(pending'[x], g)
  <2> SUFFICES ASSUME NEW x \in TSDs PROVE CountedBy(pending'[x], g)
      OBVIOUS
  <2>1. pending'[x].list \in BatchLists'
      BY <1>2 DEF BatchLists
  <2>2. x \in AllTSDs /\ AllTSDs' = AllTSDs
      BY DEF TSDs, AllTSDs, TSDLocks
  <2>3. IsCache(pending'[x])
      BY <2>2 DEF Accounted
  <2> QED
      BY <1>1, <1>6, <2>1, <2>3
<1> QED
    BY <1>2, <1>3, <1>7, <1>8 DEF CountInv

\* Nothing is quarantined at first.
LEMMA CountersInit == Init => CountInv
<1> SUFFICES ASSUME Init PROVE CountInv
    OBVIOUS
<1>1. quarantine = EmptyCache
    BY DEF Init
<1>2. \A x \in TSDs : pending[x] = EmptyCache
  <2>1. TSDs \subseteq AllTSDs
      BY DEF TSDs, AllTSDs, TSDLocks
  <2> QED
      BY <2>1 DEF Init
<1> QED
    BY <1>1, <1>2, CountedEmpty DEF CountInv

\* A step of a process that is not over: the counters are kept, also by the one that
\* aborts it.
LEMMA CountInvStep == LockInv /\ OwnInv /\ CountInv /\ [Next]_vars => CountInv'
<1> SUFFICES ASSUME LockInv, OwnInv, CountInv, [Next]_vars PROVE CountInv'
    OBVIOUS
<1>1. ASSUME UNCHANGED <<registry, quarantine, pending, header>> PROVE CountInv'
  <2>1. SizesNow' = SizesNow /\ TSDs' = TSDs
      BY <1>1 DEF SizesNow, TSDs
  <2> QED
      BY <1>1, <2>1 DEF CountInv
<1>2. CASE UNCHANGED vars
    BY <1>1, <1>2 DEF vars, registryVars, quarantineVars, chunkVars
<1>3. ASSUME NEW t \in Threads, Action(t) PROVE CountInv'
  <2>1. Accounted
      BY <1>3, DeadDoesNothing DEF OwnInv
  <2>2. CASE OutOfMemory(t)
      BY <1>1, <2>2 DEF OutOfMemory, registryVars, quarantineVars, chunkVars
  <2>3. CASE ~OutOfMemory(t)
      BY <1>3, <2>1, <2>3, ActionOwned, CountersStep
  <2> QED
      BY <2>2, <2>3
<1>4. UNCHANGED vars \/ \E t \in Threads : Action(t)
    BY DEF Next, Over, Action
<1> QED
    BY <1>2, <1>3, <1>4

\* The counters of the quarantine are what it holds, and what it holds is marked, whatever
\* threads put, transfer, merge and recycle in between; also in the state in which a
\* process without memory for a batch is aborted.
THEOREM QuarantineCounts == Spec => []QuarantineConsistent
<1>1. Init => CountInv /\ QuarantineConsistent
  <2> SUFFICES ASSUME Init PROVE CountInv /\ QuarantineConsistent
      OBVIOUS
  <2>1. CountInv
      BY CountersInit
  <2>2. Accounted
    <3>1. OwnInv
        BY OwnInvInit
    <3> QED
        BY <3>1 DEF Init, OwnInv, Dead, Aborted, At
  <2> QED
      BY <2>1, <2>2, CountersRight
<1>2. Accounted /\ CountInv => QuarantineConsistent
    BY CountersRight
<1>3. /\ LockInv /\ OwnInv /\ OwnInv' /\ QuarantineConsistent /\ [Next]_vars
      /\ CountInv' /\ (Accounted' /\ CountInv' => QuarantineConsistent')
      => QuarantineConsistent'
  <2> SUFFICES ASSUME LockInv, OwnInv, QuarantineConsistent, [Next]_vars, CountInv',
                      Accounted' /\ CountInv' => QuarantineConsistent'
               PROVE  QuarantineConsistent'
      OBVIOUS
  <2>1. ASSUME UNCHANGED <<registry, quarantine, pending, header, job>>
        PROVE  QuarantineConsistent'
    <3>1. TSDs' = TSDs
        BY <2>1 DEF TSDs
    <3>2. BatchLists' = BatchLists
        BY <2>1, <3>1 DEF BatchLists
    <3>3. QuarantinedPtrs' = QuarantinedPtrs /\ BatchPtrs' = BatchPtrs
        BY <3>2 DEF QuarantinedPtrs, BatchPtrs, AllBatches
    <3> QED
        BY <2>1, <3>1, <3>3 DEF QuarantineConsistent
  <2>2. CASE UNCHANGED vars
      BY <2>1, <2>2 DEF vars, registryVars, quarantineVars, chunkVars, callVars
  <2>3. ASSUME NEW t \in Threads, Action(t) PROVE QuarantineConsistent'
    <3>1. Accounted' \/ OutOfMemory(t)
        BY <2>3, DeadDoesNothing, ActionOwned DEF OwnInv
    <3>2. ASSUME OutOfMemory(t) PROVE QuarantineConsistent'
        BY <2>1, <3>2 DEF OutOfMemory, registryVars, quarantineVars, chunkVars
    <3> QED
        BY <3>1, <3>2
  <2>4. UNCHANGED vars \/ \E t \in Threads : Action(t)
      BY DEF Next, Over, Action
  <2> QED
      BY <2>2, <2>3, <2>4
<1>4. LockInv /\ OwnInv /\ CountInv /\ [Next]_vars => CountInv'
    BY CountInvStep
<1> QED
    BY <1>1, <1>2, <1>3, <1>4, OwnInvariant, LockInvariant, PTL DEF Spec
=============================================================================
