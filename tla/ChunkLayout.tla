---------------------------- MODULE ChunkLayout ----------------------------
(***************************************************************************)
(* Where a chunk lies in its block and what its header says (chunk.h and   *)
(* the layout arithmetic of combined.h).  Addresses and sizes count in     *)
(* units of MinAlignment, which is also the size of the header in front    *)
(* of the chunk.  The blocks of a size class lie one after the other in a  *)
(* region of their own; a block of the Secondary is as large as the        *)
(* mapping behind it.                                                      *)
(***************************************************************************)
EXTENDS SizeClassMap

CONSTANTS
    NumBlocks,          \* blocks of each size class
    SecondaryBlocks,    \* addresses of the blocks the Secondary can map
    SecondaryBytes,     \* and the size of each
    Alignments,         \* alignments programs ask for
    PageSize

ASSUME LayoutAssumption ==
    /\ NumBlocks \in [ClassIds -> Nat]
    /\ {SecondaryBytes, PageSize} \subseteq Nat \ {0}
    /\ Alignments \subseteq Nat \ {0}

HeaderSize == 1
MinAlignment == 1

RegionSize == 2 * MaxSize * Max({NumBlocks[c] : c \in ClassIds})

RegionBegin(classId) == classId * RegionSize

BlocksOf(classId) ==
    {RegionBegin(classId) + i * SizeOf(classId) : i \in 0 .. NumBlocks[classId] - 1}

PrimaryBlocks == UNION {BlocksOf(c) : c \in ClassIds}
Blocks == PrimaryBlocks \cup SecondaryBlocks

ClassOfBlock(block) ==
    IF block \in SecondaryBlocks THEN 0
    ELSE CHOOSE c \in ClassIds : block \in BlocksOf(c)

BlockEnd(block, classId) ==
    block + (IF classId = 0 THEN SecondaryBytes ELSE SizeOf(classId))

\* Every block of the Secondary is a mapping of its own.
ASSUME ApartAssumption ==
    /\ SecondaryBlocks \subseteq Nat \ {0}
    /\ SecondaryBlocks \cap PrimaryBlocks = {}
    /\ \A b \in SecondaryBlocks : \A other \in Blocks \ {b} :
         \/ BlockEnd(b, 0) <= other
         \/ BlockEnd(other, ClassOfBlock(other)) <= b

RoundUp(n, boundary) == ((n + boundary - 1) \div boundary) * boundary

-----------------------------------------------------------------------------
(* allocate and initChunk.                                                 *)

\* As if the alignment came out of the header.
NeededSize_HeaderOnly(size, align) == size + HeaderSize

\* Room for the request and its header wherever the block begins.
NeededSize(size, align) ==
    size + (IF align > MinAlignment THEN align ELSE HeaderSize)

CanAllocate(size, align) == NeededSize(size, align) <= MaxSize

UserPtr(block, align) == RoundUp(block + HeaderSize, align)

Ptrs == {UserPtr(b, a) : b \in Blocks, a \in Alignments \cup {MinAlignment}}

\* What isValid rejects: no header was stored there, or something lies over it.
NoHeader == [state |-> "none", class |-> 0, amount |-> 0, offset |-> 0]

\* The header of a chunk of this size; "amount" is SizeOrUnusedBytes.
HeaderFor(block, classId, ptr, size) ==
    [state  |-> "Allocated",
     class  |-> classId,
     amount |-> IF classId = 0 THEN BlockEnd(block, 0) - (ptr + size) ELSE size,
     offset |-> ptr - (block + HeaderSize)]

-----------------------------------------------------------------------------
(* From a pointer or a block back to the chunk.                            *)

GetBlockBegin(ptr, header) == ptr - HeaderSize - header.offset

GetSize(ptr, header) ==
    IF header.class # 0
    THEN header.amount
    ELSE BlockEnd(GetBlockBegin(ptr, header), 0) - ptr - header.amount

\* Whether reallocate can keep the block: the new size fits and does not give up a
\* page or more.
FitsInPlace(ptr, header, newSize) ==
    LET end == BlockEnd(GetBlockBegin(ptr, header), header.class)
        old == GetSize(ptr, header)
    IN  /\ ptr + newSize <= end
        /\ newSize > old \/ old - newSize < PageSize

Resized(ptr, header, newSize) ==
    HeaderFor(GetBlockBegin(ptr, header), header.class, ptr, newSize)

-----------------------------------------------------------------------------
(* findNearestBlock of the primary, for reports: from any address to the   *)
(* block it lies in or the closest one.  All blocks are carved here.       *)

RegionEnd(classId) == RegionBegin(classId) + NumBlocks[classId] * SizeOf(classId)

RegionDistance(ptr, classId) ==
    Max({0, RegionBegin(classId) - ptr, ptr - RegionEnd(classId)})

\* The closest region with blocks, the first of several.
NearestRegion(ptr) ==
    CHOOSE c \in ClassIds :
        /\ NumBlocks[c] > 0
        /\ \A d \in ClassIds :
             \/ NumBlocks[d] = 0
             \/ RegionDistance(ptr, c) < RegionDistance(ptr, d)
             \/ RegionDistance(ptr, c) = RegionDistance(ptr, d) /\ c <= d

\* 8192 bytes
NearDistance == 512

\* No block when the closest region is too far.
NearestBlock(ptr) ==
    LET c == NearestRegion(ptr)
        index == (ptr - RegionBegin(c)) \div SizeOf(c)
    IN  IF RegionDistance(ptr, c) > NearDistance
        THEN {}
        ELSE {RegionBegin(c) + SizeOf(c) * Max({0, Min({index, NumBlocks[c] - 1})})}

=============================================================================
