---------------------------- MODULE SizeClassMap ----------------------------
(***************************************************************************)
(* FixedSizeClassMap of size_class_map.h: from sizes to size classes and   *)
(* back without a table.  Class 0 is BatchClass.  Logarithms and sizes     *)
(* count in units of the minimal alignment, so that a configuration of the *)
(* code is one with the same NumBits and smaller logarithms here.          *)
(***************************************************************************)
EXTENDS Integers, FiniteSetsExt

CONSTANTS
    NumBits,            \* significant bits of the sizes above MidSize
    MinSizeLog,
    MidSizeLog,
    MaxSizeLog,
    SizeDelta,
    MaxNumCachedHint,
    MaxBytesCached      \* 2^MaxBytesCachedLog

ASSUME SizeClassAssumption ==
    /\ {NumBits, MaxNumCachedHint, MaxBytesCached} \subseteq Nat \ {0}
    /\ SizeDelta \in Nat
    /\ MinSizeLog \in Nat /\ MidSizeLog >= MinSizeLog /\ MaxSizeLog >= MidSizeLog
    /\ NumBits - 1 <= MidSizeLog

MinSize == 2 ^ MinSizeLog
MidSize == 2 ^ MidSizeLog
MidClass == MidSize \div MinSize
MaxSize == 2 ^ MaxSizeLog + SizeDelta

\* 2^S, the number of classes between two powers of two.
Steps == 2 ^ (NumBits - 1)

LargestClassId == MidClass + (MaxSizeLog - MidSizeLog) * Steps
ClassIds == 1 .. LargestClassId

\* getMostSignificantSetBitIndex
TopBit(n) == CHOOSE i \in 0 .. n : 2 ^ i <= n /\ n < 2 ^ (i + 1)

\* scaledLog2(Size, ZeroLog, LogBits)
ScaledLog2(size, zeroLog, logBits) ==
    LET top == TopBit(size)
    IN  (size * 2 ^ logBits) \div 2 ^ top - 2 ^ logBits + (top - zeroLog) * 2 ^ logBits

\* getSizeByClassId
SizeOf(classId) ==
    IF classId <= MidClass
    THEN classId * MinSize + SizeDelta
    ELSE LET above == classId - MidClass
             power == MidSize * 2 ^ (above \div Steps)
         IN  power + (power \div Steps) * (above % Steps) + SizeDelta

\* getClassIdBySize
ClassOf(size) ==
    LET net == size - SizeDelta
    IN  IF net <= MinSize THEN 1
        ELSE IF net <= MidSize THEN (net + MinSize - 1) \div MinSize
        ELSE MidClass + 1 + ScaledLog2(net - 1, MidSizeLog, NumBits - 1)

\* What validateMap checks of a configuration: every class has a size, and the classes that
\* are large enough for a request are those from the one it is given on.
ASSUME ClassesAssumption ==
    /\ {LargestClassId, MaxSize} \subseteq Nat \ {0}
    /\ \A c \in ClassIds : SizeOf(c) \in 1 .. MaxSize
    /\ \A size \in 1 .. MaxSize :
         /\ ClassOf(size) \in ClassIds
         /\ \A c \in ClassIds : SizeOf(c) >= size <=> c >= ClassOf(size)

\* MaxCount of a local cache, 2 * getMaxCached(Size)
MaxCount(classId) ==
    2 * Max({1, Min({MaxNumCachedHint, MaxBytesCached \div SizeOf(classId)})})

=============================================================================
