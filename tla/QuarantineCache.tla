-------------------------- MODULE QuarantineCache --------------------------
(***************************************************************************)
(* QuarantineBatch and QuarantineCache of quarantine.h: a list of batches, *)
(* each of at most MaxCount chunks, and the Size counter kept beside it.   *)
(* A batch is itself a chunk of the allocator, named by its pointer "at";  *)
(* shuffle makes the order inside a batch meaningless, so its chunks are a *)
(* set.                                                                    *)
(***************************************************************************)
EXTENDS Integers, Sequences, SequencesExt, FiniteSets, FiniteSetsExt

CONSTANTS
    BatchBytes,     \* sizeof(QuarantineBatch)
    BatchCount      \* QuarantineBatch::MaxCount

ASSUME QuarantineAssumption == {BatchBytes, BatchCount} \subseteq Nat \ {0}

EmptyCache == [list |-> <<>>, size |-> 0]

-----------------------------------------------------------------------------
(* Batches.                                                                *)

NewBatch(at, chunk, size) ==
    [at |-> at, chunks |-> {chunk}, size |-> size + BatchBytes]

QuarantinedSize(batch) == batch.size - BatchBytes

CanMerge(batch, from) ==
    Cardinality(batch.chunks) + Cardinality(from.chunks) <= BatchCount

Merge(batch, from) ==
    [batch EXCEPT !.chunks = @ \cup from.chunks, !.size = @ + QuarantinedSize(from)]

Emptied(batch) == [batch EXCEPT !.chunks = {}, !.size = BatchBytes]

-----------------------------------------------------------------------------
(* Caches.                                                                 *)

\* Whether enqueue has to allocate a batch first.
NeedsBatch(cache) ==
    ~ (cache.list # <<>> /\ Cardinality(Last(cache.list).chunks) # BatchCount)

EnqueueBatch(cache, batch) ==
    [list |-> Append(cache.list, batch), size |-> cache.size + batch.size]

\* enqueue of a chunk; "at" is the batch allocated when one is needed.
Enqueue(cache, chunk, size, at) ==
    IF NeedsBatch(cache)
    THEN EnqueueBatch(cache, NewBatch(at, chunk, size))
    ELSE LET last == Len(cache.list)
         IN  [cache EXCEPT !.list[last].chunks = @ \cup {chunk},
                           !.list[last].size = @ + size,
                           !.size = @ + size]

\* transfer: the cache that receives everything "from" has.
Transfer(cache, from) ==
    [list |-> cache.list \o from.list, size |-> cache.size + from.size]

OverheadSize(cache) == Len(cache.list) * BatchBytes

\* As if the emptied batches still counted.
MergeBatches_Counted(cache) ==
    LET Visit(acc, batch) ==
            IF acc.kept # <<>> /\ CanMerge(Last(acc.kept), batch)
            THEN [kept |-> Front(acc.kept) \o <<Merge(Last(acc.kept), batch)>>,
                  out  |-> Append(acc.out, Emptied(batch))]
            ELSE [acc EXCEPT !.kept = Append(@, batch)]
        merged == FoldLeft(Visit, [kept |-> <<>>, out |-> <<>>], cache.list)
    IN  [kept |-> [list |-> merged.kept, size |-> cache.size], out |-> merged.out]

\* mergeBatches: each batch takes in the next one as long as both fit.  The emptied
\* batches leave the list and are handed over to be deallocated.
MergeBatches(cache) ==
    LET Visit(acc, batch) ==
            IF acc.kept # <<>> /\ CanMerge(Last(acc.kept), batch)
            THEN [kept |-> Front(acc.kept) \o <<Merge(Last(acc.kept), batch)>>,
                  out  |-> Append(acc.out, Emptied(batch))]
            ELSE [acc EXCEPT !.kept = Append(@, batch)]
        merged == FoldLeft(Visit, [kept |-> <<>>, out |-> <<>>], cache.list)
    IN  [kept |-> [list |-> merged.kept,
                   size |-> cache.size - Len(merged.out) * BatchBytes],
         out  |-> merged.out]

SizeOfBatches(list) == FoldLeft(LAMBDA sum, batch : sum + batch.size, 0, list)

\* dequeueBatch until the counter is no longer above min.
DequeueDownTo(cache, min) ==
    LET left(k) == cache.size - SizeOfBatches(SubSeq(cache.list, 1, k))
        enough  == {k \in 0 .. Len(cache.list) : left(k) <= min}
        k       == IF enough = {} THEN Len(cache.list) ELSE Min(enough)
    IN  [kept |-> [list |-> SubSeq(cache.list, k + 1, Len(cache.list)), size |-> left(k)],
         out  |-> SubSeq(cache.list, 1, k)]

\* The critical section of recycle: merge when more than half of the bytes are
\* batches, then extract.
Extract(cache, min) ==
    LET overhead == OverheadSize(cache)
        merged   == IF cache.size > overhead /\ 2 * overhead > cache.size
                    THEN MergeBatches(cache)
                    ELSE [kept |-> cache, out |-> <<>>]
        dequeued == DequeueDownTo(merged.kept, min)
    IN  [kept |-> dequeued.kept, out |-> merged.out \o dequeued.out]

-----------------------------------------------------------------------------

\* The counter is the size of the batches, and a batch that of its chunks.
Counted(cache, sizeOf) ==
    /\ cache.size = SizeOfBatches(cache.list)
    /\ \A i \in 1 .. Len(cache.list) :
         LET batch == cache.list[i]
         IN  /\ batch.size = BatchBytes + MapThenSumSet(LAMBDA c : sizeOf[c], batch.chunks)
             /\ Cardinality(batch.chunks) \in 1 .. BatchCount
=============================================================================
