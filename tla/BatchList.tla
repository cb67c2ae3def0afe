------------------------------ MODULE BatchList ------------------------------
(***************************************************************************)
(* The free list of BatchClass, the size class of the records themselves   *)
(* (pushBatchClassBlocks and popBlocksImpl, alike in primary64.h and       *)
(* primary32.h).  It is self-contained: a TransferBatch lies in a block    *)
(* that it records, and the BatchGroup in one that the last batch records, *)
(* so that whoever pops a batch also gets the memory of its record.        *)
(*                                                                         *)
(* A block is a number; of several blocks the array has the smaller first. *)
(***************************************************************************)
EXTENDS Integers, Sequences, SequencesExt, FiniteSets, FiniteSetsExt

CONSTANTS
    MaxCachedPerBatch,  \* getMaxCached of BatchClass, more than one
    NoBlock

\* The list without a BatchGroup.
EmptyList == [group |-> NoBlock, batches |-> <<>>]

\* The batch that is made when there is none also records the group's block.
FirstBatch(group, block) == [at |-> block, blocks |-> {block, group}]

\* Fill up the batch in front, or put one in front of it that lies in the block.
AppendBlock(block, batches) ==
    IF Cardinality(Head(batches).blocks) < MaxCachedPerBatch
    THEN [batches EXCEPT ![1].blocks = @ \cup {block}]
    ELSE <<[at |-> block, blocks |-> {block}]>> \o batches

\* The group is made of the last block of the array, the first batch of the last left.
PushBatchClassBlocks(list, blocks) ==
    LET group == IF list.group = NoBlock THEN Max(blocks) ELSE list.group
        left  == blocks \ {group}
        first == IF list.batches = <<>> /\ left # {}
                 THEN <<FirstBatch(group, Max(left))>>
                 ELSE list.batches
        rest  == IF list.batches = <<>> /\ left # {} THEN left \ {Max(left)} ELSE left
    IN  [group |-> group,
         batches |-> FoldLeft(LAMBDA batches, b : AppendBlock(b, batches), first,
                              SetToSortSeq(rest, <))]

\* What a pop takes: always a whole batch, or the group when there is no batch.
FrontBlocks(list) ==
    IF list.batches = <<>> THEN {list.group} ELSE Head(list.batches).blocks

\* As if a pop could take part of a batch.
WithoutFront_Partial(list) ==
    IF Len(list.batches) > 0 /\ Cardinality(Head(list.batches).blocks) > 1
    THEN [list EXCEPT !.batches[1].blocks = @ \ {Min(@)}]
    ELSE IF Len(list.batches) <= 1 THEN EmptyList ELSE [list EXCEPT !.batches = Tail(@)]

\* With the last batch the group goes too.
WithoutFront(list) ==
    IF Len(list.batches) <= 1 THEN EmptyList ELSE [list EXCEPT !.batches = Tail(@)]

ListedBlocks(list) ==
    UNION {b.blocks : b \in ToSet(list.batches)}
        \cup (IF list.batches = <<>> /\ list.group # NoBlock THEN {list.group} ELSE {})

\* The blocks the list itself lies in.
RecordBlocks(list) == {b.at : b \in ToSet(list.batches)} \cup ({list.group} \ {NoBlock})
=============================================================================
