----------------------------- MODULE Checkpoint -----------------------------
(***************************************************************************)
(* One checkpoint of the state file (CheckpointImpl in core/state.ts): the *)
(* sorted list of completed block ranges and the initial block number, as  *)
(* the watcher that owns it reads and changes them.                        *)
(***************************************************************************)
EXTENDS BlockRange

CONSTANT MaxBlock    \* the highest block number of an instance

ASSUME MaxBlockAssumption == MaxBlock \in Nat

VARIABLES completed,           \* the completed ranges, as a sequence
          initialBlockNumber   \* NoBlock while it is undefined

vars == <<completed, initialBlockNumber>>

Block == 0 .. MaxBlock

\* The ranges of the instance, none of them empty.
BlockSpan == {r \in [from : Block, to : Block] : r.from <= r.to}

isEmpty == completed = <<>>

isIncomplete(block) ==
    ~ \E i \in DOMAIN completed : blockRangeIncludes(completed[i], block)

getIncompleteRanges(latest) ==
    getInverseBlockRanges(completed, initialBlockNumber, latest)

-----------------------------------------------------------------------------
Init == completed = <<>> /\ initialBlockNumber = NoBlock

\* The start() of a watcher sets the initial block while nothing is complete.
setInitialBlockNumber(block) ==
    /\ isEmpty
    /\ initialBlockNumber' = block
    /\ UNCHANGED completed

\* A seeded fault: the list is rebuilt from the old ranges and the new block's
\* range replaces the last of them.
markReplacesLast(range) ==
    /\ initialBlockNumber # NoBlock
    /\ range.from >= initialBlockNumber
    /\ completed' = compactRanges(
           Append(IF isEmpty THEN <<>> ELSE Front(completed), range))
    /\ UNCHANGED initialBlockNumber

\* markComplete, and markBlockComplete for a range of one block.  A watcher
\* marks only blocks it took from getIncompleteRanges.
markComplete(range) ==
    /\ initialBlockNumber # NoBlock
    /\ range.from >= initialBlockNumber
    /\ completed' = compactRanges(Append(completed, range))
    /\ UNCHANGED initialBlockNumber

\* serialize() and, after a restart, initializeFromCheckpointContents(): the
\* ranges are written as text and compacted again when they are read.
reload ==
    /\ completed' = compactRanges(completed)
    /\ UNCHANGED initialBlockNumber

Next == \/ \E b \in Block : setInitialBlockNumber(b)
        \/ \E r \in BlockSpan : markComplete(r)
        \/ reload

Spec == Init /\ [][Next]_vars

-----------------------------------------------------------------------------
TypeOK == /\ completed \in Seq(BlockSpan)
          /\ initialBlockNumber \in Block \cup {NoBlock}

\* The completed ranges ascend and at least one block lies between any two, so
\* the file and every scan of the list stay as short as they can be
\* (compactRanges after each markComplete).
Compact ==
    \A i \in 1 .. Len(completed) - 1 :
        completed[i].to + 1 < completed[i+1].from

\* Whatever block number the node reports as its latest, getIncompleteRanges
\* returns the missing blocks and nothing else, as maximal ranges in ascending
\* order: no block is skipped for good and none is offered twice in one round.
IncompleteRangesExact ==
    initialBlockNumber # NoBlock =>
      \A latest \in Block :
        LET gaps == getIncompleteRanges(latest)
        IN /\ ToSet(gaps) = IncompleteRanges(BlocksOf(completed), initialBlockNumber, latest)
           /\ \A i \in 1 .. Len(gaps) - 1 : gaps[i].to < gaps[i+1].from

\* Every range a watcher can be given is cut into chunks that partition its front
\* part (chunkedBlockRanges of what getIncompleteRanges returns).
ChunkingSound ==
    initialBlockNumber # NoBlock =>
      \A latest \in Block, maxChunkSize \in 1 .. 3, maxChunks \in 1 .. 3 :
        \A range \in ToSet(getIncompleteRanges(latest)) :
            ChunksPartition(range, maxChunkSize, maxChunks)

\* The list of ranges behaves as a set of blocks that only grows
\* (the contract of CompletedBlocks).
Contract == INSTANCE CompletedBlocks
              WITH Blocks <- Block, start <- initialBlockNumber, done <- BlocksOf(completed)

\* Every step of the checkpoint is a step of the set of blocks it stands for.
ImplementsCompletedBlocks == Contract!Spec
=============================================================================
