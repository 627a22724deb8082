-------------------------- MODULE CheckpointProofs --------------------------
(***************************************************************************)
(* The checkpoint for every number of blocks: its list of ranges stands    *)
(* for a growing set of blocks, stays as short as it can be, and offers    *)
(* the watcher exactly what is missing.                                    *)
(***************************************************************************)
EXTENDS Checkpoint, BlockRangeProofs

\* Nothing below the initial block is ever complete.
AboveStart ==
    completed # <<>> => /\ initialBlockNumber # NoBlock
                        /\ \A b \in BlocksOf(completed) : initialBlockNumber <= b

CheckpointInv == TypeOK /\ Compact /\ AboveStart

\* A list of ranges of the instance, as the facts about ranges see it.
LEMMA SpansAreRanges ==
    ASSUME NEW s \in Seq(BlockSpan)
    PROVE  s \in Seq(IntRange) /\ Proper(s) /\ BlocksOf(s) \subseteq Block
  <1>1. Len(s) \in Nat /\ \A i \in 1 .. Len(s) : s[i] \in BlockSpan OBVIOUS
  <1>2. \A r \in BlockSpan : r \in IntRange /\ r.from <= r.to /\ r.from \in Block /\ r.to \in Block
    BY MaxBlockAssumption DEF BlockSpan, IntRange, Block
  <1>3. s \in Seq(IntRange)
    <2>1. \A i \in 1 .. Len(s) : s[i] \in IntRange BY <1>1, <1>2
    <2>2. s = [i \in 1 .. Len(s) |-> s[i]] OBVIOUS
    <2> QED BY <1>1, <2>1, <2>2
  <1>4. Proper(s) BY <1>1, <1>2 DEF Proper
  <1>5. ASSUME NEW x \in BlocksOf(s) PROVE x \in Block
    <2>1. PICK i \in 1 .. Len(s) : x \in Int /\ s[i].from <= x /\ x <= s[i].to
      BY <1>3, <1>5, Covered
    <2>2. s[i].from \in Block /\ s[i].to \in Block BY <1>1, <1>2
    <2> QED BY <2>1, <2>2, MaxBlockAssumption DEF Block
  <1> QED BY <1>3, <1>4, <1>5

\* Ranges whose blocks are blocks of the instance are ranges of the instance.
LEMMA RangesAreSpans ==
    ASSUME NEW s \in Seq(IntRange), Proper(s), BlocksOf(s) \subseteq Block
    PROVE  s \in Seq(BlockSpan)
  <1>1. Len(s) \in Nat /\ \A i \in 1 .. Len(s) : s[i] \in IntRange BY RangesOf
  <1>2. ASSUME NEW i \in 1 .. Len(s) PROVE s[i] \in BlockSpan
    <2>1. s[i].from \in Int /\ s[i].to \in Int /\ s[i].from <= s[i].to
      BY RangesOf DEF Proper
    <2>2. s[i].from \in BlocksOf(s) /\ s[i].to \in BlocksOf(s) BY <2>1, Covered
    <2>3. s[i] = [from |-> s[i].from, to |-> s[i].to] BY <1>1 DEF IntRange
    <2> QED BY <2>1, <2>2, <2>3 DEF BlockSpan
  <1>3. s = [i \in 1 .. Len(s) |-> s[i]] OBVIOUS
  <1> QED BY <1>1, <1>2, <1>3

\* What markComplete and reload make of a list.
LEMMA CompactionOf ==
    ASSUME NEW s \in Seq(BlockSpan)
    PROVE  LET compacted == compactRanges(s)
           IN /\ compacted \in Seq(BlockSpan) /\ Separated(compacted)
              /\ BlocksOf(compacted) = BlocksOf(s)
  <1> DEFINE compacted == compactRanges(s)
  <1>1. s \in Seq(IntRange) /\ Proper(s) /\ BlocksOf(s) \subseteq Block BY SpansAreRanges
  <1>2. /\ compacted \in Seq(IntRange) /\ Proper(compacted) /\ Separated(compacted)
        /\ BlocksOf(compacted) = BlocksOf(s)
    BY <1>1, Compacted
  <1> HIDE DEF compacted
  <1>3. compacted \in Seq(BlockSpan) BY <1>1, <1>2, RangesAreSpans
  <1> QED BY <1>2, <1>3 DEF compacted

\* A marked range adds its blocks, and no other, to those that are complete.
LEMMA MarkAdds ==
    ASSUME NEW s \in Seq(BlockSpan), NEW r \in BlockSpan
    PROVE  /\ Append(s, r) \in Seq(BlockSpan)
           /\ BlocksOf(Append(s, r)) = BlocksOf(s) \cup (r.from .. r.to)
  <1>1. Append(s, r) \in Seq(BlockSpan) OBVIOUS
  <1>2. ToSet(Append(s, r)) = ToSet(s) \cup {r}
    <2> DEFINE t == Append(s, r)
    <2>1. /\ Len(t) = Len(s) + 1 /\ Len(s) \in Nat /\ t[Len(s) + 1] = r
          /\ DOMAIN t = 1 .. Len(s) + 1 /\ DOMAIN s = 1 .. Len(s)
          /\ \A i \in 1 .. Len(s) : t[i] = s[i]
      OBVIOUS
    <2> HIDE DEF t
    <2>2. \A i \in 1 .. Len(s) + 1 : i \in 1 .. Len(s) \/ i = Len(s) + 1 BY <2>1
    <2>3. Len(s) + 1 \in 1 .. Len(s) + 1 /\ \A i \in 1 .. Len(s) : i \in 1 .. Len(s) + 1
      BY <2>1
    <2> QED BY <2>1, <2>2, <2>3 DEF ToSet, t
  <1> QED BY <1>1, <1>2 DEF BlocksOf

-----------------------------------------------------------------------------
(* The invariant                                                           *)

LEMMA Initially ==
    ASSUME Init
    PROVE  CheckpointInv /\ BlocksOf(completed) = {}
  <1>1. completed = <<>> /\ initialBlockNumber = NoBlock BY DEF Init
  <1>2. BlocksOf(completed) = {} BY <1>1, NoRange
  <1>3. TypeOK BY <1>1 DEF TypeOK
  <1>4. Compact
    <2>1. Len(completed) = 0 BY <1>1
    <2> QED BY <2>1 DEF Compact
  <1>5. AboveStart BY <1>1 DEF AboveStart
  <1> QED BY <1>2, <1>3, <1>4, <1>5 DEF CheckpointInv

\* A step that compacts a list of ranges above the initial block.
LEMMA CompactingStep ==
    ASSUME CheckpointInv, NEW s \in Seq(BlockSpan), completed' = compactRanges(s),
           initialBlockNumber' = initialBlockNumber,
           s # <<>> => initialBlockNumber # NoBlock,
           \A b \in BlocksOf(s) : initialBlockNumber <= b
    PROVE  CheckpointInv' /\ BlocksOf(completed)' = BlocksOf(s)
  <1>1. /\ completed' \in Seq(BlockSpan) /\ Separated(completed')
        /\ BlocksOf(completed') = BlocksOf(s)
    BY CompactionOf
  <1>2. TypeOK' BY <1>1 DEF TypeOK, CheckpointInv
  <1>3. Compact' BY <1>1 DEF Compact, Separated
  <1>4. completed' # <<>> => s # <<>>
    <2> SUFFICES ASSUME s = <<>> PROVE completed' = <<>>
      OBVIOUS
    <2>1. BlocksOf(completed') = {} BY <1>1, NoRange
    <2>2. completed' \in Seq(IntRange) /\ Proper(completed') BY <1>1, SpansAreRanges
    <2>3. ASSUME completed' # <<>> PROVE FALSE
      <3>1. 1 \in 1 .. Len(completed') BY <2>2, <2>3
      <3>2. /\ completed'[1].from \in Int /\ completed'[1].to \in Int
            /\ completed'[1].from <= completed'[1].to
        BY <2>2, <3>1, RangesOf DEF Proper
      <3>3. completed'[1].from \in BlocksOf(completed') BY <2>2, <3>1, <3>2, Covered
      <3> QED BY <2>1, <3>3
    <2> QED BY <2>3
  <1>5. AboveStart' BY <1>1, <1>4 DEF AboveStart
  <1> QED BY <1>1, <1>2, <1>3, <1>5 DEF CheckpointInv

LEMMA MarkStep ==
    ASSUME CheckpointInv, NEW r \in BlockSpan, markComplete(r)
    PROVE  /\ CheckpointInv'
           /\ BlocksOf(completed)' = BlocksOf(completed) \cup (r.from .. r.to)
  <1> DEFINE s == Append(completed, r)
  <1>1. completed \in Seq(BlockSpan) BY DEF CheckpointInv, TypeOK
  <1>2. s \in Seq(BlockSpan) /\ BlocksOf(s) = BlocksOf(completed) \cup (r.from .. r.to)
    BY <1>1, MarkAdds
  <1>3. /\ initialBlockNumber # NoBlock /\ initialBlockNumber <= r.from
        /\ completed' = compactRanges(s) /\ initialBlockNumber' = initialBlockNumber
    <2>1. initialBlockNumber \in Int /\ r.from \in Int
      BY MaxBlockAssumption DEF CheckpointInv, TypeOK, Block, BlockSpan, NoBlock
    <2> QED BY <2>1 DEF markComplete
  <1>4. \A b \in BlocksOf(completed) : initialBlockNumber <= b
    <2>1. CASE completed = <<>> BY <2>1, NoRange
    <2> QED BY <2>1 DEF CheckpointInv, AboveStart
  <1>5. \A b \in r.from .. r.to : initialBlockNumber <= b
    <2>1. initialBlockNumber \in Int /\ r.from \in Int /\ r.to \in Int
      BY MaxBlockAssumption DEF CheckpointInv, TypeOK, Block, BlockSpan, NoBlock
    <2> QED BY <1>3, <2>1
  <1> HIDE DEF s
  <1>6. \A b \in BlocksOf(s) : initialBlockNumber <= b BY <1>2, <1>4, <1>5
  <1> QED BY <1>2, <1>3, <1>6, CompactingStep

LEMMA ReloadStep ==
    ASSUME CheckpointInv, reload
    PROVE  CheckpointInv' /\ BlocksOf(completed)' = BlocksOf(completed)
  <1>1. completed \in Seq(BlockSpan) BY DEF CheckpointInv, TypeOK
  <1>2. \A b \in BlocksOf(completed) : initialBlockNumber <= b
    <2>1. CASE completed = <<>> BY <2>1, NoRange
    <2> QED BY <2>1 DEF CheckpointInv, AboveStart
  <1>3. completed # <<>> => initialBlockNumber # NoBlock BY DEF CheckpointInv, AboveStart
  <1>4. completed' = compactRanges(completed) /\ initialBlockNumber' = initialBlockNumber
    BY DEF reload
  <1> QED BY <1>1, <1>2, <1>3, <1>4, CompactingStep

LEMMA SetInitialStep ==
    ASSUME CheckpointInv, NEW b \in Block, setInitialBlockNumber(b)
    PROVE  CheckpointInv' /\ UNCHANGED completed /\ completed = <<>>
  <1>1. completed = <<>> /\ completed' = completed /\ initialBlockNumber' = b
    BY DEF setInitialBlockNumber, isEmpty
  <1> QED BY <1>1 DEF CheckpointInv, TypeOK, Compact, AboveStart

\* The invariant of the checkpoint (CheckpointImpl): its list is typed and compact,
\* and nothing in it lies below the initial block.
THEOREM CheckpointInvariant == Spec => []CheckpointInv
  <1>1. Init => CheckpointInv BY Initially
  <1>2. CheckpointInv /\ [Next]_vars => CheckpointInv'
    <2> SUFFICES ASSUME CheckpointInv, [Next]_vars PROVE CheckpointInv'
      OBVIOUS
    <2>1. CASE \E b \in Block : setInitialBlockNumber(b) BY <2>1, SetInitialStep
    <2>2. CASE \E r \in BlockSpan : markComplete(r) BY <2>2, MarkStep
    <2>3. CASE reload BY <2>3, ReloadStep
    <2>4. CASE UNCHANGED vars
      BY <2>4 DEF vars, CheckpointInv, TypeOK, Compact, AboveStart
    <2> QED BY <2>1, <2>2, <2>3, <2>4 DEF Next
  <1> QED BY <1>1, <1>2, PTL DEF Spec

\* The list always is a list of ranges that are not empty.
THEOREM TypeCorrect == Spec => []TypeOK
  <1>1. CheckpointInv => TypeOK BY DEF CheckpointInv
  <1> QED BY <1>1, CheckpointInvariant, PTL

\* At least one block lies between any two ranges of the list, however blocks are
\* marked (compactRanges after each markComplete).
THEOREM ListStaysCompact == Spec => []Compact
  <1>1. CheckpointInv => Compact BY DEF CheckpointInv
  <1> QED BY <1>1, CheckpointInvariant, PTL

-----------------------------------------------------------------------------
(* What the watcher is offered                                             *)

\* Whatever the latest block: the missing blocks, as separate ranges.
LEMMA Offered ==
    ASSUME CheckpointInv, initialBlockNumber # NoBlock, NEW latest \in Block
    PROVE  LET gaps == getIncompleteRanges(latest)
           IN /\ ToSet(gaps) =
                   IncompleteRanges(BlocksOf(completed), initialBlockNumber, latest)
              /\ gaps \in Seq(IntRange) /\ Proper(gaps) /\ Separated(gaps)
  <1>1. completed \in Seq(IntRange) /\ Proper(completed) /\ Separated(completed)
    <2>1. completed \in Seq(BlockSpan) BY DEF CheckpointInv, TypeOK
    <2>2. Separated(completed) BY DEF CheckpointInv, Compact, Separated
    <2> QED BY <2>1, <2>2, SpansAreRanges
  <1>2. \A b \in BlocksOf(completed) : initialBlockNumber <= b
    <2>1. CASE completed = <<>> BY <2>1, NoRange
    <2> QED BY <2>1 DEF CheckpointInv, AboveStart
  <1>3. initialBlockNumber \in Nat /\ latest \in Nat
    BY MaxBlockAssumption DEF CheckpointInv, TypeOK, Block
  <1> QED BY <1>1, <1>2, <1>3, OfferedRangesAreIncomplete DEF getIncompleteRanges

\* For every latest block, the watcher is offered the missing blocks and nothing
\* else, in ascending order (getIncompleteRanges).
THEOREM OffersWhatIsMissing == Spec => []IncompleteRangesExact
  <1>1. CheckpointInv => IncompleteRangesExact
    <2> SUFFICES ASSUME CheckpointInv, initialBlockNumber # NoBlock, NEW latest \in Block
                 PROVE  LET gaps == getIncompleteRanges(latest)
                        IN /\ ToSet(gaps) = IncompleteRanges(BlocksOf(completed),
                                                             initialBlockNumber, latest)
                           /\ \A i \in 1 .. Len(gaps) - 1 : gaps[i].to < gaps[i+1].from
      BY DEF IncompleteRangesExact
    <2> DEFINE gaps == getIncompleteRanges(latest)
    <2>1. /\ ToSet(gaps) =
               IncompleteRanges(BlocksOf(completed), initialBlockNumber, latest)
          /\ gaps \in Seq(IntRange) /\ Separated(gaps)
      BY Offered
    <2> HIDE DEF gaps
    <2>2. ASSUME NEW i \in 1 .. Len(gaps) - 1 PROVE gaps[i].to < gaps[i+1].from
      <3>1. i \in 1 .. Len(gaps) /\ i + 1 \in 1 .. Len(gaps) BY <2>1, RangesOf
      <3>2. gaps[i].to \in Int /\ gaps[i+1].from \in Int BY <2>1, <3>1, RangesOf
      <3>3. gaps[i].to + 1 < gaps[i+1].from BY <2>1 DEF Separated
      <3>4. \A a, b \in Int : a + 1 < b => a < b OBVIOUS
      <3> QED BY <3>2, <3>3, <3>4, Zenon
    <2> QED BY <2>1, <2>2 DEF gaps
  <1> QED BY <1>1, CheckpointInvariant, PTL

\* Every range that is offered can be cut into chunks that partition its front
\* part (chunkedBlockRanges of what getIncompleteRanges returns).
THEOREM OfferedRangesAreChunked == Spec => []ChunkingSound
  <1>1. CheckpointInv => ChunkingSound
    <2> SUFFICES ASSUME CheckpointInv, initialBlockNumber # NoBlock, NEW latest \in Block,
                        NEW maxChunkSize \in 1 .. 3, NEW maxChunks \in 1 .. 3,
                        NEW range \in ToSet(getIncompleteRanges(latest))
                 PROVE  ChunksPartition(range, maxChunkSize, maxChunks)
      BY DEF ChunkingSound
    <2> DEFINE gaps == getIncompleteRanges(latest)
    <2>1. gaps \in Seq(IntRange) /\ Proper(gaps) BY Offered
    <2>2. range \in ToSet(gaps) OBVIOUS
    <2> HIDE DEF gaps
    <2>3. PICK i \in 1 .. Len(gaps) : range = gaps[i] BY <2>1, <2>2, RangesOf DEF ToSet
    <2>4. range \in IntRange /\ range.from <= range.to BY <2>1, <2>3, RangesOf DEF Proper
    <2>5. maxChunkSize \in Nat \ {0} /\ maxChunks \in Nat \ {0} OBVIOUS
    <2> QED BY <2>4, <2>5, ChunksPartitionRange
  <1> QED BY <1>1, CheckpointInvariant, PTL

-----------------------------------------------------------------------------
(* The set of blocks the list stands for                                   *)

\* Every step of the checkpoint is a step of a set of blocks that only grows, or
\* leaves it alone: the list implements the contract of CompletedBlocks.
THEOREM ListImplementsSet == Spec => ImplementsCompletedBlocks
  <1> DEFINE done == BlocksOf(completed)
  <1>1. Init => Contract!Init
    BY Initially DEF Init, Contract!Init, Contract!NoStart, NoBlock
  <1>2. CheckpointInv /\ [Next]_vars
          => [Contract!Next]_<<initialBlockNumber, done>>
    <2> SUFFICES ASSUME CheckpointInv, [Next]_vars
                 PROVE  Contract!Next \/ UNCHANGED <<initialBlockNumber, done>>
      OBVIOUS
    <2>1. ASSUME NEW b \in Block, setInitialBlockNumber(b) PROVE Contract!Next
      <3>1. completed = <<>> /\ completed' = completed BY <2>1, SetInitialStep
      <3>2. done = {} /\ done' = done BY <3>1, NoRange
      <3>3. initialBlockNumber' = b BY <2>1 DEF setInitialBlockNumber
      <3>4. Contract!ChooseStart(b) BY <3>2, <3>3 DEF Contract!ChooseStart
      <3> QED BY <3>4 DEF Contract!Next
    <2>2. ASSUME NEW r \in BlockSpan, markComplete(r) PROVE Contract!Next
      <3>1. done' = done \cup (r.from .. r.to) BY <2>2, MarkStep
      <3>2. /\ initialBlockNumber # NoBlock /\ r.from >= initialBlockNumber
            /\ initialBlockNumber' = initialBlockNumber
        BY <2>2 DEF markComplete
      <3>3. Contract!Complete(r.from, r.to)
        BY <3>1, <3>2 DEF Contract!Complete, Contract!NoStart, NoBlock
      <3>4. r.from \in Block /\ r.to \in Block BY DEF BlockSpan
      <3> QED BY <3>3, <3>4 DEF Contract!Next
    <2>3. CASE reload
      <3>1. done' = done BY <2>3, ReloadStep
      <3> QED BY <2>3, <3>1 DEF reload
    <2>4. CASE UNCHANGED vars BY <2>4 DEF vars
    <2> QED BY <2>1, <2>2, <2>3, <2>4 DEF Next
  <1> QED BY <1>1, <1>2, CheckpointInvariant, PTL
        DEF Spec, ImplementsCompletedBlocks, Contract!Spec
=============================================================================
