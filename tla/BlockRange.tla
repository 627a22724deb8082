----------------------------- MODULE BlockRange -----------------------------
(***************************************************************************)
(* Arithmetic on ranges of block numbers (core/blockrange.ts).             *)
(*                                                                         *)
(* A range [from |-> a, to |-> b] stands for the blocks a..b, both ends    *)
(* included.  The first half of the module translates the functions the    *)
(* checkpoint and the watchers call.  The second half says what those      *)
(* functions mean in terms of sets of block numbers; the watcher modules   *)
(* use the set view, and BlockRangeProofs shows that both agree.           *)
(***************************************************************************)
EXTENDS Integers, SequencesExt

\* The `null` / `undefined` of the optional block numbers in the code.
NoBlock == -1

Span(from, to) == [from |-> from, to |-> to]

-----------------------------------------------------------------------------
(* The functions of blockrange.ts.                                         *)

\* The blocks that the ranges of a sequence cover.
BlocksOf(ranges) == UNION {r.from .. r.to : r \in ToSet(ranges)}

blockRangeSize(range) == range.to - range.from + 1

blockRangeToSet(range) == range.from .. range.to

blockRangeIncludes(range, block) == block >= range.from /\ block <= range.to

\* A seeded fault: only overlapping ranges are joined, adjacent ones stay apart.
AbsorbOverlapOnly(found, range) ==
    IF found # <<>> /\ range.from <= Last(found).to
      THEN Append(Front(found),
                  Span(Last(found).from, Max({Last(found).to, range.to})))
      ELSE Append(found, range)

\* A seeded fault: the end of a range is taken for the block after its last.
AbsorbExclusiveEnd(found, range) ==
    IF found # <<>> /\ range.from - 1 <= Last(found).to
      THEN Append(Front(found),
                  Span(Last(found).from, Max({Last(found).to, range.to + 1})))
      ELSE Append(found, range)

\* One turn of the loop of compactRanges: the next range, in order of its
\* first block, extends the last range found so far if it overlaps it or
\* follows it without a gap, and starts a new one otherwise.
Absorb(found, range) ==
    IF found # <<>> /\ range.from - 1 <= Last(found).to
      THEN Append(Front(found),
                  Span(Last(found).from, Max({Last(found).to, range.to})))
      ELSE Append(found, range)

\* A list in ascending order of first blocks with one more range in its place:
\* behind all that do not begin after it.
InsertByFrom(sorted, range) ==
    InsertAt(sorted,
             Min({i \in DOMAIN sorted : sorted[i].from > range.from} \cup {Len(sorted) + 1}),
             range)

\* The stable sort of compactRanges.
sortByFrom(ranges) == FoldLeft(InsertByFrom, <<>>, ranges)

compactRanges(ranges) == FoldLeft(Absorb, <<>>, sortByFrom(ranges))

\* The loop condition of chunkedBlockRanges once k chunks have been cut.
CutsAnother(range, maxChunkSize, k) ==
    range.from + k * maxChunkSize < range.to - 2 - maxChunkSize

\* How many chunks of exactly maxChunkSize blocks the loop cuts off.
FullChunks(range, maxChunkSize, maxChunks) ==
    CHOOSE n \in 0 .. maxChunks :
        /\ n < maxChunks => ~CutsAnother(range, maxChunkSize, n)
        /\ \A k \in 0 .. n-1 : CutsAnother(range, maxChunkSize, k)

\* n chunks, the k-th starting (k-1) * step blocks into the range: `width` blocks
\* for the first `full` of them, all that is left of the range for the one after.
CutInto(range, step, width, full, n) ==
    LET start(k) == range.from + (k - 1) * step
    IN [k \in 1 .. n |-> IF k <= full THEN Span(start(k), start(k) + width - 1)
                                      ELSE Span(start(k), range.to)]

\* A seeded fault: every full chunk also holds the first block of the next one.
chunksOverlap(range, maxChunkSize, maxChunks) ==
    LET full == FullChunks(range, maxChunkSize, maxChunks)
    IN CutInto(range, maxChunkSize, maxChunkSize + 1, full,
               IF full < maxChunks THEN full + 1 ELSE full)

\* The full chunks, and after them what is left of the range as one more chunk
\* unless maxChunks chunks have been cut already.
chunkedBlockRanges(range, maxChunkSize, maxChunks) ==
    LET full == FullChunks(range, maxChunkSize, maxChunks)
    IN CutInto(range, maxChunkSize, maxChunkSize, full,
               IF full < maxChunks THEN full + 1 ELSE full)

\* A seeded fault: the gap between two ranges ends on the next range's first block.
gapsIncludeEdge(compactedRanges) ==
    [i \in 1 .. Len(compactedRanges) - 1 |->
        Span(compactedRanges[i].to + 1, compactedRanges[i+1].from)]

\* The gaps between neighbouring ranges.
InnerGaps(compactedRanges) ==
    [i \in 1 .. Len(compactedRanges) - 1 |->
        Span(compactedRanges[i].to + 1, compactedRanges[i+1].from - 1)]

\* The gaps before, between and after the completed ranges.  Only the first and
\* the last are cut at start and end: those in between are returned whole.
getInverseBlockRanges(compactedRanges, start, end) ==
    LET bounded == start # NoBlock /\ end # NoBlock
        before == IF start # NoBlock /\ start < Head(compactedRanges).from
                    THEN <<Span(start, Head(compactedRanges).from - 1)>> ELSE <<>>
        after == IF end # NoBlock /\ end > Last(compactedRanges).to
                   THEN <<Span(Last(compactedRanges).to + 1, end)>> ELSE <<>>
    IN IF bounded /\ start >= end THEN <<>>
       ELSE IF compactedRanges = <<>>
         THEN IF bounded THEN <<Span(start, end)>> ELSE <<>>
         ELSE compactRanges(before \o InnerGaps(compactedRanges) \o after)

\* The chunks cut from a range never share a block and leave none out between
\* them; they reach the end of the range unless maxChunks cut them short, and no
\* chunk holds more than three blocks above maxChunkSize (chunkedBlockRanges).
ChunksPartition(range, maxChunkSize, maxChunks) ==
    LET chunks == chunkedBlockRanges(range, maxChunkSize, maxChunks)
        n == Len(chunks)
    IN /\ n \in 1 .. maxChunks
       /\ chunks[1].from = range.from
       /\ \A k \in 1 .. n - 1 : chunks[k].to + 1 = chunks[k+1].from
       /\ \A k \in 1 .. n :
            /\ blockRangeSize(chunks[k]) \in 1 .. maxChunkSize + 3
            /\ range.from <= chunks[k].from /\ chunks[k].to <= range.to
       /\ n < maxChunks => chunks[n].to = range.to

-----------------------------------------------------------------------------
(* The same in terms of sets of blocks.                                    *)

\* The maximal runs of consecutive numbers in S, as a set of ranges.
MaximalRuns(S) ==
    {r \in [from : S, to : S] :
        /\ r.from <= r.to
        /\ r.from .. r.to \subseteq S
        /\ r.from - 1 \notin S
        /\ r.to + 1 \notin S}

\* The blocks from start on that are not done, up to end or, where that is
\* higher, up to the highest block that is done.
MissingBlocks(done, start, end) ==
    ((start .. end) \cup UNION {start .. b : b \in done}) \ done

\* What a checkpoint that has the blocks of `done` and starts at `start` still
\* has to process when `end` is the latest block; nothing if that is the first.
IncompleteRanges(done, start, end) ==
    IF start >= end THEN {} ELSE MaximalRuns(MissingBlocks(done, start, end))
=============================================================================
