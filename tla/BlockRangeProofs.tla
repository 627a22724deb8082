--------------------------- MODULE BlockRangeProofs ---------------------------
(***************************************************************************)
(* What the operators of BlockRange promise for every list of ranges and   *)
(* every chunk size: the facts about compaction, gaps and chunks that the  *)
(* proofs about the checkpoint and the watchers rest on.                   *)
(*                                                                         *)
(* A statement about all numbers up to a bound is proved by way of the     *)
(* least number for which it fails (LeastNatural, CountUp); a fold over a  *)
(* list is the sequence of its intermediate results (FoldExists and the    *)
(* two lemmas ...Steps).                                                   *)
(***************************************************************************)
EXTENDS BlockRange, WellFoundedInduction, TLAPS

IntRange == [from : Int, to : Int]

\* The smaller of two numbers is one of them and not above either.
LEMMA MinOfTwo ==
    ASSUME NEW a \in Int, NEW b \in Int
    PROVE  /\ Min({a, b}) \in {a, b}
           /\ Min({a, b}) <= a /\ Min({a, b}) <= b
  <1>1. PICK m \in {a, b} : \A y \in {a, b} : m <= y
    <2>1. CASE a <= b BY <2>1
    <2>2. CASE ~(a <= b) BY <2>2
    <2> QED BY <2>1, <2>2
  <1> QED BY <1>1 DEF Min

LEMMA MaxOfTwo ==
    ASSUME NEW a \in Int, NEW b \in Int
    PROVE  /\ Max({a, b}) \in {a, b}
           /\ Max({a, b}) >= a /\ Max({a, b}) >= b
  <1>1. PICK m \in {a, b} : \A y \in {a, b} : m >= y
    <2>1. CASE a >= b BY <2>1
    <2>2. CASE ~(a >= b) BY <2>2
    <2> QED BY <2>1, <2>2
  <1> QED BY <1>1 DEF Max

\* Chunks further into a range begin at a higher block.
LEMMA StepsAscend ==
    ASSUME NEW size \in Nat, NEW i \in Int, NEW j \in Int, i <= j
    PROVE  i * size <= j * size
  <1>1. (j - i) * size >= 0
    BY j - i \in Nat
  <1>2. (j - i) * size = j * size - i * size
    OBVIOUS
  <1> QED BY <1>1, <1>2

\* The loop of chunkedBlockRanges ends: the number of chunks it cuts is well
\* defined, and its condition holds for the turns it takes and not after them.
LEMMA FullChunksDefined ==
    ASSUME NEW range \in IntRange, NEW maxChunkSize \in Nat \ {0},
           NEW maxChunks \in Nat
    PROVE  LET full == FullChunks(range, maxChunkSize, maxChunks)
           IN /\ full \in 0 .. maxChunks
              /\ full < maxChunks => ~CutsAnother(range, maxChunkSize, full)
              /\ \A k \in 0 .. full-1 : CutsAnother(range, maxChunkSize, k)
  <1> DEFINE Cuts(k) == CutsAnother(range, maxChunkSize, k)
             width == range.to - 2 - maxChunkSize - range.from
             last == (width - 1) \div maxChunkSize
             Exact(n) == /\ n < maxChunks => ~Cuts(n)
                         /\ \A k \in 0 .. n-1 : Cuts(k)
  <1>1. width \in Int
    BY DEF IntRange
  <1>2. ASSUME NEW k \in Int
        PROVE  Cuts(k) <=> k * maxChunkSize < width
    BY DEF CutsAnother, IntRange
  <1>3. \E n \in 0 .. maxChunks : Exact(n)
    <2>1. CASE width <= 0
      <3>1. ~Cuts(0) BY <1>1, <1>2, <2>1
      <3> QED BY <3>1
    <2>2. CASE width > 0
      <3>1. /\ last \in Nat
            /\ last * maxChunkSize <= width - 1
            /\ width - 1 < (last + 1) * maxChunkSize
        BY <1>1, <2>2
      <3> HIDE DEF last, width
      <3>2. ASSUME NEW k \in Nat, k <= last
            PROVE  Cuts(k)
        <4>1. k * maxChunkSize <= last * maxChunkSize BY <3>1, <3>2, StepsAscend
        <4> QED BY <1>1, <1>2, <3>1, <4>1
      <3>3. ~Cuts(last + 1)
        BY <1>1, <1>2, <3>1
      <3>4. CASE last + 1 <= maxChunks
        <4>1. last + 1 \in 0 .. maxChunks /\ Exact(last + 1)
          BY <3>1, <3>2, <3>3, <3>4
        <4> QED BY <4>1
      <3>5. CASE maxChunks < last + 1
        <4>1. Exact(maxChunks)
          BY <3>1, <3>2, <3>5
        <4> QED BY <4>1
      <3> QED BY <3>1, <3>4, <3>5
    <2> QED BY <1>1, <2>1, <2>2
  <1> HIDE DEF Cuts
  <1>4. FullChunks(range, maxChunkSize, maxChunks) = CHOOSE n \in 0 .. maxChunks : Exact(n)
    BY DEF FullChunks, Cuts
  <1> HIDE DEF Exact
  <1>5. /\ FullChunks(range, maxChunkSize, maxChunks) \in 0 .. maxChunks
        /\ Exact(FullChunks(range, maxChunkSize, maxChunks))
    BY <1>3, <1>4
  <1> QED BY <1>5 DEF Exact, Cuts

\* What chunkedBlockRanges cuts from a range, whatever the range and the sizes:
\* a sequence of ranges that partitions the front part of the range.
THEOREM ChunksPartitionRange ==
    ASSUME NEW range \in IntRange, range.from <= range.to,
           NEW maxChunkSize \in Nat \ {0}, NEW maxChunks \in Nat \ {0}
    PROVE  /\ chunkedBlockRanges(range, maxChunkSize, maxChunks) \in Seq(IntRange)
           /\ ChunksPartition(range, maxChunkSize, maxChunks)
  <1> DEFINE full == FullChunks(range, maxChunkSize, maxChunks)
             n == IF full < maxChunks THEN full + 1 ELSE full
             chunks == chunkedBlockRanges(range, maxChunkSize, maxChunks)
             begin(k) == range.from + (k - 1) * maxChunkSize
  <1>1. /\ full \in 0 .. maxChunks
        /\ full < maxChunks => ~CutsAnother(range, maxChunkSize, full)
        /\ \A k \in 0 .. full-1 : CutsAnother(range, maxChunkSize, k)
    BY FullChunksDefined
  <1>2. chunks = [k \in 1 .. n |-> IF k <= full THEN Span(begin(k), begin(k) + maxChunkSize - 1)
                                                ELSE Span(begin(k), range.to)]
    BY DEF chunkedBlockRanges, CutInto
  <1> HIDE DEF full, chunks
  <1>3. n \in 1 .. maxChunks
    BY <1>1
  <1>4. ASSUME NEW k \in 1 .. full
        PROVE  /\ chunks[k].from = begin(k)
               /\ chunks[k].to = begin(k) + maxChunkSize - 1
               /\ begin(k) < range.to - 2 - maxChunkSize
    <2>1. k - 1 \in 0 .. full - 1 BY <1>1
    <2>2. CutsAnother(range, maxChunkSize, k - 1) BY <1>1, <2>1
    <2>3. k \in 1 .. n /\ k <= full BY <1>1
    <2>4. chunks[k] = Span(begin(k), begin(k) + maxChunkSize - 1)
      BY <1>2, <2>3
    <2> QED BY <2>2, <2>4 DEF CutsAnother, Span
  <1>5. ASSUME full < maxChunks
        PROVE  /\ chunks[full + 1].from = begin(full + 1)
               /\ chunks[full + 1].to = range.to
               /\ begin(full + 1) >= range.to - 2 - maxChunkSize
    <2>1. chunks[full + 1] = Span(begin(full + 1), range.to)
      BY <1>1, <1>2, <1>5
    <2>2. range.from + full * maxChunkSize >= range.to - 2 - maxChunkSize
      BY <1>1, <1>5 DEF CutsAnother, IntRange
    <2> QED BY <1>1, <2>1, <2>2 DEF Span
  <1>6. ASSUME NEW k \in 1 .. n
        PROVE  begin(k) \in Int
    BY <1>1 DEF IntRange
  <1>7. ASSUME NEW k \in 1 .. full
        PROVE  begin(k + 1) = begin(k) + maxChunkSize
    BY <1>1 DEF IntRange
  <1>8. Len(chunks) = n /\ DOMAIN chunks = 1 .. n
    BY <1>2, <1>3
  <1>9. chunks \in Seq(IntRange)
    <2>1. ASSUME NEW k \in 1 .. n PROVE chunks[k] \in IntRange
      BY <1>1, <1>2, <1>6 DEF Span, IntRange
    <2> HIDE DEF n
    <2>2. chunks = [k \in 1 .. n |-> chunks[k]] BY <1>2
    <2> QED BY <1>3, <2>1, <2>2
  <1>10. chunks[1].from = range.from
    <2>1. begin(1) = range.from BY DEF IntRange
    <2> QED BY <1>1, <1>4, <1>5, <2>1
  <1>11. \A k \in 1 .. n - 1 : chunks[k].to + 1 = chunks[k+1].from
    <2> SUFFICES ASSUME NEW k \in 1 .. n - 1
                 PROVE  chunks[k].to + 1 = chunks[k+1].from
      OBVIOUS
    <2>1. k \in 1 .. full BY <1>1
    <2>2. chunks[k].to + 1 = begin(k + 1)
      BY <1>1, <1>4, <1>6, <1>7, <2>1
    <2>3. chunks[k+1].from = begin(k + 1)
      BY <1>1, <1>4, <1>5, <2>1
    <2> QED BY <2>2, <2>3
  <1>12. ASSUME full < maxChunks PROVE begin(full + 1) <= range.to
    <2>1. CASE full = 0 BY <2>1 DEF IntRange
    <2>2. CASE full > 0
      <3>1. full \in 1 .. full BY <1>1, <2>2
      <3> QED BY <1>1, <1>4, <1>6, <1>7, <3>1 DEF IntRange
    <2> QED BY <1>1, <2>1, <2>2
  <1>13. \A k \in 1 .. n : blockRangeSize(chunks[k]) \in 1 .. maxChunkSize + 3
    <2> SUFFICES ASSUME NEW k \in 1 .. n
                 PROVE  chunks[k].to - chunks[k].from + 1 \in 1 .. maxChunkSize + 3
      BY DEF blockRangeSize
    <2>1. CASE k <= full
      BY <1>1, <1>4, <1>6, <2>1
    <2>2. CASE k > full
      <3>1. k = full + 1 /\ full < maxChunks BY <1>1, <2>2
      <3> QED BY <1>5, <1>6, <1>12, <3>1 DEF IntRange
    <2> QED BY <1>1, <2>1, <2>2
  <1>14. \A k \in 1 .. n : range.from <= chunks[k].from /\ chunks[k].to <= range.to
    <2> SUFFICES ASSUME NEW k \in 1 .. n
                 PROVE  range.from <= chunks[k].from /\ chunks[k].to <= range.to
      OBVIOUS
    <2>1. range.from <= begin(k)
      <3>1. 0 * maxChunkSize <= (k - 1) * maxChunkSize
        BY <1>1, StepsAscend
      <3> QED BY <1>1, <3>1 DEF IntRange
    <2>2. CASE k <= full
      BY <1>1, <1>4, <1>6, <2>1, <2>2 DEF IntRange
    <2>3. CASE k > full
      <3>1. k = full + 1 /\ full < maxChunks BY <1>1, <2>3
      <3> QED BY <1>5, <2>1, <3>1 DEF IntRange
    <2> QED BY <1>1, <2>2, <2>3
  <1>15. n < maxChunks => chunks[n].to = range.to
    BY <1>1, <1>5
  <1> HIDE DEF n, begin
  <1> QED
    BY <1>3, <1>8, <1>9, <1>10, <1>11, <1>13, <1>14, <1>15 DEF ChunksPartition, chunks

\* Every range of missing blocks ascends, and lies between the first block and
\* the higher of the latest block and the highest completed one (`last` here).
LEMMA IncompleteRangesWithin ==
    ASSUME NEW done, NEW first \in Int, NEW end \in Int, NEW last \in Int,
           end <= last, \A b \in done : b \in Int /\ b <= last,
           NEW r \in IncompleteRanges(done, first, end)
    PROVE  /\ r \in IntRange
           /\ first <= r.from /\ r.from <= r.to /\ r.to <= last
  <1>1. r \in MaximalRuns(MissingBlocks(done, first, end))
    BY DEF IncompleteRanges
  <1>2. \A b \in MissingBlocks(done, first, end) : b \in first .. last
    BY DEF MissingBlocks
  <1> QED BY <1>1, <1>2 DEF MaximalRuns, IntRange

-----------------------------------------------------------------------------
(* No missing block is left out                                            *)

\* A set of natural numbers that is not empty has a least element.
LEMMA LeastNatural ==
    ASSUME NEW T, T \subseteq Nat, T # {}
    PROVE  \E n \in T : \A m \in T : n <= m
  <1>1. PICK n \in T : \A m \in T : <<m, n>> \notin OpToRel(<, Nat)
    BY NatLessThanWellFounded, WFMin, Zenon
  <1>2. ASSUME NEW m \in T PROVE n <= m
    <2>1. m \in Nat /\ n \in Nat OBVIOUS
    <2>2. m < n => <<m, n>> \in OpToRel(<, Nat) BY <2>1 DEF OpToRel
    <2>3. ~(m < n) BY <1>1, <2>2, Zenon
    <2> QED BY <2>1, <2>3
  <1> QED BY <1>2

\* Every member of a bounded set of numbers lies in a maximal run of the set.
LEMMA InSomeRun ==
    ASSUME NEW low \in Int, NEW high \in Int, NEW S, S \subseteq low .. high, NEW x \in S
    PROVE  \E r \in MaximalRuns(S) : x \in blockRangeToSet(r)
  <1> DEFINE Above == {n \in Nat : x + n \notin S}
             Below == {n \in Nat : x - n \notin S}
  <1>1. x \in Int /\ low <= x /\ x <= high OBVIOUS
  <1>2. PICK up \in Above : \A m \in Above : up <= m
    <2>1. high + 1 - x \in Above BY <1>1
    <2>2. Above \subseteq Nat /\ Above # {} BY <2>1
    <2> HIDE DEF Above
    <2> QED BY <2>2, LeastNatural
  <1>3. PICK down \in Below : \A m \in Below : down <= m
    <2>1. x - low + 1 \in Below BY <1>1
    <2>2. Below \subseteq Nat /\ Below # {} BY <2>1
    <2> HIDE DEF Below
    <2> QED BY <2>2, LeastNatural
  <1>4. up \in Nat /\ up # 0 /\ down \in Nat /\ down # 0 BY <1>1, <1>2, <1>3
  <1> DEFINE r == [from |-> x - down + 1, to |-> x + up - 1]
  <1>5. \A y \in x - down + 1 .. x + up - 1 : y \in S
    <2> SUFFICES ASSUME NEW y \in x - down + 1 .. x + up - 1, y \notin S PROVE FALSE
      OBVIOUS
    <2>1. y \in Int /\ x - down < y /\ y < x + up BY <1>1, <1>4
    <2>2. CASE y >= x
      <3>1. y - x \in Nat /\ x + (y - x) = y BY <1>1, <2>1, <2>2
      <3>2. y - x \in Above BY <3>1
      <3> QED BY <1>1, <1>2, <1>4, <2>1, <3>2
    <2>3. CASE y < x
      <3>1. x - y \in Nat /\ x - (x - y) = y BY <1>1, <2>1, <2>3
      <3>2. x - y \in Below BY <3>1
      <3> QED BY <1>1, <1>3, <1>4, <2>1, <3>2
    <2> QED BY <1>1, <2>1, <2>2, <2>3
  <1>6. x + up \notin S /\ x - down \notin S BY <1>2, <1>3
  <1>7. r.from \in S /\ r.to \in S BY <1>1, <1>4, <1>5
  <1>8. r \in [from : S, to : S] BY <1>7
  <1>9. r.from <= r.to /\ r.from - 1 = x - down /\ r.to + 1 = x + up
    BY <1>1, <1>4
  <1>10. r.from .. r.to \subseteq S BY <1>5
  <1>11. x \in r.from .. r.to BY <1>1, <1>4
  <1> HIDE DEF r
  <1>12. r \in MaximalRuns(S) BY <1>6, <1>8, <1>9, <1>10 DEF MaximalRuns
  <1> QED BY <1>11, <1>12 DEF blockRangeToSet

\* The ranges a checkpoint offers hold every block that is missing and no other,
\* whatever was completed before and however far the latest block lags behind
\* (getIncompleteRanges).
THEOREM RangesHoldTheMissing ==
    ASSUME NEW done, NEW first \in Int, NEW end \in Int, NEW last \in Int,
           end <= last, \A b \in done : b \in Int /\ b <= last, first < end
    PROVE  UNION {blockRangeToSet(r) : r \in IncompleteRanges(done, first, end)}
             = MissingBlocks(done, first, end)
  <1> DEFINE missing == MissingBlocks(done, first, end)
  <1>1. IncompleteRanges(done, first, end) = MaximalRuns(missing)
    BY DEF IncompleteRanges
  <1>2. missing \subseteq first .. last BY DEF MissingBlocks
  <1> HIDE DEF missing
  <1>3. ASSUME NEW b \in missing
        PROVE  \E r \in MaximalRuns(missing) : b \in blockRangeToSet(r)
    BY <1>2, InSomeRun
  <1>4. \A r \in MaximalRuns(missing) : blockRangeToSet(r) \subseteq missing
    BY DEF MaximalRuns, blockRangeToSet
  <1> QED BY <1>1, <1>3, <1>4 DEF missing

-----------------------------------------------------------------------------
(* Folds                                                                   *)

\* Induction up to a bound.
LEMMA CountUp ==
    ASSUME NEW N \in Nat, NEW T, 0 \in T, \A n \in 1 .. N : n - 1 \in T => n \in T
    PROVE  \A n \in 0 .. N : n \in T
  <1> SUFFICES ASSUME NEW m \in 0 .. N, m \notin T PROVE FALSE
    OBVIOUS
  <1> DEFINE Not == {n \in 0 .. N : n \notin T}
  <1>1. PICK k \in Not : \A n \in Not : k <= n
    <2>1. Not \subseteq Nat /\ Not # {} OBVIOUS
    <2> HIDE DEF Not
    <2> QED BY <2>1, LeastNatural
  <1>2. k \in 1 .. N BY <1>1
  <1>3. k - 1 \in T BY <1>1, <1>2
  <1> QED BY <1>1, <1>2, <1>3

\* The largest of some numbers up to a bound.
LEMMA MaxOfSome ==
    ASSUME NEW N \in Nat, NEW s, s \subseteq 1 .. N, s # {}
    PROVE  Max(s) \in s /\ \A y \in s : y <= Max(s)
  <1> DEFINE Left == {n \in Nat : N - n \in s}
  <1>1. PICK k \in Left : \A n \in Left : k <= n
    <2>1. PICK x \in s : TRUE OBVIOUS
    <2>2. N - x \in Nat /\ N - (N - x) = x BY <2>1
    <2>3. N - x \in Left BY <2>1, <2>2
    <2>4. Left \subseteq Nat /\ Left # {} BY <2>3
    <2> HIDE DEF Left
    <2> QED BY <2>4, LeastNatural
  <1>2. N - k \in s BY <1>1
  <1>3. \A y \in s : N - k >= y
    <2> SUFFICES ASSUME NEW y \in s PROVE N - k >= y
      OBVIOUS
    <2>1. N - y \in Nat /\ N - (N - y) = y OBVIOUS
    <2>2. N - y \in Left BY <2>1
    <2> QED BY <1>1, <2>1, <2>2
  <1>4. \E m \in s : \A y \in s : m >= y BY <1>2, <1>3
  <1>5. Max(s) \in s /\ \A y \in s : Max(s) >= y BY <1>4 DEF Max
  <1> QED BY <1>5

LEMMA MaxOfFirst ==
    ASSUME NEW n \in Nat \ {0}
    PROVE  Max(1 .. n) = n /\ (1 .. n) \ {Max(1 .. n)} = 1 .. n - 1
  <1>1. Max(1 .. n) \in 1 .. n /\ \A y \in 1 .. n : y <= Max(1 .. n)
    <2> DEFINE s == 1 .. n
    <2>1. s \subseteq 1 .. n /\ s # {} OBVIOUS
    <2> HIDE DEF s
    <2>2. Max(s) \in s /\ \A y \in s : y <= Max(s) BY <2>1, MaxOfSome
    <2> QED BY <2>2 DEF s
  <1>2. Max(1 .. n) = n BY <1>1
  <1> QED BY <1>2

\* What a fold gathers from each set of indices, the largest index last.
Gathers(g, base, F, N) ==
    \A s \in SUBSET (1 .. N) :
        g[s] = IF s = {} THEN base ELSE F[<<g[s \ {Max(s)}], Max(s)>>]

\* The recursive function behind FoldLeft exists.
LEMMA FoldExists ==
    ASSUME NEW N \in Nat, NEW S, NEW base \in S, NEW F \in [S \X (1 .. N) -> S]
    PROVE  \E g \in [SUBSET (1 .. N) -> S] : Gathers(g, base, F, N)
  <1> DEFINE T == {n \in 0 .. N : \E g \in [SUBSET (1 .. n) -> S] : Gathers(g, base, F, n)}
  <1>1. 0 \in T
    <2> DEFINE g == [s \in SUBSET (1 .. 0) |-> base]
    <2>1. g \in [SUBSET (1 .. 0) -> S] OBVIOUS
    <2>2. \A s \in SUBSET (1 .. 0) : s = {} /\ g[s] = base OBVIOUS
    <2> HIDE DEF g
    <2>3. Gathers(g, base, F, 0) BY <2>2 DEF Gathers
    <2>4. 0 \in 0 .. N OBVIOUS
    <2> QED BY <2>1, <2>3, <2>4, Zenon
  <1>2. ASSUME NEW n \in 1 .. N, n - 1 \in T PROVE n \in T
    <2>1. PICK g \in [SUBSET (1 .. n - 1) -> S] : Gathers(g, base, F, n - 1)
      BY <1>2
    <2> DEFINE h == [s \in SUBSET (1 .. n) |->
                       IF n \in s THEN F[<<g[s \ {n}], n>>] ELSE g[s]]
    <2>2. ASSUME NEW s \in SUBSET (1 .. n), n \in s
          PROVE  /\ s \ {n} \in SUBSET (1 .. n - 1) /\ Max(s) = n
                 /\ h[s] = F[<<g[s \ {n}], n>>] /\ h[s] \in S
      <3>1. s \ {n} \in SUBSET (1 .. n - 1) BY <2>2
      <3>2. g[s \ {n}] \in S BY <2>1, <3>1
      <3>3. s \subseteq 1 .. n /\ s # {} /\ n \in Nat BY <2>2
      <3>4. Max(s) \in s /\ \A y \in s : y <= Max(s) BY <3>3, MaxOfSome
      <3>5. Max(s) = n
        <4>1. n <= Max(s) /\ Max(s) \in 1 .. n BY <2>2, <3>3, <3>4, Zenon
        <4> QED BY <4>1
      <3>6. h[s] = F[<<g[s \ {n}], n>>] BY <2>2
      <3> HIDE DEF h
      <3>7. F[<<g[s \ {n}], n>>] \in S BY <3>2
      <3> QED BY <3>1, <3>5, <3>6, <3>7
    <2>3. ASSUME NEW s \in SUBSET (1 .. n), n \notin s
          PROVE  s \in SUBSET (1 .. n - 1) /\ h[s] = g[s] /\ h[s] \in S
      <3>1. s \in SUBSET (1 .. n - 1) BY <2>3
      <3> QED BY <2>1, <2>3, <3>1
    <2>4. h \in [SUBSET (1 .. n) -> S]
      <3>1. h = [s \in SUBSET (1 .. n) |-> h[s]] OBVIOUS
      <3> HIDE DEF h
      <3>2. \A s \in SUBSET (1 .. n) : h[s] \in S BY <2>2, <2>3
      <3> QED BY <3>1, <3>2
    <2> HIDE DEF h
    <2>5. Gathers(h, base, F, n)
      <3> SUFFICES ASSUME NEW s \in SUBSET (1 .. n)
                   PROVE  h[s] = IF s = {} THEN base ELSE F[<<h[s \ {Max(s)}], Max(s)>>]
        BY DEF Gathers
      <3>1. CASE n \in s
        <4>1. s \ {n} \in SUBSET (1 .. n) /\ n \notin s \ {n} OBVIOUS
        <4>2. h[s \ {n}] = g[s \ {n}] BY <2>3, <4>1
        <4> QED BY <2>2, <3>1, <4>2
      <3>2. CASE n \notin s /\ s # {}
        <4>1. s \subseteq 1 .. n - 1 /\ n - 1 \in Nat /\ h[s] = g[s] BY <2>3, <3>2
        <4>2. Max(s) \in s BY <3>2, <4>1, MaxOfSome
        <4>3. g[s] = F[<<g[s \ {Max(s)}], Max(s)>>] BY <2>1, <3>2, <4>1 DEF Gathers
        <4>4. s \ {Max(s)} \in SUBSET (1 .. n) /\ n \notin s \ {Max(s)} BY <3>2
        <4>5. h[s \ {Max(s)}] = g[s \ {Max(s)}] BY <2>3, <4>4
        <4> QED BY <3>2, <4>1, <4>3, <4>5
      <3>3. CASE s = {}
        <4>1. h[s] = g[s] BY <2>3, <3>3
        <4>2. g[{}] = base BY <2>1 DEF Gathers
        <4> QED BY <3>3, <4>1, <4>2
      <3> QED BY <3>1, <3>2, <3>3
    <2> QED BY <2>4, <2>5
  <1> HIDE DEF T
  <1>3. N \in T BY <1>1, <1>2, CountUp
  <1> QED BY <1>3 DEF T

\* sortByFrom inserts the ranges one after the other.
LEMMA SortSteps ==
    ASSUME NEW ranges \in Seq(IntRange),
           \A s \in Seq(IntRange), r \in IntRange : InsertByFrom(s, r) \in Seq(IntRange)
    PROVE  \E f : /\ f[0] = <<>> /\ sortByFrom(ranges) = f[Len(ranges)]
                  /\ \A n \in 1 .. Len(ranges) : f[n] = InsertByFrom(f[n - 1], ranges[n])
  <1> DEFINE N == Len(ranges)
             S == Seq(IntRange)
             Fold(g) == [s \in SUBSET (1 .. N) |->
                            IF s = {} THEN <<>>
                              ELSE InsertByFrom(g[s \ {Max(s)}], ranges[Max(s)])]
             F == [x \in S \X (1 .. N) |-> InsertByFrom(x[1], ranges[x[2]])]
  <1>1. N \in Nat /\ DOMAIN ranges = 1 .. N /\ \A n \in 1 .. N : ranges[n] \in IntRange
    OBVIOUS
  <1>2. sortByFrom(ranges) = (CHOOSE g : g = Fold(g))[1 .. N]
    BY <1>1 DEF sortByFrom, FoldLeft, MapThenFoldSet
  <1> HIDE DEF N
  <1>3. \A s \in S, n \in 1 .. N :
            F[<<s, n>>] = InsertByFrom(s, ranges[n]) /\ F[<<s, n>>] \in S
    BY <1>1
  <1>4. F \in [S \X (1 .. N) -> S]
    <2>1. \A x \in S \X (1 .. N) : InsertByFrom(x[1], ranges[x[2]]) \in S
      BY <1>1
    <2> QED BY <2>1
  <1>5. <<>> \in S OBVIOUS
  <1> HIDE DEF F, S
  <1>6. PICK g \in [SUBSET (1 .. N) -> S] : Gathers(g, <<>>, F, N)
    BY <1>1, <1>4, <1>5, FoldExists
  <1>7. g = Fold(g)
    <2>1. ASSUME NEW s \in SUBSET (1 .. N), s # {}
          PROVE  g[s] = InsertByFrom(g[s \ {Max(s)}], ranges[Max(s)])
      <3>1. Max(s) \in 1 .. N BY <1>1, <2>1, MaxOfSome
      <3>2. g[s \ {Max(s)}] \in S BY <1>6
      <3>3. g[s] = F[<<g[s \ {Max(s)}], Max(s)>>] BY <1>6, <2>1 DEF Gathers
      <3> QED BY <1>3, <3>1, <3>2, <3>3
    <2>2. g[{}] = <<>> BY <1>6 DEF Gathers
    <2>3. \A s \in SUBSET (1 .. N) :
              g[s] = IF s = {} THEN <<>>
                       ELSE InsertByFrom(g[s \ {Max(s)}], ranges[Max(s)])
      BY <2>1, <2>2
    <2> QED BY <1>6, <2>3
  <1> DEFINE h == CHOOSE x : x = Fold(x)
  <1>8. h = Fold(h) BY <1>7
  <1>9. sortByFrom(ranges) = h[1 .. N] BY <1>2
  <1> HIDE DEF h
  <1>10. \A s \in SUBSET (1 .. N) :
             h[s] = IF s = {} THEN <<>>
                      ELSE InsertByFrom(h[s \ {Max(s)}], ranges[Max(s)])
    BY <1>8
  <1> HIDE DEF Fold
  <1> DEFINE f == [n \in 0 .. N |-> h[1 .. n]]
  <1>11. \A n \in 0 .. N : f[n] = h[1 .. n] /\ 1 .. n \in SUBSET (1 .. N)
    BY <1>1
  <1> HIDE DEF f
  <1>12. f[0] = <<>>
    <2>1. 0 \in 0 .. N /\ 1 .. 0 = {} BY <1>1
    <2> QED BY <1>10, <1>11, <2>1
  <1>13. f[N] = sortByFrom(ranges)
    <2>1. N \in 0 .. N BY <1>1
    <2> QED BY <1>9, <1>11, <2>1
  <1>14. ASSUME NEW n \in 1 .. N PROVE f[n] = InsertByFrom(f[n - 1], ranges[n])
    <2>1. n \in Nat \ {0} /\ n \in 0 .. N /\ n - 1 \in 0 .. N /\ n \in 1 .. n BY <1>1
    <2>2. Max(1 .. n) = n /\ (1 .. n) \ {Max(1 .. n)} = 1 .. n - 1 BY <2>1, MaxOfFirst
    <2>3. h[1 .. n] = InsertByFrom(h[(1 .. n) \ {Max(1 .. n)}], ranges[Max(1 .. n)])
      BY <1>10, <1>11, <2>1
    <2> QED BY <1>11, <2>1, <2>2, <2>3
  <1> QED BY <1>12, <1>13, <1>14 DEF N

\* compactRanges absorbs the sorted ranges one after the other.
LEMMA AbsorbSteps ==
    ASSUME NEW ranges, NEW sorted \in Seq(IntRange), sorted = sortByFrom(ranges),
           \A s \in Seq(IntRange), r \in IntRange : Absorb(s, r) \in Seq(IntRange)
    PROVE  \E f : /\ f[0] = <<>> /\ compactRanges(ranges) = f[Len(sorted)]
                  /\ \A n \in 1 .. Len(sorted) : f[n] = Absorb(f[n - 1], sorted[n])
  <1> DEFINE N == Len(sorted)
             S == Seq(IntRange)
             Fold(g) == [s \in SUBSET (1 .. N) |->
                            IF s = {} THEN <<>>
                              ELSE Absorb(g[s \ {Max(s)}], sorted[Max(s)])]
             F == [x \in S \X (1 .. N) |-> Absorb(x[1], sorted[x[2]])]
  <1>1. N \in Nat /\ DOMAIN sorted = 1 .. N /\ \A n \in 1 .. N : sorted[n] \in IntRange
    OBVIOUS
  <1>2. compactRanges(ranges) = (CHOOSE g : g = Fold(g))[1 .. N]
    BY <1>1 DEF compactRanges, FoldLeft, MapThenFoldSet
  <1> HIDE DEF N
  <1>3. \A s \in S, n \in 1 .. N :
            F[<<s, n>>] = Absorb(s, sorted[n]) /\ F[<<s, n>>] \in S
    BY <1>1
  <1>4. F \in [S \X (1 .. N) -> S]
    <2>1. \A x \in S \X (1 .. N) : Absorb(x[1], sorted[x[2]]) \in S
      BY <1>1
    <2> QED BY <2>1
  <1>5. <<>> \in S OBVIOUS
  <1> HIDE DEF F, S
  <1>6. PICK g \in [SUBSET (1 .. N) -> S] : Gathers(g, <<>>, F, N)
    BY <1>1, <1>4, <1>5, FoldExists
  <1>7. g = Fold(g)
    <2>1. ASSUME NEW s \in SUBSET (1 .. N), s # {}
          PROVE  g[s] = Absorb(g[s \ {Max(s)}], sorted[Max(s)])
      <3>1. Max(s) \in 1 .. N BY <1>1, <2>1, MaxOfSome
      <3>2. g[s \ {Max(s)}] \in S BY <1>6
      <3>3. g[s] = F[<<g[s \ {Max(s)}], Max(s)>>] BY <1>6, <2>1 DEF Gathers
      <3> QED BY <1>3, <3>1, <3>2, <3>3
    <2>2. g[{}] = <<>> BY <1>6 DEF Gathers
    <2>3. \A s \in SUBSET (1 .. N) :
              g[s] = IF s = {} THEN <<>>
                       ELSE Absorb(g[s \ {Max(s)}], sorted[Max(s)])
      BY <2>1, <2>2
    <2> QED BY <1>6, <2>3
  <1> DEFINE h == CHOOSE x : x = Fold(x)
  <1>8. h = Fold(h) BY <1>7
  <1>9. compactRanges(ranges) = h[1 .. N] BY <1>2
  <1> HIDE DEF h
  <1>10. \A s \in SUBSET (1 .. N) :
             h[s] = IF s = {} THEN <<>>
                      ELSE Absorb(h[s \ {Max(s)}], sorted[Max(s)])
    BY <1>8
  <1> HIDE DEF Fold
  <1> DEFINE f == [n \in 0 .. N |-> h[1 .. n]]
  <1>11. \A n \in 0 .. N : f[n] = h[1 .. n] /\ 1 .. n \in SUBSET (1 .. N)
    BY <1>1
  <1> HIDE DEF f
  <1>12. f[0] = <<>>
    <2>1. 0 \in 0 .. N /\ 1 .. 0 = {} BY <1>1
    <2> QED BY <1>10, <1>11, <2>1
  <1>13. f[N] = compactRanges(ranges)
    <2>1. N \in 0 .. N BY <1>1
    <2> QED BY <1>9, <1>11, <2>1
  <1>14. ASSUME NEW n \in 1 .. N PROVE f[n] = Absorb(f[n - 1], sorted[n])
    <2>1. n \in Nat \ {0} /\ n \in 0 .. N /\ n - 1 \in 0 .. N /\ n \in 1 .. n BY <1>1
    <2>2. Max(1 .. n) = n /\ (1 .. n) \ {Max(1 .. n)} = 1 .. n - 1 BY <2>1, MaxOfFirst
    <2>3. h[1 .. n] = Absorb(h[(1 .. n) \ {Max(1 .. n)}], sorted[Max(1 .. n)])
      BY <1>10, <1>11, <2>1
    <2> QED BY <1>11, <2>1, <2>2, <2>3
  <1> QED BY <1>12, <1>13, <1>14 DEF N

\* A range list is ascending when no range begins before one further up.
Ascending(s) == \A i, j \in 1 .. Len(s) : i <= j => s[i].from <= s[j].from

LEMMA InsertKeepsOrder ==
    ASSUME NEW s \in Seq(IntRange), NEW r \in IntRange
    PROVE  /\ InsertByFrom(s, r) \in Seq(IntRange)
           /\ ToSet(InsertByFrom(s, r)) = ToSet(s) \cup {r}
           /\ Ascending(s) => Ascending(InsertByFrom(s, r))
  <1> DEFINE L == Len(s)
             Later == {i \in DOMAIN s : s[i].from > r.from} \cup {L + 1}
             at == Min(Later)
             t == InsertByFrom(s, r)
             val(k) == IF k < at THEN s[k] ELSE IF k = at THEN r ELSE s[k - 1]
  <1>1. L \in Nat /\ DOMAIN s = 1 .. L /\ \A i \in 1 .. L : s[i] \in IntRange
    OBVIOUS
  <1>2. at \in Later /\ \A i \in Later : at <= i
    <2>1. Later \subseteq Nat /\ Later # {} BY <1>1
    <2> HIDE DEF Later
    <2>2. \E m \in Later : \A i \in Later : m <= i BY <2>1, LeastNatural
    <2> QED BY <2>2 DEF Min
  <1>3. at \in 1 .. L + 1 BY <1>1, <1>2
  <1>4. t = InsertAt(s, at, r) BY DEF InsertByFrom
  <1> HIDE DEF at
  <1>5. \A i \in 1 .. L : i < at => s[i].from <= r.from
    <2> SUFFICES ASSUME NEW i \in 1 .. L, i < at PROVE s[i].from <= r.from
      OBVIOUS
    <2>1. i \notin Later BY <1>2, <1>3
    <2>2. ~(s[i].from > r.from) BY <1>1, <2>1
    <2> QED BY <1>1, <2>2 DEF IntRange
  <1>6. at <= L => s[at].from > r.from BY <1>1, <1>2, <1>3
  <1> HIDE DEF Later, t
  <1>7. t \in Seq(IntRange) /\ Len(t) = L + 1 /\ \A k \in 1 .. L + 1 : t[k] = val(k)
    <2> DEFINE front == SubSeq(s, 1, at - 1)
               back == SubSeq(s, at, L)
    <2>1. front \in Seq(IntRange) /\ Len(front) = at - 1 /\ \A k \in 1 .. at - 1 : front[k] = s[k]
      BY <1>1, <1>3
    <2>2. back \in Seq(IntRange) /\ Len(back) = L + 1 - at
          /\ \A k \in 1 .. L + 1 - at : back[k] = s[at + k - 1]
      BY <1>1, <1>3
    <2>3. t = front \o <<r>> \o back BY <1>4 DEF InsertAt
    <2> HIDE DEF front, back
    <2> DEFINE mid == front \o <<r>>
    <2>4. mid \in Seq(IntRange) /\ Len(mid) = at /\ mid[at] = r
          /\ \A k \in 1 .. at - 1 : mid[k] = s[k]
      BY <1>3, <2>1
    <2>5. t = mid \o back BY <2>3
    <2> HIDE DEF mid
    <2>6. t \in Seq(IntRange) /\ Len(t) = L + 1
      <3>1. t \in Seq(IntRange) /\ Len(t) = Len(mid) + Len(back) BY <2>2, <2>4, <2>5
      <3> QED BY <1>1, <1>3, <2>2, <2>4, <3>1
    <2>7. ASSUME NEW k \in 1 .. L + 1 PROVE t[k] = val(k)
      <3>1. CASE k <= at BY <1>1, <1>3, <2>2, <2>4, <2>5, <3>1
      <3>2. CASE k > at
        <4>1. t[k] = back[k - at] BY <1>1, <1>3, <2>2, <2>4, <2>5, <3>2
        <4>2. back[k - at] = s[at + (k - at) - 1] BY <1>1, <1>3, <2>2, <3>2
        <4>3. at + (k - at) - 1 = k - 1 BY <1>3
        <4> QED BY <1>3, <3>2, <4>1, <4>2, <4>3
      <3> QED BY <1>3, <3>1, <3>2
    <2> QED BY <2>6, <2>7
  <1>8. ToSet(t) = ToSet(s) \cup {r}
    <2>1. DOMAIN t = 1 .. L + 1 BY <1>1, <1>7
    <2>2. ASSUME NEW k \in 1 .. L + 1 PROVE t[k] \in ToSet(s) \cup {r}
      <3>1. t[k] = val(k) BY <1>7
      <3>2. k < at => k \in 1 .. L BY <1>1, <1>3
      <3>3. k > at => k - 1 \in 1 .. L BY <1>1, <1>3
      <3> QED BY <1>1, <1>3, <3>1, <3>2, <3>3 DEF ToSet
    <2>3. r \in ToSet(t)
      <3>1. t[at] = r BY <1>1, <1>3, <1>7
      <3> QED BY <1>1, <1>3, <2>1, <3>1 DEF ToSet
    <2>4. ASSUME NEW i \in 1 .. L PROVE s[i] \in ToSet(t)
      <3>1. CASE i < at
        <4>1. t[i] = s[i] /\ i \in 1 .. L + 1 BY <1>1, <1>3, <1>7, <3>1
        <4> QED BY <2>1, <4>1 DEF ToSet
      <3>2. CASE i >= at
        <4>1. t[i + 1] = val(i + 1) /\ i + 1 \in 1 .. L + 1 BY <1>1, <1>7
        <4>2. i + 1 > at /\ (i + 1) - 1 = i BY <1>3, <3>2
        <4>3. t[i + 1] = s[i] BY <1>3, <4>1, <4>2
        <4> QED BY <2>1, <4>1, <4>3 DEF ToSet
      <3> QED BY <1>3, <3>1, <3>2
    <2> QED BY <1>1, <2>1, <2>2, <2>3, <2>4 DEF ToSet
  <1>9. ASSUME Ascending(s) PROVE Ascending(t)
    <2> SUFFICES ASSUME NEW i \in 1 .. L + 1, NEW j \in 1 .. L + 1, i <= j
                 PROVE  t[i].from <= t[j].from
      BY <1>7 DEF Ascending
    <2>1. t[i] = val(i) /\ t[j] = val(j) BY <1>7
    <2>2. \A k \in 1 .. L : s[k].from \in Int BY <1>1 DEF IntRange
    <2>3. r.from \in Int BY DEF IntRange
    <2>4. \A k, l \in 1 .. L : k <= l => s[k].from <= s[l].from BY <1>9 DEF Ascending
    <2>5. \A k \in 1 .. L : k >= at => r.from <= s[k].from
      <3> SUFFICES ASSUME NEW k \in 1 .. L, k >= at PROVE r.from <= s[k].from
        OBVIOUS
      <3>1. at \in 1 .. L /\ s[at].from > r.from BY <1>1, <1>3, <1>6
      <3>2. s[at].from <= s[k].from BY <2>4, <3>1
      <3> QED BY <2>2, <2>3, <3>1, <3>2
    <2>6. i < at => i \in 1 .. L BY <1>1, <1>3
    <2>7. i > at => i - 1 \in 1 .. L BY <1>1, <1>3
    <2>8. j < at => j \in 1 .. L BY <1>1, <1>3
    <2>9. j > at => j - 1 \in 1 .. L /\ j - 1 >= at BY <1>1, <1>3
    <2>10. CASE i < at /\ j < at BY <2>1, <2>4, <2>6, <2>8, <2>10
    <2>11. CASE i < at /\ j = at BY <1>3, <1>5, <2>1, <2>6, <2>11
    <2>12. CASE i < at /\ j > at
      <3>1. i <= j - 1 BY <1>3, <2>12
      <3> QED BY <1>3, <2>1, <2>4, <2>6, <2>9, <2>12, <3>1
    <2>13. CASE i = at /\ j = at BY <1>3, <2>1, <2>3, <2>13
    <2>14. CASE i = at /\ j > at BY <1>3, <2>1, <2>5, <2>9, <2>14
    <2>15. CASE i > at /\ j > at
      <3>1. i - 1 <= j - 1 BY <1>3, <2>15
      <3> QED BY <1>3, <2>1, <2>4, <2>7, <2>9, <2>15, <3>1
    <2> QED BY <1>3, <2>10, <2>11, <2>12, <2>13, <2>14, <2>15
  <1> QED BY <1>7, <1>8, <1>9 DEF t

\* The sort of compactRanges: the same ranges, in order of their first blocks.
LEMMA Sorted ==
    ASSUME NEW ranges \in Seq(IntRange)
    PROVE  /\ sortByFrom(ranges) \in Seq(IntRange)
           /\ Ascending(sortByFrom(ranges))
           /\ ToSet(sortByFrom(ranges)) = ToSet(ranges)
  <1> DEFINE N == Len(ranges)
  <1>1. PICK f : /\ f[0] = <<>> /\ sortByFrom(ranges) = f[N]
                 /\ \A n \in 1 .. N : f[n] = InsertByFrom(f[n - 1], ranges[n])
    BY InsertKeepsOrder, SortSteps
  <1> DEFINE Good(n) == /\ f[n] \in Seq(IntRange) /\ Ascending(f[n])
                        /\ ToSet(f[n]) = {ranges[i] : i \in 1 .. n}
             Done == {n \in 0 .. N : Good(n)}
  <1>2. N \in Nat /\ DOMAIN ranges = 1 .. N /\ \A n \in 1 .. N : ranges[n] \in IntRange
    OBVIOUS
  <1> HIDE DEF N
  <1>3. Good(0)
    <2>1. <<>> \in Seq(IntRange) /\ Len(<<>>) = 0 OBVIOUS
    <2>2. Ascending(<<>>) BY DEF Ascending
    <2>3. ToSet(<<>>) = {} BY DEF ToSet
    <2> QED BY <1>1, <2>1, <2>2, <2>3
  <1>4. ASSUME NEW n \in 1 .. N, Good(n - 1) PROVE Good(n)
    <2>1. f[n] = InsertByFrom(f[n - 1], ranges[n]) /\ ranges[n] \in IntRange
      BY <1>1, <1>2
    <2>2. {ranges[i] : i \in 1 .. n} = {ranges[i] : i \in 1 .. n - 1} \cup {ranges[n]}
      BY <1>2
    <2>3. /\ f[n] \in Seq(IntRange) /\ Ascending(f[n])
          /\ ToSet(f[n]) = ToSet(f[n - 1]) \cup {ranges[n]}
      BY <1>4, <2>1, InsertKeepsOrder, ZenonT(60)
    <2> QED BY <1>4, <2>2, <2>3
  <1>5. 0 \in Done BY <1>2, <1>3
  <1> HIDE DEF Good
  <1>6. \A n \in 1 .. N : n - 1 \in Done => n \in Done BY <1>2, <1>4
  <1> HIDE DEF Done
  <1>7. N \in Done BY <1>2, <1>5, <1>6, CountUp
  <1>8. Good(N) BY <1>7 DEF Done
  <1> QED BY <1>1, <1>2, <1>8 DEF ToSet, Good

-----------------------------------------------------------------------------
(* What compactRanges computes                                             *)

\* No range is empty; each begins after the end of the one before, not next to it.
Proper(s) == \A i \in 1 .. Len(s) : s[i].from <= s[i].to
Separated(s) == \A i \in 1 .. Len(s) - 1 : s[i].to + 1 < s[i+1].from

LEMMA RangesOf ==
    ASSUME NEW s \in Seq(IntRange)
    PROVE  /\ Len(s) \in Nat /\ DOMAIN s = 1 .. Len(s)
           /\ \A i \in 1 .. Len(s) : /\ s[i] \in IntRange
                                    /\ s[i].from \in Int /\ s[i].to \in Int
  <1>1. Len(s) \in Nat /\ DOMAIN s = 1 .. Len(s) OBVIOUS
  <1>2. \A i \in 1 .. Len(s) : s[i] \in IntRange OBVIOUS
  <1>3. \A r \in IntRange : r.from \in Int /\ r.to \in Int BY DEF IntRange
  <1> QED BY <1>1, <1>2, <1>3

LEMMA Covered ==
    ASSUME NEW s \in Seq(IntRange), NEW x
    PROVE  x \in BlocksOf(s) <=>
             x \in Int /\ \E i \in 1 .. Len(s) : s[i].from <= x /\ x <= s[i].to
  <1>1. DOMAIN s = 1 .. Len(s) /\ \A i \in 1 .. Len(s) : s[i].from \in Int /\ s[i].to \in Int
    BY RangesOf
  <1> QED BY <1>1, SMTT(30) DEF BlocksOf, ToSet

LEMMA AbsorbTyped ==
    ASSUME NEW found \in Seq(IntRange), NEW range \in IntRange
    PROVE  Absorb(found, range) \in Seq(IntRange)
  <1>1. CASE found # <<>> /\ range.from - 1 <= Last(found).to
    <2>1. Len(found) \in Nat /\ Len(found) >= 1 /\ found[Len(found)] \in IntRange BY <1>1
    <2>2. Last(found).to \in Int /\ Last(found).from \in Int /\ range.to \in Int
      BY <2>1 DEF Last, IntRange
    <2>3. Max({Last(found).to, range.to}) \in Int BY <2>2, MaxOfTwo
    <2>4. Span(Last(found).from, Max({Last(found).to, range.to})) \in IntRange
      BY <2>2, <2>3 DEF Span, IntRange
    <2>5. Front(found) \in Seq(IntRange) BY <2>1 DEF Front
    <2> QED BY <1>1, <2>4, <2>5 DEF Absorb
  <1> QED BY <1>1 DEF Absorb

\* A range that begins at or after all those found so far is taken up with them.
LEMMA AbsorbKeeps ==
    ASSUME NEW found \in Seq(IntRange), NEW range \in IntRange, range.from <= range.to,
           Proper(found), Separated(found),
           \A i \in 1 .. Len(found) : found[i].from <= range.from
    PROVE  LET next == Absorb(found, range)
           IN /\ Proper(next) /\ Separated(next)
              /\ \A i \in 1 .. Len(next) : next[i].from <= range.from
              /\ BlocksOf(next) = BlocksOf(found) \cup (range.from .. range.to)
  <1> DEFINE L == Len(found)
             next == Absorb(found, range)
  <1>1. L \in Nat /\ next \in Seq(IntRange) /\ range.from \in Int /\ range.to \in Int
        /\ \A i \in 1 .. L : found[i].from \in Int /\ found[i].to \in Int
    <2>1. range.from \in Int /\ range.to \in Int BY DEF IntRange
    <2> HIDE DEF next
    <2>2. next \in Seq(IntRange) BY AbsorbTyped DEF next
    <2> QED BY <2>1, <2>2, RangesOf
  <1>2. /\ \A i \in 1 .. L : found[i].from <= found[i].to
        /\ \A i \in 1 .. L - 1 : found[i].to + 1 < found[i+1].from
    BY DEF Proper, Separated
  <1>3. CASE found # <<>> /\ range.from - 1 <= Last(found).to
    <2> DEFINE end == Max({Last(found).to, range.to})
    <2>1. L >= 1 /\ L \in 1 .. L /\ Last(found) = found[L] BY <1>1, <1>3 DEF Last
    <2>2. end \in Int /\ end \in {found[L].to, range.to} /\ end >= found[L].to /\ end >= range.to
      <3>1. found[L].to \in Int /\ range.to \in Int BY <1>1, <2>1
      <3>2. end = Max({found[L].to, range.to}) BY <2>1
      <3> HIDE DEF end
      <3>3. /\ end \in {found[L].to, range.to}
            /\ end >= found[L].to /\ end >= range.to
        BY <3>1, <3>2, MaxOfTwo, Zenon
      <3> QED BY <3>1, <3>3
    <2>3. next = Append(Front(found), Span(found[L].from, end))
      BY <1>3, <2>1 DEF Absorb
    <2> HIDE DEF end, next
    <2>4. Front(found) \in Seq(IntRange) /\ Len(Front(found)) = L - 1
          /\ \A i \in 1 .. L - 1 : Front(found)[i] = found[i]
      <3>1. Front(found) = SubSeq(found, 1, L - 1) BY DEF Front
      <3>2. L - 1 \in Nat /\ L - 1 <= L BY <1>1, <2>1
      <3> DEFINE m == L - 1
      <3>3. m \in Nat /\ m <= Len(found) BY <3>2
      <3> HIDE DEF m
      <3>4. LET t == SubSeq(found, 1, m)
            IN t \in Seq(IntRange) /\ Len(t) = m /\ \A i \in 1 .. m : t[i] = found[i]
        BY <3>3
      <3> QED BY <3>1, <3>4 DEF m
    <2>5. /\ Len(next) = L /\ next[L] = Span(found[L].from, end)
          /\ \A i \in 1 .. L - 1 : next[i] = found[i]
      BY <2>1, <2>3, <2>4
    <2>6. next[L].from = found[L].from /\ next[L].to = end BY <2>5 DEF Span
    <2>7. Proper(next)
      <3> SUFFICES ASSUME NEW i \in 1 .. L PROVE next[i].from <= next[i].to
        BY <2>5 DEF Proper
      <3>1. i = L \/ i \in 1 .. L - 1 BY <1>1
      <3>2. found[L].from <= end
        <4>1. found[L].from <= found[L].to BY <1>2, <2>1
        <4> QED BY <1>1, <2>1, <2>2, <4>1
      <3> QED BY <1>2, <2>5, <2>6, <3>1, <3>2
    <2>8. Separated(next)
      <3> SUFFICES ASSUME NEW i \in 1 .. L - 1 PROVE next[i].to + 1 < next[i+1].from
        BY <2>5 DEF Separated
      <3>1. next[i].to = found[i].to BY <2>5
      <3>2. i + 1 \in 1 .. L - 1 \/ i + 1 = L BY <1>1
      <3>3. next[i+1].from = found[i+1].from BY <2>5, <2>6, <3>2
      <3> QED BY <1>2, <3>1, <3>3
    <2>9. \A i \in 1 .. Len(next) : next[i].from <= range.from
      BY <1>1, <2>1, <2>5, <2>6
    <2>10. ASSUME NEW x \in Int
           PROVE  (\E i \in 1 .. L : next[i].from <= x /\ x <= next[i].to) <=>
                    \/ \E i \in 1 .. L : found[i].from <= x /\ x <= found[i].to
                    \/ range.from <= x /\ x <= range.to
      <3>1. next[L].from <= x /\ x <= next[L].to <=>
              \/ found[L].from <= x /\ x <= found[L].to
              \/ range.from <= x /\ x <= range.to
        <4>1. found[L].from <= range.from BY <2>1
        <4>2. range.from - 1 <= found[L].to BY <1>3, <2>1
        <4>3. found[L].from \in Int /\ found[L].to \in Int BY <1>1, <2>1
        <4> QED BY <1>1, <2>2, <2>6, <4>1, <4>2, <4>3
      <3>2. \A i \in 1 .. L : i = L \/ i \in 1 .. L - 1 BY <1>1
      <3>3. \A i \in 1 .. L - 1 : i \in 1 .. L BY <1>1
      <3> QED BY <2>1, <2>5, <3>1, <3>2, <3>3
    <2>11. BlocksOf(next) = BlocksOf(found) \cup (range.from .. range.to)
      <3>1. \A x : x \in BlocksOf(next) <=> x \in BlocksOf(found) \/ x \in range.from .. range.to
        <4> SUFFICES ASSUME NEW x
                     PROVE  x \in BlocksOf(next) <=>
                              x \in BlocksOf(found) \/ x \in range.from .. range.to
          OBVIOUS
        <4>1. next \in Seq(IntRange) BY <1>1 DEF next
        <4>2. x \in BlocksOf(next) <=>
                x \in Int /\ \E i \in 1 .. L : next[i].from <= x /\ x <= next[i].to
          BY <2>5, <4>1, Covered, Zenon
        <4>3. x \in BlocksOf(found) <=>
                x \in Int /\ \E i \in 1 .. L : found[i].from <= x /\ x <= found[i].to
          BY Covered
        <4>4. x \in range.from .. range.to <=> x \in Int /\ range.from <= x /\ x <= range.to
          BY <1>1
        <4> QED BY <2>10, <4>2, <4>3, <4>4, Zenon
      <3> QED BY <3>1
    <2> QED BY <2>7, <2>8, <2>9, <2>11 DEF next
  <1>4. CASE ~(found # <<>> /\ range.from - 1 <= Last(found).to)
    <2>1. next = Append(found, range) BY <1>4 DEF Absorb
    <2> HIDE DEF next
    <2>2. /\ Len(next) = L + 1 /\ next[L + 1] = range
          /\ \A i \in 1 .. L : next[i] = found[i]
      BY <2>1
    <2>3. \A i \in 1 .. L + 1 : i = L + 1 \/ i \in 1 .. L BY <1>1
    <2>4. Proper(next) BY <1>2, <2>2, <2>3 DEF Proper
    <2>5. Separated(next)
      <3> SUFFICES ASSUME NEW i \in 1 .. L PROVE next[i].to + 1 < next[i+1].from
        BY <1>1, <2>2 DEF Separated
      <3>1. CASE i \in 1 .. L - 1
        <4>1. i + 1 \in 1 .. L BY <1>1, <3>1
        <4> QED BY <1>2, <2>2, <3>1, <4>1
      <3>2. CASE i = L
        <4>1. found # <<>> /\ Last(found) = found[L] BY <1>1, <3>2 DEF Last
        <4>2. ~(range.from - 1 <= found[L].to) BY <1>4, <4>1
        <4> QED BY <1>1, <2>2, <3>2, <4>2
      <3> QED BY <1>1, <3>1, <3>2
    <2>6. \A i \in 1 .. Len(next) : next[i].from <= range.from
      BY <1>1, <2>2, <2>3
    <2>7. BlocksOf(next) = BlocksOf(found) \cup (range.from .. range.to)
      <3>1. \A x : x \in BlocksOf(next) <=> x \in BlocksOf(found) \/ x \in range.from .. range.to
        <4>1. L + 1 \in 1 .. L + 1 /\ \A i \in 1 .. L : i \in 1 .. L + 1 BY <1>1
        <4> QED BY <1>1, <2>2, <2>3, <4>1, Covered, SMTT(30)
      <3> QED BY <3>1
    <2> QED BY <2>4, <2>5, <2>6, <2>7 DEF next
  <1> QED BY <1>3, <1>4

\* compactRanges covers the same blocks with separate ranges.
LEMMA Compacted ==
    ASSUME NEW ranges \in Seq(IntRange), Proper(ranges)
    PROVE  LET compacted == compactRanges(ranges)
           IN /\ compacted \in Seq(IntRange) /\ Proper(compacted) /\ Separated(compacted)
              /\ BlocksOf(compacted) = BlocksOf(ranges)
  <1> DEFINE sorted == sortByFrom(ranges)
             N == Len(sorted)
  <1>1. sorted \in Seq(IntRange) /\ Ascending(sorted) /\ ToSet(sorted) = ToSet(ranges)
    BY Sorted
  <1>2. PICK f : /\ f[0] = <<>> /\ compactRanges(ranges) = f[N]
                 /\ \A n \in 1 .. N : f[n] = Absorb(f[n - 1], sorted[n])
    BY <1>1, AbsorbTyped, AbsorbSteps
  <1>3. Proper(sorted)
    <2> SUFFICES ASSUME NEW i \in 1 .. N PROVE sorted[i].from <= sorted[i].to
      BY DEF Proper
    <2>1. sorted[i] \in ToSet(sorted) BY <1>1, RangesOf DEF ToSet
    <2>2. PICK k \in 1 .. Len(ranges) : ranges[k] = sorted[i] BY <1>1, <2>1, RangesOf DEF ToSet
    <2> QED BY <2>2 DEF Proper
  <1> HIDE DEF sorted
  <1>4. N \in Nat /\ \A n \in 1 .. N : sorted[n] \in IntRange /\ sorted[n].from <= sorted[n].to
    BY <1>1, <1>3 DEF Proper
  <1>5. \A i, j \in 1 .. N : i <= j => sorted[i].from <= sorted[j].from
    BY <1>1 DEF Ascending
  <1> HIDE DEF N
  <1> DEFINE Prefix(n) == {x \in Int : \E i \in 1 .. n : sorted[i].from <= x /\ x <= sorted[i].to}
             Good(n) == /\ f[n] \in Seq(IntRange) /\ Proper(f[n]) /\ Separated(f[n])
                        /\ \A i \in 1 .. Len(f[n]) : f[n][i].from <= sorted[n].from
                        /\ BlocksOf(f[n]) = Prefix(n)
             Done == {n \in 0 .. N : Good(n)}
  <1>6. Good(0)
    <2>1. <<>> \in Seq(IntRange) /\ Len(<<>>) = 0 OBVIOUS
    <2>2. Proper(<<>>) /\ Separated(<<>>) BY DEF Proper, Separated
    <2>3. BlocksOf(<<>>) = {} BY DEF BlocksOf, ToSet
    <2> QED BY <1>2, <2>1, <2>2, <2>3
  <1>7. ASSUME NEW n \in 1 .. N, Good(n - 1) PROVE Good(n)
    <2>1. f[n] = Absorb(f[n - 1], sorted[n]) /\ sorted[n] \in IntRange
          /\ sorted[n].from <= sorted[n].to
      BY <1>2, <1>4
    <2>2. \A i \in 1 .. Len(f[n - 1]) : f[n - 1][i].from <= sorted[n].from
      <3> SUFFICES ASSUME NEW i \in 1 .. Len(f[n - 1])
                   PROVE  f[n - 1][i].from <= sorted[n].from
        OBVIOUS
      <3>1. n # 1
        <4> SUFFICES ASSUME n = 1 PROVE FALSE
          OBVIOUS
        <4>1. Len(f[n - 1]) = 0 BY <1>2
        <4> QED BY <4>1
      <3>2. n - 1 \in 1 .. N /\ n - 1 <= n BY <1>4, <3>1
      <3>3. f[n - 1][i] \in IntRange BY <1>7
      <3>4. /\ f[n - 1][i].from \in Int /\ sorted[n].from \in Int
            /\ sorted[n - 1].from \in Int
        BY <1>4, <2>1, <3>2, <3>3 DEF IntRange
      <3>5. f[n - 1][i].from <= sorted[n - 1].from /\ sorted[n - 1].from <= sorted[n].from
        BY <1>5, <1>7, <3>2
      <3> QED BY <3>4, <3>5
    <2>3. f[n] \in Seq(IntRange) BY <1>7, <2>1, AbsorbTyped
    <2>4. /\ Proper(f[n]) /\ Separated(f[n])
          /\ \A i \in 1 .. Len(f[n]) : f[n][i].from <= sorted[n].from
          /\ BlocksOf(f[n]) = BlocksOf(f[n - 1]) \cup (sorted[n].from .. sorted[n].to)
      BY <1>7, <2>1, <2>2, AbsorbKeeps
    <2>5. Prefix(n) = Prefix(n - 1) \cup (sorted[n].from .. sorted[n].to)
      <3>1. \A i \in 1 .. n : i = n \/ i \in 1 .. n - 1 OBVIOUS
      <3>2. n \in 1 .. n /\ \A i \in 1 .. n - 1 : i \in 1 .. n OBVIOUS
      <3>3. sorted[n].from \in Int /\ sorted[n].to \in Int BY <2>1 DEF IntRange
      <3> QED BY <3>1, <3>2, <3>3
    <2> QED BY <1>7, <2>3, <2>4, <2>5
  <1>8. 0 \in Done BY <1>4, <1>6
  <1> HIDE DEF Good
  <1>9. \A n \in 1 .. N : n - 1 \in Done => n \in Done BY <1>4, <1>7
  <1> HIDE DEF Done
  <1>10. N \in Done
    <2>1. \A n \in 0 .. N : n \in Done BY <1>4, <1>8, <1>9, CountUp, Zenon
    <2> QED BY <1>4, <2>1
  <1>11. Good(N) BY <1>10 DEF Done
  <1>12. Prefix(N) = BlocksOf(sorted) BY <1>1, Covered DEF N
  <1>13. BlocksOf(sorted) = BlocksOf(ranges) BY <1>1 DEF BlocksOf
  <1> QED BY <1>2, <1>11, <1>12, <1>13 DEF Good

\* Separate ranges lie apart, whichever two are compared.
LEMMA FarApart ==
    ASSUME NEW s \in Seq(IntRange), Proper(s), Separated(s)
    PROVE  \A i, j \in 1 .. Len(s) : i < j => s[i].to + 1 < s[j].from
  <1> DEFINE L == Len(s)
             T == {n \in 0 .. L : \A i \in 1 .. L : i < n => s[i].to + 1 < s[n].from}
  <1>1. L \in Nat /\ \A i \in 1 .. L : s[i].from \in Int /\ s[i].to \in Int
    BY RangesOf
  <1>2. /\ \A i \in 1 .. L : s[i].from <= s[i].to
        /\ \A i \in 1 .. L - 1 : s[i].to + 1 < s[i+1].from
    BY DEF Proper, Separated
  <1> HIDE DEF L
  <1>3. 0 \in T BY <1>1
  <1>4. ASSUME NEW n \in 1 .. L, n - 1 \in T PROVE n \in T
    <2> SUFFICES ASSUME NEW i \in 1 .. L, i < n PROVE s[i].to + 1 < s[n].from
      BY <1>1
    <2>1. n - 1 \in 1 .. L - 1 /\ n - 1 \in 1 .. L /\ (n - 1) + 1 = n BY <1>1
    <2>2. s[n - 1].to + 1 < s[n].from BY <1>2, <2>1
    <2>3. CASE i = n - 1 BY <2>2, <2>3
    <2>4. CASE i < n - 1
      <3>1. s[i].to + 1 < s[n - 1].from BY <1>4, <2>4
      <3>2. s[n - 1].from <= s[n - 1].to BY <1>2, <2>1
      <3>3. /\ s[i].to \in Int /\ s[n].from \in Int
            /\ s[n - 1].from \in Int /\ s[n - 1].to \in Int
        BY <1>1, <2>1
      <3>4. \A a, b, c, d \in Int : a + 1 < b /\ b <= c /\ c + 1 < d => a + 1 < d
        OBVIOUS
      <3> QED BY <2>2, <3>1, <3>2, <3>3, <3>4, Zenon
    <2> QED BY <1>1, <2>3, <2>4
  <1> HIDE DEF T
  <1>5. \A n \in 0 .. L : n \in T BY <1>1, <1>3, <1>4, CountUp
  <1> SUFFICES ASSUME NEW i \in 1 .. L, NEW j \in 1 .. L, i < j
               PROVE  s[i].to + 1 < s[j].from
    BY DEF L
  <1>6. j \in T BY <1>1, <1>5
  <1> QED BY <1>6 DEF T

\* Separate ranges are the maximal runs of the blocks they cover.
LEMMA SeparatedAreRuns ==
    ASSUME NEW s \in Seq(IntRange), Proper(s), Separated(s)
    PROVE  ToSet(s) = MaximalRuns(BlocksOf(s))
  <1> DEFINE L == Len(s)
             S == BlocksOf(s)
  <1>1. L \in Nat /\ DOMAIN s = 1 .. L
        /\ \A i \in 1 .. L : s[i] \in IntRange /\ s[i].from \in Int /\ s[i].to \in Int
    BY RangesOf
  <1>2. \A i \in 1 .. L : s[i].from <= s[i].to BY DEF Proper
  <1>3. \A i, j \in 1 .. L : i < j => s[i].to + 1 < s[j].from BY FarApart
  <1>4. \A x : x \in S <=> x \in Int /\ \E i \in 1 .. L : s[i].from <= x /\ x <= s[i].to
    BY Covered
  <1> HIDE DEF L, S
  <1>5. ASSUME NEW i \in 1 .. L PROVE s[i] \in MaximalRuns(S)
    <2>1. s[i].from \in Int /\ s[i].to \in Int /\ s[i].from <= s[i].to BY <1>1, <1>2
    <2>2. s[i].from .. s[i].to \subseteq S BY <1>4, <2>1
    <2>3. s[i].from \in S /\ s[i].to \in S BY <2>1, <2>2
    <2>4. s[i] \in [from : S, to : S] BY <1>1, <2>3 DEF IntRange
    <2>5. ASSUME NEW j \in 1 .. L
          PROVE  /\ ~(s[j].from <= s[i].from - 1 /\ s[i].from - 1 <= s[j].to)
                 /\ ~(s[j].from <= s[i].to + 1 /\ s[i].to + 1 <= s[j].to)
      <3>1. s[j].from \in Int /\ s[j].to \in Int /\ s[j].from <= s[j].to BY <1>1, <1>2
      <3>2. \A a, b, c, d \in Int :
                a <= b /\ c <= d /\ ((a = c /\ b = d) \/ b + 1 < c \/ d + 1 < a)
                  => ~(c <= a - 1 /\ a - 1 <= d) /\ ~(c <= b + 1 /\ b + 1 <= d)
        OBVIOUS
      <3>3. CASE i = j BY <2>1, <3>2, <3>3, Zenon
      <3>4. CASE i < j
        <4>1. s[i].to + 1 < s[j].from BY <1>3, <3>4
        <4> QED BY <2>1, <3>1, <3>2, <4>1, Zenon
      <3>5. CASE j < i
        <4>1. s[j].to + 1 < s[i].from BY <1>3, <3>5
        <4> QED BY <2>1, <3>1, <3>2, <4>1, Zenon
      <3> QED BY <1>1, <3>3, <3>4, <3>5
    <2>6. s[i].from - 1 \notin S /\ s[i].to + 1 \notin S BY <1>4, <2>5
    <2> QED BY <2>1, <2>2, <2>4, <2>6 DEF MaximalRuns
  <1>6. ASSUME NEW r \in MaximalRuns(S) PROVE \E i \in 1 .. L : r = s[i]
    <2>1. /\ r \in [from : S, to : S] /\ r.from \in S /\ r.to \in S /\ r.from <= r.to
          /\ r.from .. r.to \subseteq S /\ r.from - 1 \notin S /\ r.to + 1 \notin S
      BY DEF MaximalRuns
    <2>2. r.from \in Int /\ r.to \in Int BY <1>4, <2>1
    <2>3. PICK i \in 1 .. L : s[i].from <= r.from /\ r.from <= s[i].to BY <1>4, <2>1
    <2>4. s[i].from \in Int /\ s[i].to \in Int /\ s[i] \in MaximalRuns(S) BY <1>1, <1>5
    <2>5. s[i].from .. s[i].to \subseteq S /\ s[i].to + 1 \notin S BY <2>4 DEF MaximalRuns
    <2>6. s[i].from = r.from
      <3>1. r.from - 1 \notin s[i].from .. s[i].to BY <2>1, <2>5
      <3> QED BY <2>2, <2>3, <2>4, <3>1
    <2>7. s[i].to = r.to
      <3>1. r.to + 1 \notin s[i].from .. s[i].to BY <2>1, <2>5
      <3>2. s[i].to + 1 \notin r.from .. r.to BY <2>1, <2>5
      <3> QED BY <2>1, <2>2, <2>3, <2>4, <3>1, <3>2
    <2>8. s[i] \in [from : Int, to : Int] BY <1>1 DEF IntRange
    <2>9. r = [from |-> r.from, to |-> r.to] BY <2>1
    <2>10. s[i] = [from |-> s[i].from, to |-> s[i].to] BY <2>8
    <2> QED BY <2>6, <2>7, <2>9, <2>10
  <1>7. \A x : x \in ToSet(s) <=> \E i \in 1 .. L : x = s[i] BY <1>1 DEF ToSet
  <1> QED BY <1>5, <1>6, <1>7 DEF S

\* Whatever ranges a list holds, overlapping, adjacent, repeated and in any order,
\* compactRanges returns the maximal runs of the blocks they cover, in ascending
\* order and with at least one block between any two.
THEOREM CompactRangesAreRuns ==
    ASSUME NEW ranges \in Seq(IntRange), Proper(ranges)
    PROVE  LET compacted == compactRanges(ranges)
           IN /\ ToSet(compacted) = MaximalRuns(BlocksOf(ranges))
              /\ \A i, j \in 1 .. Len(compacted) :
                   i < j => compacted[i].to + 1 < compacted[j].from
  <1> DEFINE compacted == compactRanges(ranges)
  <1>1. /\ compacted \in Seq(IntRange) /\ Proper(compacted) /\ Separated(compacted)
        /\ BlocksOf(compacted) = BlocksOf(ranges)
    BY Compacted
  <1> HIDE DEF compacted
  <1>2. ToSet(compacted) = MaximalRuns(BlocksOf(ranges)) BY <1>1, SeparatedAreRuns
  <1>3. \A i, j \in 1 .. Len(compacted) : i < j => compacted[i].to + 1 < compacted[j].from
    BY <1>1, FarApart
  <1> QED BY <1>2, <1>3 DEF compacted

-----------------------------------------------------------------------------
(* What getInverseBlockRanges offers                                       *)

LEMMA OneRange ==
    ASSUME NEW a \in Int, NEW b \in Int
    PROVE  /\ <<Span(a, b)>> \in Seq(IntRange)
           /\ BlocksOf(<<Span(a, b)>>) = a .. b
           /\ a <= b => Proper(<<Span(a, b)>>)
  <1> DEFINE r == Span(a, b)
  <1>1. r \in IntRange /\ r.from = a /\ r.to = b BY DEF Span, IntRange
  <1> HIDE DEF r
  <1>2. <<r>> \in Seq(IntRange) /\ Len(<<r>>) = 1 /\ <<r>>[1] = r BY <1>1
  <1>3. BlocksOf(<<r>>) = a .. b
    <2>1. ToSet(<<r>>) = {r} BY DEF ToSet
    <2> QED BY <1>1, <2>1 DEF BlocksOf
  <1>4. a <= b => Proper(<<r>>) BY <1>1, <1>2 DEF Proper
  <1> QED BY <1>2, <1>3, <1>4 DEF r

LEMMA NoRange ==
    <<>> \in Seq(IntRange) /\ BlocksOf(<<>>) = {} /\ Proper(<<>>) /\ Separated(<<>>)
  BY DEF BlocksOf, ToSet, Proper, Separated

LEMMA Joined ==
    ASSUME NEW s \in Seq(IntRange), NEW t \in Seq(IntRange)
    PROVE  /\ s \o t \in Seq(IntRange)
           /\ BlocksOf(s \o t) = BlocksOf(s) \cup BlocksOf(t)
           /\ Proper(s) /\ Proper(t) => Proper(s \o t)
  <1> DEFINE j == s \o t
  <1>1. /\ j \in Seq(IntRange) /\ Len(j) = Len(s) + Len(t)
        /\ Len(s) \in Nat /\ Len(t) \in Nat
        /\ \A i \in 1 .. Len(s) : j[i] = s[i]
        /\ \A i \in 1 .. Len(t) : j[Len(s) + i] = t[i]
    OBVIOUS
  <1> HIDE DEF j
  <1>2. ASSUME NEW i \in 1 .. Len(j)
        PROVE  \/ i \in 1 .. Len(s)
               \/ i - Len(s) \in 1 .. Len(t) /\ j[i] = t[i - Len(s)]
    <2>1. CASE i > Len(s)
      <3>1. i - Len(s) \in 1 .. Len(t) /\ Len(s) + (i - Len(s)) = i BY <1>1, <2>1
      <3> QED BY <1>1, <3>1
    <2> QED BY <1>1, <2>1
  <1>3. ASSUME NEW i \in 1 .. Len(t) PROVE Len(s) + i \in 1 .. Len(j)
    BY <1>1
  <1>4. \A i \in 1 .. Len(s) : i \in 1 .. Len(j) BY <1>1
  <1>5. ASSUME NEW x
        PROVE  x \in BlocksOf(j) <=> x \in BlocksOf(s) \/ x \in BlocksOf(t)
    <2>1. ASSUME x \in BlocksOf(j) PROVE x \in BlocksOf(s) \/ x \in BlocksOf(t)
      <3>1. PICK i \in 1 .. Len(j) : x \in Int /\ j[i].from <= x /\ x <= j[i].to
        BY <1>1, <2>1, Covered
      <3> QED BY <1>1, <1>2, <3>1, Covered
    <2>2. ASSUME x \in BlocksOf(s) PROVE x \in BlocksOf(j)
      <3>1. PICK i \in 1 .. Len(s) : x \in Int /\ s[i].from <= x /\ x <= s[i].to
        BY <2>2, Covered
      <3> QED BY <1>1, <1>4, <3>1, Covered
    <2>3. ASSUME x \in BlocksOf(t) PROVE x \in BlocksOf(j)
      <3>1. PICK i \in 1 .. Len(t) : x \in Int /\ t[i].from <= x /\ x <= t[i].to
        BY <2>3, Covered
      <3> QED BY <1>1, <1>3, <3>1, Covered
    <2> QED BY <2>1, <2>2, <2>3
  <1>6. Proper(s) /\ Proper(t) => Proper(j)
    BY <1>1, <1>2 DEF Proper
  <1> QED BY <1>1, <1>5, <1>6 DEF j

\* The ranges between neighbours hold the blocks between them.
LEMMA GapsOf ==
    ASSUME NEW c \in Seq(IntRange), c # <<>>, Proper(c), Separated(c)
    PROVE  /\ InnerGaps(c) \in Seq(IntRange) /\ Proper(InnerGaps(c))
           /\ BlocksOf(InnerGaps(c)) =
                {x \in Int : c[1].from <= x /\ x <= c[Len(c)].to} \ BlocksOf(c)
  <1> DEFINE L == Len(c)
             gaps == InnerGaps(c)
  <1>1. L \in Nat /\ L >= 1 /\ L - 1 \in Nat
        /\ \A i \in 1 .. L : c[i].from \in Int /\ c[i].to \in Int
    BY RangesOf
  <1>2. \A i \in 1 .. L : c[i].from <= c[i].to BY DEF Proper
  <1>3. \A i, j \in 1 .. L : i < j => c[i].to + 1 < c[j].from BY FarApart
  <1>4. gaps = [i \in 1 .. L - 1 |-> Span(c[i].to + 1, c[i+1].from - 1)]
    BY DEF InnerGaps
  <1> HIDE DEF L, gaps
  <1>5. ASSUME NEW i \in 1 .. L - 1
        PROVE  /\ i \in 1 .. L /\ i + 1 \in 1 .. L /\ i < i + 1
               /\ gaps[i].from = c[i].to + 1 /\ gaps[i].to = c[i+1].from - 1
               /\ gaps[i] \in IntRange /\ gaps[i].from <= gaps[i].to
    <2>1. i \in 1 .. L /\ i + 1 \in 1 .. L /\ i < i + 1 BY <1>1
    <2>2. c[i].to + 1 \in Int /\ c[i+1].from - 1 \in Int BY <1>1, <2>1
    <2>3. gaps[i] = Span(c[i].to + 1, c[i+1].from - 1) BY <1>4
    <2>4. c[i].to + 1 < c[i+1].from BY <1>3, <2>1
    <2>5. gaps[i].from = c[i].to + 1 /\ gaps[i].to = c[i+1].from - 1 BY <2>3 DEF Span
    <2>6. gaps[i] \in IntRange BY <2>2, <2>3 DEF Span, IntRange
    <2>7. c[i].to \in Int /\ c[i+1].from \in Int BY <1>1, <2>1
    <2>8. gaps[i].from <= gaps[i].to BY <2>4, <2>5, <2>7
    <2> QED BY <2>1, <2>5, <2>6, <2>8
  <1>6. gaps \in Seq(IntRange) /\ Len(gaps) = L - 1
    <2>1. gaps = [i \in 1 .. L - 1 |-> gaps[i]] BY <1>4
    <2>2. \A i \in 1 .. L - 1 : gaps[i] \in IntRange BY <1>5
    <2> DEFINE m == L - 1
    <2>3. m \in Nat BY <1>1
    <2> HIDE DEF m
    <2>4. gaps = [i \in 1 .. m |-> gaps[i]] => gaps \in Seq(IntRange) /\ Len(gaps) = m
      <3>1. \A i \in 1 .. m : gaps[i] \in IntRange BY <2>2 DEF m
      <3> QED BY <2>3, <3>1
    <2> QED BY <2>1, <2>4 DEF m
  <1>7. Proper(gaps) BY <1>5, <1>6 DEF Proper
  <1>8. ASSUME NEW x \in Int, NEW i \in 1 .. L - 1, gaps[i].from <= x, x <= gaps[i].to
        PROVE  c[1].from <= x /\ x <= c[L].to /\ x \notin BlocksOf(c)
    <2>1. /\ i \in 1 .. L /\ i + 1 \in 1 .. L /\ 1 \in 1 .. L /\ L \in 1 .. L
          /\ c[i].to < x /\ x < c[i+1].from
      <3>1. i \in 1 .. L /\ i + 1 \in 1 .. L /\ 1 \in 1 .. L /\ L \in 1 .. L BY <1>1
      <3>2. c[i].to \in Int /\ c[i+1].from \in Int BY <1>1, <3>1
      <3>3. gaps[i].from = c[i].to + 1 /\ gaps[i].to = c[i+1].from - 1 BY <1>5
      <3> QED BY <1>8, <3>1, <3>2, <3>3
    <2>2. \A j \in 1 .. L : c[j].from <= c[j].to /\ c[j].from \in Int /\ c[j].to \in Int
      BY <1>1, <1>2
    <2>3. c[1].from <= c[i].to
      <3>1. CASE i = 1 BY <2>1, <2>2, <3>1
      <3>2. CASE 1 < i
        <4>1. c[1].to + 1 < c[i].from BY <1>3, <2>1, <3>2
        <4> QED BY <2>1, <2>2, <4>1, SMTT(30)
      <3> QED BY <3>1, <3>2
    <2>4. c[i+1].from <= c[L].to
      <3>1. CASE i + 1 = L BY <2>1, <2>2, <3>1
      <3>2. CASE i + 1 < L
        <4>1. c[i+1].to + 1 < c[L].from BY <1>3, <2>1, <3>2
        <4>2. /\ c[i+1].from \in Int /\ c[i+1].to \in Int /\ c[i+1].from <= c[i+1].to
              /\ c[L].from \in Int /\ c[L].to \in Int /\ c[L].from <= c[L].to
          BY <2>1, <2>2
        <4>3. \A p, q, t, u \in Int : p <= q /\ q + 1 < t /\ t <= u => p <= u
          OBVIOUS
        <4> QED BY <4>1, <4>2, <4>3, Zenon
      <3> QED BY <1>1, <3>1, <3>2
    <2>5. ASSUME NEW j \in 1 .. L PROVE ~(c[j].from <= x /\ x <= c[j].to)
      <3>1. CASE j = i BY <2>1, <2>2, <3>1
      <3>2. CASE j < i
        <4>1. c[j].to + 1 < c[i].from BY <1>3, <2>1, <3>2
        <4> QED BY <2>1, <2>2, <4>1, SMTT(30)
      <3>3. CASE j = i + 1 BY <2>1, <2>2, <3>3
      <3>4. CASE i + 1 < j
        <4>1. c[i+1].to + 1 < c[j].from BY <1>3, <2>1, <3>4
        <4> QED BY <2>1, <2>2, <4>1, SMTT(30)
      <3> QED BY <1>1, <3>1, <3>2, <3>3, <3>4
    <2>6. c[1].from <= x /\ x <= c[L].to BY <2>1, <2>2, <2>3, <2>4, SMTT(30)
    <2> QED BY <2>5, <2>6, Covered DEF L
  <1>9. ASSUME NEW x \in Int, c[1].from <= x, x <= c[L].to, x \notin BlocksOf(c)
        PROVE  \E i \in 1 .. L - 1 : gaps[i].from <= x /\ x <= gaps[i].to
    <2> DEFINE Beyond == {i \in Nat : i \in 1 .. L /\ x <= c[i].to}
    <2>1. PICK k \in Beyond : \A i \in Beyond : k <= i
      <3>1. L \in Beyond BY <1>1, <1>9
      <3>2. Beyond \subseteq Nat /\ Beyond # {} BY <3>1
      <3> HIDE DEF Beyond
      <3> QED BY <3>2, LeastNatural
    <2>2. k \in 1 .. L /\ x <= c[k].to BY <2>1
    <2>3. x < c[k].from
      <3>1. ~(c[k].from <= x /\ x <= c[k].to) BY <1>9, <2>2, Covered DEF L
      <3> QED BY <1>1, <2>2, <3>1
    <2>4. k # 1 BY <1>1, <1>9, <2>3
    <2>5. k - 1 \in 1 .. L - 1 /\ k - 1 \in 1 .. L /\ (k - 1) + 1 = k BY <1>1, <2>2, <2>4
    <2>6. k - 1 \notin Beyond BY <2>1, <2>2
    <2>7. ~(x <= c[k-1].to) BY <2>5, <2>6
    <2>8. gaps[k-1].from = c[k-1].to + 1 /\ gaps[k-1].to = c[k].from - 1
      BY <1>5, <2>5
    <2>9. c[k-1].to \in Int /\ c[k].from \in Int BY <1>1, <2>2, <2>5
    <2>10. gaps[k-1].from <= x /\ x <= gaps[k-1].to BY <2>3, <2>7, <2>8, <2>9
    <2> QED BY <2>5, <2>10
  <1>10. \A x : x \in BlocksOf(gaps) <=>
                  x \in Int /\ \E i \in 1 .. L - 1 : gaps[i].from <= x /\ x <= gaps[i].to
    BY <1>6, Covered
  <1>11. \A x : x \in BlocksOf(gaps) <=>
                  x \in {y \in Int : c[1].from <= y /\ y <= c[L].to} \ BlocksOf(c)
    BY <1>8, <1>9, <1>10
  <1> QED BY <1>6, <1>7, <1>11 DEF gaps, L

\* A checkpoint with no block below its first offers exactly the missing blocks,
\* as maximal ranges in ascending order, for every list of separate completed
\* ranges and every latest block (getInverseBlockRanges).
THEOREM OfferedRangesAreIncomplete ==
    ASSUME NEW c \in Seq(IntRange), Proper(c), Separated(c),
           NEW start \in Nat, NEW end \in Nat, \A b \in BlocksOf(c) : start <= b
    PROVE  LET gaps == getInverseBlockRanges(c, start, end)
           IN /\ ToSet(gaps) = IncompleteRanges(BlocksOf(c), start, end)
              /\ gaps \in Seq(IntRange) /\ Proper(gaps) /\ Separated(gaps)
  <1> DEFINE gaps == getInverseBlockRanges(c, start, end)
             done == BlocksOf(c)
             missing == MissingBlocks(done, start, end)
  <1>1. start # NoBlock /\ end # NoBlock BY DEF NoBlock
  <1>2. ASSUME NEW list \in Seq(IntRange), Proper(list), BlocksOf(list) = missing,
               start < end, gaps = compactRanges(list)
        PROVE  /\ ToSet(gaps) = IncompleteRanges(done, start, end)
               /\ gaps \in Seq(IntRange) /\ Proper(gaps) /\ Separated(gaps)
    <2> DEFINE compacted == compactRanges(list)
    <2>1. /\ compacted \in Seq(IntRange) /\ Proper(compacted) /\ Separated(compacted)
          /\ BlocksOf(compacted) = missing
      BY <1>2, Compacted
    <2> HIDE DEF compacted
    <2>2. ToSet(compacted) = MaximalRuns(missing) BY <2>1, SeparatedAreRuns
    <2>3. IncompleteRanges(done, start, end) = MaximalRuns(missing)
      BY <1>2 DEF IncompleteRanges
    <2> QED BY <1>2, <2>1, <2>2, <2>3 DEF compacted
  <1>3. CASE start >= end
    <2>1. gaps = <<>> BY <1>1, <1>3 DEF getInverseBlockRanges
    <2>2. IncompleteRanges(done, start, end) = {} BY <1>3 DEF IncompleteRanges
    <2>3. ToSet(<<>>) = {} BY DEF ToSet
    <2> QED BY <2>1, <2>2, <2>3, NoRange
  <1>4. CASE start < end /\ c = <<>>
    <2> DEFINE one == <<Span(start, end)>>
    <2>1. gaps = one BY <1>1, <1>4 DEF getInverseBlockRanges
    <2>2. one \in Seq(IntRange) /\ BlocksOf(one) = start .. end /\ Proper(one)
      BY <1>4, OneRange
    <2>3. Separated(one) BY DEF Separated
    <2>4. missing = start .. end BY <1>4, NoRange DEF MissingBlocks
    <2> HIDE DEF one
    <2>5. ToSet(one) = MaximalRuns(missing) BY <2>2, <2>3, <2>4, SeparatedAreRuns
    <2>6. IncompleteRanges(done, start, end) = MaximalRuns(missing)
      BY <1>4 DEF IncompleteRanges
    <2> QED BY <2>1, <2>2, <2>3, <2>5, <2>6
  <1>5. CASE start < end /\ c # <<>>
    <2> DEFINE first == c[1].from
               last == c[Len(c)].to
               before == IF start < first THEN <<Span(start, first - 1)>> ELSE <<>>
               after == IF end > last THEN <<Span(last + 1, end)>> ELSE <<>>
    <2>1. gaps = compactRanges(before \o InnerGaps(c) \o after)
      BY <1>1, <1>5 DEF getInverseBlockRanges, Last
    <2>2. /\ Len(c) \in Nat /\ 1 \in 1 .. Len(c) /\ Len(c) \in 1 .. Len(c)
          /\ \A i \in 1 .. Len(c) : c[i].from \in Int /\ c[i].to \in Int
      BY <1>5, RangesOf
    <2>3. first \in Int /\ last \in Int BY <2>2
    <2>4. start <= first /\ first <= last /\ first \in done /\ last \in done
      <3>1. \A i \in 1 .. Len(c) : c[i].from <= c[i].to BY DEF Proper
      <3>2. first \in done /\ last \in done BY <2>2, <2>3, <3>1, Covered
      <3>3. first <= last
        <4>1. CASE Len(c) = 1 BY <2>2, <3>1, <4>1
        <4>2. CASE 1 < Len(c)
          <5>1. c[1].to + 1 < c[Len(c)].from BY <2>2, <4>2, FarApart
          <5>2. c[1].from <= c[1].to /\ c[Len(c)].from <= c[Len(c)].to BY <2>2, <3>1
          <5> QED BY <2>2, <5>1, <5>2
        <4>3. \A n \in Nat : 1 \in 1 .. n => n = 1 \/ 1 < n OBVIOUS
        <4>4. Len(c) = 1 \/ 1 < Len(c) BY <2>2, <4>3, Zenon
        <4> QED BY <4>1, <4>2, <4>4, Zenon
      <3> QED BY <3>2, <3>3
    <2>5. \A b \in done : b \in Int /\ first <= b /\ b <= last
      <3> SUFFICES ASSUME NEW b \in done PROVE b \in Int /\ first <= b /\ b <= last
        OBVIOUS
      <3>1. PICK i \in 1 .. Len(c) : b \in Int /\ c[i].from <= b /\ b <= c[i].to
        BY Covered
      <3>2. \A j \in 1 .. Len(c) : c[j].from <= c[j].to BY DEF Proper
      <3>3. first <= b
        <4>1. CASE i = 1 BY <3>1, <4>1
        <4>2. CASE 1 < i
          <5>1. c[1].to + 1 < c[i].from BY <2>2, <4>2, FarApart
          <5> QED BY <2>2, <3>1, <3>2, <5>1
        <4> QED BY <4>1, <4>2
      <3>4. b <= last
        <4>1. CASE i = Len(c) BY <3>1, <4>1
        <4>2. CASE i < Len(c)
          <5>1. c[i].to + 1 < c[Len(c)].from BY <2>2, <4>2, FarApart
          <5> QED BY <2>2, <3>1, <3>2, <5>1
        <4> QED BY <2>2, <4>1, <4>2
      <3> QED BY <3>1, <3>3, <3>4
    <2> HIDE DEF first, last
    <2>6. /\ before \in Seq(IntRange) /\ Proper(before)
          /\ BlocksOf(before) = start .. first - 1
      <3>1. CASE start < first
        <4>1. first - 1 \in Int /\ start <= first - 1 BY <2>3, <3>1
        <4> QED BY <3>1, <4>1, OneRange
      <3>2. CASE ~(start < first)
        <4>1. start .. first - 1 = {} BY <2>3, <3>2
        <4> QED BY <3>2, <4>1, NoRange
      <3> QED BY <3>1, <3>2
    <2>7. /\ after \in Seq(IntRange) /\ Proper(after)
          /\ BlocksOf(after) = last + 1 .. end
      <3>1. CASE end > last
        <4>1. last + 1 \in Int /\ last + 1 <= end BY <2>3, <3>1
        <4> QED BY <3>1, <4>1, OneRange
      <3>2. CASE ~(end > last)
        <4>1. last + 1 .. end = {} BY <2>3, <3>2
        <4> QED BY <3>2, <4>1, NoRange
      <3> QED BY <3>1, <3>2
    <2>8. /\ InnerGaps(c) \in Seq(IntRange) /\ Proper(InnerGaps(c))
          /\ BlocksOf(InnerGaps(c)) = {x \in Int : first <= x /\ x <= last} \ done
      BY <1>5, GapsOf DEF first, last
    <2> DEFINE some == before \o InnerGaps(c)
               list == some \o after
    <2> HIDE DEF before, after
    <2>9. /\ some \in Seq(IntRange) /\ Proper(some)
          /\ BlocksOf(some) = BlocksOf(before) \cup BlocksOf(InnerGaps(c))
      BY <2>6, <2>8, Joined
    <2>10. gaps = compactRanges(list) BY <2>1
    <2> HIDE DEF some
    <2>11. /\ list \in Seq(IntRange) /\ Proper(list)
           /\ BlocksOf(list) = BlocksOf(some) \cup BlocksOf(after)
      BY <2>7, <2>9, Joined
    <2> HIDE DEF list
    <2>12. BlocksOf(list) = missing
      <3>1. ASSUME NEW x
            PROVE  x \in missing <=>
                     x \in Int /\ start <= x /\ (x <= end \/ x <= last) /\ x \notin done
        <4>1. (\E b \in done : x \in start .. b) <=> x \in Int /\ start <= x /\ x <= last
          BY <2>3, <2>4, <2>5
        <4> QED BY <4>1 DEF MissingBlocks
      <3>2. ASSUME NEW x
            PROVE  x \in BlocksOf(list) <=>
                     \/ x \in Int /\ start <= x /\ x <= first - 1
                     \/ x \in Int /\ first <= x /\ x <= last /\ x \notin done
                     \/ x \in Int /\ last + 1 <= x /\ x <= end
        BY <2>3, <2>6, <2>7, <2>8, <2>9, <2>11
      <3>3. ASSUME NEW x
            PROVE  x \in BlocksOf(list) <=> x \in missing
        BY <2>3, <2>4, <2>5, <3>1, <3>2
      <3> QED BY <3>3
    <2> QED BY <1>2, <1>5, <2>10, <2>11, <2>12
  <1> QED BY <1>3, <1>4, <1>5
=============================================================================
