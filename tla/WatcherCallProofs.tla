------------------------- MODULE WatcherCallProofs -------------------------
(***************************************************************************)
(* Proofs about the calls of parallel() that the block watcher makes:      *)
(* each keeps its count of running tasks exact and under the limit, and a  *)
(* block is output again only after a call was given up on or the process  *)
(* ended without a save, however many calls have live chunks at a time.    *)
(***************************************************************************)
EXTENDS BlockWatcherProofs, FiniteSetTheorems

-----------------------------------------------------------------------------
(* What next() of parallel() and the end of a task do to a call            *)

\* n tasks more are started, in their order.
Started(pool, new, n) ==
    /\ n \in Nat /\ (n > 0 => active) /\ pool.started + n <= Len(pool.tasks)
    /\ new.outcome = pool.outcome /\ new.running = pool.running + n
    /\ DOMAIN new.tasks = DOMAIN pool.tasks
    /\ \A i \in DOMAIN pool.tasks :
         new.tasks[i] = IF i \in pool.started + 1 .. pool.started + n
                          THEN startAttempt(pool.tasks[i]) ELSE pool.tasks[i]

LEMMA NextTasksStarts ==
    ASSUME NEW low, NEW high, NEW pool, GoodPool(pool, low, high)
    PROVE  \E n \in Nat : Started(pool, nextTasks(pool), n)
  <1> DEFINE n == Min({Len(pool.tasks) - pool.started, maxParallelChunks - pool.running})
             tasks == [i \in DOMAIN pool.tasks |->
                        IF i \in pool.started + 1 .. pool.started + n
                          THEN startAttempt(pool.tasks[i]) ELSE pool.tasks[i]]
  <1>1. /\ pool \in PoolRecord /\ pool.started <= Len(pool.tasks)
        /\ pool.running <= maxParallelChunks
        /\ pool.started \in Nat /\ pool.running \in Int
        /\ Len(pool.tasks) \in Nat /\ DOMAIN pool.tasks = 1 .. Len(pool.tasks)
    <2>1. pool \in PoolRecord BY DEF GoodPool
    <2> QED BY <2>1, PoolRecordTypes DEF GoodPool
  <1>2. n \in Nat /\ n <= Len(pool.tasks) - pool.started
    <2> DEFINE queued == Len(pool.tasks) - pool.started
               slots == maxParallelChunks - pool.running
    <2>1. queued \in Nat /\ slots \in Nat BY <1>1, ConfigAssumption
    <2> HIDE DEF queued, slots
    <2>2. /\ Min({queued, slots}) \in {queued, slots}
          /\ Min({queued, slots}) <= queued
      BY <2>1, MinOfTwo
    <2> QED BY <2>1, <2>2 DEF queued, slots
  <1>3. CASE ~active
    <2>1. nextTasks(pool) = pool BY <1>3 DEF nextTasks
    <2>2. \A i \in DOMAIN pool.tasks : i \notin pool.started + 1 .. pool.started + 0
      BY <1>1
    <2>3. Started(pool, pool, 0) BY <1>1, <2>2 DEF Started
    <2> QED BY <2>1, <2>3
  <1>4. CASE active
    <2>1. nextTasks(pool) = [pool EXCEPT !.started = @ + n, !.running = @ + n, !.tasks = tasks]
      BY <1>1, <1>4 DEF nextTasks, PoolRecord
    <2> HIDE DEF n, tasks
    <2>2. /\ nextTasks(pool).tasks = tasks /\ nextTasks(pool).outcome = pool.outcome
          /\ nextTasks(pool).running = pool.running + n
      BY <1>1, <2>1 DEF PoolRecord
    <2>3. /\ DOMAIN tasks = DOMAIN pool.tasks
          /\ \A i \in DOMAIN pool.tasks :
               tasks[i] = IF i \in pool.started + 1 .. pool.started + n
                            THEN startAttempt(pool.tasks[i]) ELSE pool.tasks[i]
      BY DEF tasks
    <2>4. Started(pool, nextTasks(pool), n) BY <1>1, <1>2, <1>4, <2>2, <2>3 DEF Started
    <2> QED BY <1>2, <2>4
  <1> QED BY <1>3, <1>4

LEMMA StartAttemptFields ==
    ASSUME NEW t \in Task
    PROVE  /\ startAttempt(t).pc = "request" /\ startAttempt(t).chunk = t.chunk
           /\ startAttempt(t).pc \in Live
  BY DEF startAttempt, Task, Live

-----------------------------------------------------------------------------
(* The count of running tasks                                              *)

Exact(pool) == Cardinality(RunningTasks(pool)) = pool.running

LEMMA RunningFinite ==
    ASSUME NEW pool \in PoolRecord
    PROVE  IsFiniteSet(RunningTasks(pool))
  <1>1. DOMAIN pool.tasks = 1 .. Len(pool.tasks) /\ Len(pool.tasks) \in Nat
    BY PoolRecordTypes
  <1>2. IsFiniteSet(1 .. Len(pool.tasks)) BY <1>1, FS_Interval
  <1>3. RunningTasks(pool) \subseteq 1 .. Len(pool.tasks) BY <1>1 DEF RunningTasks
  <1> QED BY <1>2, <1>3, FS_Subset

LEMMA FreeExact == Exact(FreePool)
  <1>1. DOMAIN FreePool.tasks = {} BY DEF FreePool
  <1>2. RunningTasks(FreePool) = {} BY <1>1 DEF RunningTasks
  <1> QED BY <1>2, FS_EmptySet DEF Exact, FreePool

\* The tasks that are started had not been running, so the count grows by as many.
LEMMA NextTasksExact ==
    ASSUME NEW low, NEW high, NEW pool, GoodPool(pool, low, high), Exact(pool)
    PROVE  Exact(nextTasks(pool))
  <1> DEFINE new == nextTasks(pool)
  <1>1. PICK n \in Nat : Started(pool, new, n) BY NextTasksStarts
  <1> HIDE DEF new
  <1> DEFINE begun == pool.started + 1 .. pool.started + n
  <1>2. /\ pool \in PoolRecord /\ pool.started \in Nat /\ Len(pool.tasks) \in Nat
        /\ DOMAIN pool.tasks = 1 .. Len(pool.tasks) /\ pool.running \in Int
    <2>1. pool \in PoolRecord BY DEF GoodPool
    <2> QED BY <2>1, PoolRecordTypes
  <1>3. begun \subseteq DOMAIN pool.tasks BY <1>1, <1>2 DEF Started
  <1>4. \A i \in begun : pool.tasks[i] \in Task /\ pool.tasks[i].pc = "queued"
    BY <1>2, <1>3 DEF GoodPool, GoodTask
  <1>5. "queued" \notin Live BY DEF Live
  <1>6. RunningTasks(pool) \cap begun = {} BY <1>4, <1>5 DEF RunningTasks
  <1>7. RunningTasks(new) = RunningTasks(pool) \cup begun
    <2>1. \A i \in begun : new.tasks[i].pc \in Live
      BY <1>1, <1>3, <1>4, StartAttemptFields DEF Started
    <2>2. \A i \in DOMAIN pool.tasks \ begun : new.tasks[i] = pool.tasks[i]
      BY <1>1 DEF Started
    <2>3. DOMAIN new.tasks = DOMAIN pool.tasks BY <1>1 DEF Started
    <2> QED BY <1>3, <2>1, <2>2, <2>3 DEF RunningTasks
  <1>8. /\ IsFiniteSet(RunningTasks(pool)) /\ IsFiniteSet(begun)
        /\ Cardinality(begun) = n
    <2> DEFINE a == pool.started + 1
               b == pool.started + n
    <2>1. a \in Int /\ b \in Int /\ b - a + 1 = n BY <1>2
    <2>2. ASSUME NEW c \in Int, NEW d \in Int
          PROVE  IsFiniteSet(c .. d) /\ Cardinality(c .. d) = IF c > d THEN 0 ELSE d - c + 1
      BY FS_Interval
    <2> HIDE DEF a, b
    <2>3. /\ IsFiniteSet(a .. b)
          /\ Cardinality(a .. b) = IF a > b THEN 0 ELSE b - a + 1
      BY <2>1, <2>2
    <2>4. Cardinality(a .. b) = n BY <2>1, <2>3
    <2> QED BY <1>2, <2>3, <2>4, RunningFinite DEF a, b
  <1>9. Cardinality(RunningTasks(new)) = Cardinality(RunningTasks(pool)) + n
    <2> DEFINE R == RunningTasks(pool)
               B == begun
    <2>1. IsFiniteSet(R) /\ IsFiniteSet(B) /\ R \cap B = {} BY <1>6, <1>8
    <2>2. Cardinality(B) = n BY <1>8
    <2>3. RunningTasks(new) = R \cup B BY <1>7
    <2> HIDE DEF R, B
    <2>4. Cardinality(R \cup B) = Cardinality(R) + Cardinality(B) - Cardinality(R \cap B)
      BY <2>1, FS_Union
    <2>5. Cardinality(R \cap B) = 0 BY <2>1, FS_EmptySet
    <2>6. Cardinality(R) \in Nat BY <2>1, FS_CardinalityType
    <2>7. Cardinality(RunningTasks(new)) = Cardinality(R) + n BY <2>2, <2>3, <2>4, <2>5, <2>6
    <2> QED BY <2>7 DEF R
  <1>10. Exact(new) BY <1>1, <1>9 DEF Exact, Started
  <1> QED BY <1>10 DEF new

\* A running task that ends leaves one less.
LEMMA EndedExact ==
    ASSUME NEW pool \in PoolRecord, Exact(pool), NEW i \in DOMAIN pool.tasks,
           pool.tasks[i].pc \in Live, pool.tasks[i] \in Task, NEW result \in {"ok", "err"}
    PROVE  Exact(endTask(pool, i, result))
  <1> DEFINE new == endTask(pool, i, result)
             t == [pool.tasks[i] EXCEPT !.pc = result, !.blocks = {}]
  <1>1. /\ new.tasks = [pool.tasks EXCEPT ![i] = t] /\ new.running = pool.running - 1
    <2>1. new = [tasks |-> [pool.tasks EXCEPT ![i] = t], started |-> pool.started,
                 running |-> pool.running - 1, outcome |-> outcomeAfter(pool, i, result)]
      BY TaskOfCallEnded, Zenon
    <2> HIDE DEF new, t
    <2> QED BY <2>1
  <1>2. t.pc = result BY TaskFields
  <1>3. result \notin Live BY DEF Live
  <1> HIDE DEF new, t
  <1>4. /\ DOMAIN new.tasks = DOMAIN pool.tasks /\ new.tasks[i] = t
        /\ \A j \in DOMAIN pool.tasks \ {i} : new.tasks[j] = pool.tasks[j]
    BY <1>1
  <1>5. RunningTasks(new) = RunningTasks(pool) \ {i} /\ i \in RunningTasks(pool)
    BY <1>2, <1>3, <1>4 DEF RunningTasks
  <1>6. Cardinality(RunningTasks(new)) = Cardinality(RunningTasks(pool)) - 1
    BY <1>5, RunningFinite, FS_RemoveElement
  <1>7. Exact(new) BY <1>1, <1>6 DEF Exact
  <1> QED BY <1>7 DEF new

\* A running task that goes on, and a promise that settles, change nothing.
LEMMA SameRunning ==
    ASSUME NEW pool, NEW new, Exact(pool), new.running = pool.running,
           DOMAIN new.tasks = DOMAIN pool.tasks,
           \A i \in DOMAIN pool.tasks :
             new.tasks[i].pc \in Live <=> pool.tasks[i].pc \in Live
    PROVE  Exact(new)
  <1>1. RunningTasks(new) = RunningTasks(pool) BY DEF RunningTasks
  <1> QED BY <1>1 DEF Exact

LEMMA NewPoolExact ==
    ASSUME NEW range \in BlockSpan
    PROVE  Exact(newPool(range))
  <1> DEFINE base == CallOver(range)
             chunks == chunkedBlockRanges(range, blocksMaxChunkSize, chunkQueueMaxSize)
  <1>1. range.from \in Int /\ range.to \in Int BY DEF BlockSpan, Block
  <1>2. /\ GoodPool(base, range.from, range.to) /\ base.running = 0
        /\ DOMAIN base.tasks = 1 .. Len(chunks)
        /\ \A i \in 1 .. Len(chunks) : base.tasks[i] = QueuedTask(chunks[i])
    BY <1>1, CallOverGood
  <1> HIDE DEF base, chunks
  <1>3. \A i \in DOMAIN base.tasks : base.tasks[i].pc = "queued"
    <2>1. ASSUME NEW chunk PROVE QueuedTask(chunk).pc = "queued"
      BY DEF QueuedTask
    <2> QED BY <1>2, <2>1, Zenon
  <1>4. "queued" \notin Live BY DEF Live
  <1>5. RunningTasks(base) = {} BY <1>3, <1>4 DEF RunningTasks
  <1>6. Exact(base) BY <1>2, <1>5, FS_EmptySet DEF Exact
  <1>7. newPool(range) = nextTasks(base) BY DEF newPool, CallOver, base
  <1> QED BY <1>2, <1>6, <1>7, NextTasksExact

ExactIn(ps) == \A p \in Pool : Exact(ps[p])

LEMMA UpdateExact ==
    ASSUME PoolsInv, ExactIn(pools), NEW p \in Pool, NEW i \in DOMAIN pools[p].tasks,
           pools[p].tasks[i].pc \in Live, NEW t, t.pc \in Live, update(p, i, t)
    PROVE  ExactIn(pools')
  <1> DEFINE pool == pools[p]
             new == [tasks |-> [pool.tasks EXCEPT ![i] = t], started |-> pool.started,
                     running |-> pool.running, outcome |-> pool.outcome]
  <1>1. pool \in PoolRecord /\ pools \in [Pool -> PoolRecord]
    BY DEF PoolsInv, GoodPools
  <1>2. pools' = [pools EXCEPT ![p] = new]
    <2>1. [pool EXCEPT !.tasks[i] = t] = new BY <1>1, TaskOfCallChanged
    <2> QED BY <2>1 DEF update
  <1>3. Exact(new)
    <2>1. Exact(pool) BY DEF ExactIn
    <2>2. /\ new.running = pool.running /\ DOMAIN new.tasks = DOMAIN pool.tasks
          /\ \A j \in DOMAIN pool.tasks :
               new.tasks[j].pc \in Live <=> pool.tasks[j].pc \in Live
      OBVIOUS
    <2> HIDE DEF new, pool
    <2> QED BY <2>1, <2>2, SameRunning
  <1> HIDE DEF new
  <1> QED BY <1>1, <1>2, <1>3 DEF ExactIn

LEMMA SettleExact ==
    ASSUME PoolsInv, ExactIn(pools), NEW p \in Pool, NEW i \in DOMAIN pools[p].tasks,
           pools[p].tasks[i].pc \in Live, NEW result \in {"ok", "err"},
           settle(p, i, result)
    PROVE  ExactIn(pools')
  <1> DEFINE ended == endTask(pools[p], i, result)
  <1>1. /\ GoodPool(pools[p], initial, head) /\ pools[p] \in PoolRecord
        /\ pools \in [Pool -> PoolRecord] /\ Exact(pools[p])
    BY DEF PoolsInv, GoodPools, ExactIn
  <1>2. pools[p].tasks[i] \in Task BY <1>1 DEF GoodPool, GoodTask
  <1>3. GoodPool(ended, initial, head) BY <1>1, EndedGood
  <1>4. Exact(ended) BY <1>1, <1>2, EndedExact
  <1>5. pools' = [pools EXCEPT ![p] =
           IF nextTasks(ended).outcome = "given up" /\ nextTasks(ended).running = 0
             THEN FreePool ELSE nextTasks(ended)]
    BY DEF settle
  <1> HIDE DEF ended
  <1>6. Exact(nextTasks(ended)) BY <1>3, <1>4, NextTasksExact
  <1> QED BY <1>1, <1>5, <1>6, FreeExact DEF ExactIn

LEMMA EnterRangeExact ==
    ASSUME NEW ranges, ranges \subseteq BlockSpan, NEW ps, ps \in [Pool -> PoolRecord],
           ExactIn(ps), EnterRange(ranges, ps)
    PROVE  ExactIn(pools')
  <1>1. CASE pools' = ps BY <1>1
  <1>2. CASE \E r \in ranges, p \in Pool : pools' = [ps EXCEPT ![p] = newPool(r)]
    <2>1. PICK r \in ranges, p \in Pool : pools' = [ps EXCEPT ![p] = newPool(r)] BY <1>2
    <2>2. Exact(newPool(r)) BY NewPoolExact
    <2> QED BY <2>1, <2>2 DEF ExactIn
  <1> QED BY <1>1, <1>2 DEF EnterRange

\* The ranges of a round are spans of blocks, whatever the latest block.
LEMMA RangesAreSpans ==
    ASSUME SafetyInv, initial \in Nat, NEW end \in Int, end <= head
    PROVE  /\ IncompleteRanges(completed, initial, end) \subseteq BlockSpan
           /\ \A r \in IncompleteRanges(completed, initial, end) :
                initial <= r.from /\ r.to <= head
  <1>1. /\ initial \in Int /\ head \in Int /\ head <= MaxBlock
        /\ \A b \in completed : b \in Int /\ b <= head
    BY BoundAssumption DEF SafetyInv, TypeOK, SavedCheckpoint, StoreInv, Block
  <1>2. \A r \in IncompleteRanges(completed, initial, end) :
          /\ r \in IntRange /\ initial <= r.from /\ r.from <= r.to /\ r.to <= head
    BY <1>1, IncompleteRangesWithin
  <1> QED BY <1>1, <1>2, BoundAssumption DEF IntRange, BlockSpan, Block

\* Every step of the watcher keeps the counts.
LEMMA ChunkStepExact ==
    ASSUME SafetyInv, ExactIn(pools), NEW p \in Pool, NEW i \in DOMAIN pools[p].tasks,
           ChunkStep(p, i)
    PROVE  ExactIn(pools')
  <1> DEFINE t == pools[p].tasks[i]
  <1>1. PoolsInv /\ t \in Task
    BY DEF SafetyInv, PoolsInv, GoodPools, GoodPool, GoodTask
  <1>2. /\ "request" \in Live /\ "block" \in Live /\ "txs" \in Live
        /\ "resume" \in Live /\ "wait" \in Live
    BY DEF Live
  <1>3. t.pc \in Live
    BY <1>2 DEF ChunkStep, ReceiveBlocks, StartBlock, ReceiveTransactions, FinishBlock,
                FinishChunk, FailAttempt, RetryChunk, AbortChunk
  <1>4. \/ \E u : u.pc \in Live /\ update(p, i, u)
        \/ \E result \in {"ok", "err"} : settle(p, i, result)
    <2>1. CASE ReceiveBlocks(p, i)
      <3>1. [t EXCEPT !.pc = "block"].pc \in Live BY <1>1, <1>2 DEF Task
      <3> QED BY <2>1, <3>1 DEF ReceiveBlocks
    <2>2. CASE StartBlock(p, i)
      <3>1. PICK b \in Block : \/ update(p, i, [t EXCEPT !.blocks = @ \ {b}])
                              \/ update(p, i, [t EXCEPT !.pc = "txs"])
        BY <2>2 DEF StartBlock
      <3>2. [t EXCEPT !.blocks = @ \ {b}].pc \in Live BY <1>1, <1>3 DEF Task
      <3>3. [t EXCEPT !.pc = "txs"].pc \in Live BY <1>1, <1>2 DEF Task
      <3> QED BY <3>1, <3>2, <3>3
    <2>3. CASE ReceiveTransactions(p, i)
      <3>1. [t EXCEPT !.pc = "resume"].pc \in Live BY <1>1, <1>2 DEF Task
      <3> QED BY <2>3, <3>1 DEF ReceiveTransactions
    <2>4. CASE FinishBlock(p, i)
      <3>1. PICK b \in Block : update(p, i, [t EXCEPT !.pc = "block", !.blocks = @ \ {b}])
        BY <2>4 DEF FinishBlock
      <3>2. [t EXCEPT !.pc = "block", !.blocks = @ \ {b}].pc \in Live
        BY <1>1, <1>2 DEF Task
      <3> QED BY <3>1, <3>2
    <2>5. CASE FailAttempt(p, i)
      <3>1. [t EXCEPT !.pc = "wait", !.blocks = {}].pc \in Live BY <1>1, <1>2 DEF Task
      <3> QED BY <2>5, <3>1 DEF FailAttempt
    <2>6. CASE RetryChunk(p, i)
      <3>1. startAttempt(t).pc \in Live BY <1>1, StartAttemptFields
      <3> QED BY <2>6, <3>1 DEF RetryChunk
    <2>7. CASE FinishChunk(p, i) \/ AbortChunk(p, i)
      BY <2>7 DEF FinishChunk, AbortChunk
    <2> QED BY <2>1, <2>2, <2>3, <2>4, <2>5, <2>6, <2>7 DEF ChunkStep
  <1> HIDE DEF t
  <1>5. pools[p].tasks[i].pc \in Live BY <1>3 DEF t
  <1> QED BY <1>1, <1>4, <1>5, UpdateExact, SettleExact

LEMMA PollingMeansStarted ==
    ASSUME SafetyInv, pc \notin Before \cup {"rejected"}
    PROVE  initial \in Nat
  BY DEF SafetyInv, LoopInv

LEMMA CurrentExact ==
    ASSUME NEW ps, ps \in [Pool -> PoolRecord], ExactIn(ps), NEW p
    PROVE  /\ ExactIn([ps EXCEPT ![p] = FreePool])
           /\ ExactIn([ps EXCEPT ![p] = [ps[p] EXCEPT !.outcome = "given up"]])
           /\ [ps EXCEPT ![p] = FreePool] \in [Pool -> PoolRecord]
  <1>1. FreePool \in PoolRecord
    <2>1. GoodPool(FreePool, 0, 0) BY FreePoolGood
    <2> QED BY <2>1 DEF GoodPool
  <1>2. ASSUME NEW q \in Pool
        PROVE  Exact([ps[q] EXCEPT !.outcome = "given up"])
    <2> DEFINE pool == ps[q]
               new == [pool EXCEPT !.outcome = "given up"]
    <2>1. pool \in PoolRecord /\ Exact(pool) BY DEF ExactIn
    <2> HIDE DEF pool
    <2>2. new.tasks = pool.tasks /\ new.running = pool.running
      BY <2>1 DEF PoolRecord
    <2>3. Exact(new) BY <2>1, <2>2, SameRunning
    <2> QED BY <2>3 DEF pool
  <1> QED BY <1>1, <1>2, FreeExact DEF ExactIn

LEMMA LoopStepExact ==
    ASSUME SafetyInv, ExactIn(pools), LoopStep
    PROVE  ExactIn(pools')
  <1>1. pools \in [Pool -> PoolRecord] BY DEF SafetyInv, PoolsInv, GoodPools
  <1>2. CASE ReceiveLatest
    <2>1. initial \in Nat BY <1>2, PollingMeansStarted DEF ReceiveLatest, Before
    <2>2. PICK latest \in LatestBlock :
            EnterRange(IncompleteRanges(completed, initial, latest), pools)
      BY <1>2 DEF ReceiveLatest
    <2>3. latest \in Int /\ latest <= head BY DEF LatestBlock, Block
    <2>4. IncompleteRanges(completed, initial, latest) \subseteq BlockSpan
      BY <2>1, <2>3, RangesAreSpans
    <2> QED BY <1>1, <2>2, <2>4, EnterRangeExact
  <1>3. CASE PoolResolves
    <2> DEFINE ps == [pools EXCEPT ![current] = FreePool]
    <2>1. EnterRange(todo, ps) /\ todo \subseteq BlockSpan
      BY <1>3 DEF PoolResolves, SafetyInv, TypeOK
    <2>2. ExactIn(ps) /\ ps \in [Pool -> PoolRecord] BY <1>1, CurrentExact
    <2> HIDE DEF ps
    <2> QED BY <2>1, <2>2, EnterRangeExact
  <1>4. CASE PoolRejects
    <2>1. \/ pools' = [pools EXCEPT ![current] = FreePool]
          \/ pools' = [pools EXCEPT ![current] =
                         [pools[current] EXCEPT !.outcome = "given up"]]
      BY <1>4 DEF PoolRejects
    <2>2. /\ ExactIn([pools EXCEPT ![current] = FreePool])
          /\ ExactIn([pools EXCEPT ![current] =
                        [pools[current] EXCEPT !.outcome = "given up"]])
      BY <1>1, CurrentExact, Zenon
    <2> QED BY <2>1, <2>2, Zenon
  <1>5. CASE FailInitialBlock
    <2>1. pools' = pools \/ pools' = AllFree
      BY <1>5 DEF FailInitialBlock, ProcessEnds, AllFree
    <2> QED BY <2>1, FreeExact DEF ExactIn, AllFree
  <1>6. CASE \/ Start \/ ReceiveInitialBlock \/ FailLatest \/ PoolAborts
             \/ EndBackoff \/ EndSleep
    BY <1>6 DEF Start, ReceiveInitialBlock, FailLatest, PoolAborts, EndBackoff, EndSleep
  <1> QED BY <1>2, <1>3, <1>4, <1>5, <1>6 DEF LoopStep

LEMMA ProcessStepExact ==
    ASSUME SafetyInv, ExactIn(pools), Shutdown \/ SaveAndExit \/ Crash \/ Restart \/ NewBlock
    PROVE  ExactIn(pools')
  <1>1. CASE Shutdown
    <2>1. ASSUME NEW p \in Pool PROVE Exact(pools'[p])
      <3> DEFINE pool == pools[p]
                 new == [pool EXCEPT !.outcome = "abort"]
      <3>1. pool \in PoolRecord /\ Exact(pool)
        BY DEF SafetyInv, PoolsInv, GoodPools, ExactIn
      <3>2. pools'[p] = pool \/ pools'[p] = new BY <1>1 DEF Shutdown
      <3> HIDE DEF pool
      <3>3. new.tasks = pool.tasks /\ new.running = pool.running
        BY <3>1 DEF PoolRecord
      <3>4. Exact(new) BY <3>1, <3>3, SameRunning
      <3> QED BY <3>1, <3>2, <3>4
    <2> QED BY <2>1 DEF ExactIn
  <1>2. CASE SaveAndExit \/ Crash
    <2>1. pools' = AllFree BY <1>2 DEF SaveAndExit, Crash, ProcessEnds, AllFree
    <2> QED BY <2>1, FreeExact DEF ExactIn, AllFree
  <1>3. CASE Restart \/ NewBlock BY <1>3 DEF Restart, NewBlock
  <1> QED BY <1>1, <1>2, <1>3

\* The counts of running tasks are right and no call runs more tasks than
\* maxParallelChunks, however tasks end, fail, are retried and aborted (parallel()).
THEOREM CallsKeepTheirLimit == Spec => []CallWithinLimit
  <1>1. Init => ExactIn(pools)
    BY FreeExact DEF Init, ExactIn
  <1>2. SafetyInv /\ ExactIn(pools) /\ [Next]_vars => ExactIn(pools)'
    <2> SUFFICES ASSUME SafetyInv, ExactIn(pools), [Next]_vars PROVE ExactIn(pools')
      OBVIOUS
    <2>1. CASE LoopStep BY <2>1, LoopStepExact
    <2>2. CASE \E p \in Pool : \E i \in DOMAIN pools[p].tasks : ChunkStep(p, i)
      BY <2>2, ChunkStepExact
    <2>3. CASE Shutdown \/ SaveAndExit \/ Crash \/ Restart \/ NewBlock
      BY <2>3, ProcessStepExact
    <2>4. CASE UNCHANGED vars BY <2>4 DEF vars
    <2> QED BY <2>1, <2>2, <2>3, <2>4 DEF Next
  <1>3. SafetyInv /\ ExactIn(pools) => CallWithinLimit
    BY DEF SafetyInv, PoolsInv, GoodPools, GoodPool, ExactIn, Exact, CallWithinLimit
  <1> QED BY <1>1, <1>2, <1>3, SafetyInvariant, PTL DEF Spec

-----------------------------------------------------------------------------
(* Chunks of one call never share a block                                  *)

LEMMA ChunksApart ==
    ASSUME NEW range \in IntRange, NEW size \in Nat \ {0}, NEW maxChunks \in Nat \ {0},
           NEW j \in 1 .. Len(chunkedBlockRanges(range, size, maxChunks)),
           NEW k \in 1 .. Len(chunkedBlockRanges(range, size, maxChunks)), j < k
    PROVE  /\ chunkedBlockRanges(range, size, maxChunks)[j].to
                < chunkedBlockRanges(range, size, maxChunks)[k].from
           /\ chunkedBlockRanges(range, size, maxChunks)[j].to \in Int
           /\ chunkedBlockRanges(range, size, maxChunks)[k].from \in Int
  <1> DEFINE full == FullChunks(range, size, maxChunks)
             n == IF full < maxChunks THEN full + 1 ELSE full
             begin(m) == range.from + (m - 1) * size
             chunks == chunkedBlockRanges(range, size, maxChunks)
  <1>1. full \in 0 .. maxChunks BY FullChunksDefined
  <1>2. chunks = [m \in 1 .. n |-> IF m <= full THEN Span(begin(m), begin(m) + size - 1)
                                               ELSE Span(begin(m), range.to)]
    BY DEF chunkedBlockRanges, CutInto
  <1>3. n \in Nat /\ Len(chunks) = n
    BY <1>1, <1>2
  <1> HIDE DEF chunks, full
  <1>4. j \in 1 .. n /\ k \in 1 .. n BY <1>3 DEF chunks
  <1>5. j <= full BY <1>1, <1>4
  <1>6. chunks[j].to = begin(j) + size - 1
    BY <1>2, <1>4, <1>5 DEF Span
  <1>7. chunks[k].from = begin(k) BY <1>2, <1>4 DEF Span
  <1>8. j \in Int /\ k \in Int /\ size \in Nat /\ range.from \in Int
    BY <1>4 DEF IntRange
  <1>9. j * size <= (k - 1) * size BY <1>8, StepsAscend
  <1>10. /\ j * size \in Int /\ (k - 1) * size \in Int /\ (j - 1) * size \in Int
    BY <1>8
  <1>11. chunks[j].to < chunks[k].from /\ chunks[j].to \in Int /\ chunks[k].from \in Int
    <2> DEFINE x == (j - 1) * size
               y == (k - 1) * size
               z == j * size
    <2>1. /\ x \in Int /\ y \in Int /\ z \in Int /\ z <= y
          /\ x + size = z
      <3>1. (j - 1) * size + size = j * size BY <1>8
      <3> QED BY <1>9, <1>10, <3>1
    <2>2. /\ chunks[j].to = range.from + x + size - 1
          /\ chunks[k].from = range.from + y
      BY <1>6, <1>7
    <2> HIDE DEF x, y, z
    <2>3. \A s, b, p, q, r \in Int : p + s = r /\ r <= q =>
             /\ b + p + s - 1 < b + q
             /\ b + p + s - 1 \in Int /\ b + q \in Int
      OBVIOUS
    <2>4. size \in Int /\ range.from \in Int BY <1>8
    <2>5. /\ range.from + x + size - 1 < range.from + y
          /\ range.from + x + size - 1 \in Int /\ range.from + y \in Int
      BY <2>1, <2>3, <2>4, Zenon
    <2> QED BY <2>2, <2>5
  <1> QED BY <1>11 DEF chunks

\* No two tasks of a call have a block in common.
Disjoint(pool) ==
    \A i, j \in DOMAIN pool.tasks :
        i # j => blockRangeToSet(pool.tasks[i].chunk)
                   \cap blockRangeToSet(pool.tasks[j].chunk) = {}

LEMMA CallOverDisjoint ==
    ASSUME NEW range \in BlockSpan
    PROVE  Disjoint(CallOver(range))
  <1> DEFINE base == CallOver(range)
             chunks == chunkedBlockRanges(range, blocksMaxChunkSize, chunkQueueMaxSize)
  <1>1. range \in IntRange /\ range.from \in Int /\ range.to \in Int /\ range.from <= range.to
    BY DEF BlockSpan, Block, IntRange
  <1>2. /\ DOMAIN base.tasks = 1 .. Len(chunks)
        /\ \A i \in 1 .. Len(chunks) : base.tasks[i] = QueuedTask(chunks[i])
    BY <1>1, CallOverGood
  <1>3. ASSUME NEW i \in 1 .. Len(chunks), NEW j \in 1 .. Len(chunks), i < j
        PROVE  /\ chunks[i].to < chunks[j].from
               /\ chunks[i].to \in Int /\ chunks[j].from \in Int
    BY <1>1, <1>3, ConfigAssumption, ChunksApart
  <1>4. chunks \in Seq(IntRange) BY <1>1, ConfigAssumption, ChunksPartitionRange
  <1> HIDE DEF base, chunks
  <1>5. \A i \in 1 .. Len(chunks) :
          base.tasks[i].chunk = chunks[i] /\ chunks[i] \in IntRange
    <2>1. ASSUME NEW chunk PROVE QueuedTask(chunk).chunk = chunk BY DEF QueuedTask
    <2> QED BY <1>2, <1>4, <2>1
  <1>6. ASSUME NEW i \in 1 .. Len(chunks), NEW j \in 1 .. Len(chunks), i # j
        PROVE  blockRangeToSet(chunks[i]) \cap blockRangeToSet(chunks[j]) = {}
    <2>1. i < j \/ j < i BY <1>4, <1>6
    <2>2. chunks[i].to < chunks[j].from \/ chunks[j].to < chunks[i].from BY <1>3, <2>1
    <2>3. /\ chunks[i].from \in Int /\ chunks[i].to \in Int
          /\ chunks[j].from \in Int /\ chunks[j].to \in Int
      BY <1>5 DEF IntRange
    <2> QED BY <2>2, <2>3 DEF blockRangeToSet
  <1>7. Disjoint(base) BY <1>2, <1>5, <1>6 DEF Disjoint
  <1> QED BY <1>7 DEF base

-----------------------------------------------------------------------------
(* Which calls may still output a block                                    *)

\* A task whose chunk holds a block that is not complete may come to output it;
\* once the block is complete only a task that has begun with it may.
MayWrite(t, b) ==
    IF b \notin completed
      THEN t.pc \in Live \cup {"queued"} /\ b \in blockRangeToSet(t.chunk)
      ELSE t.pc \in {"txs", "resume"} /\ IsNext(b, t)

CallMayWrite(pool, b) == \E i \in DOMAIN pool.tasks : MayWrite(pool.tasks[i], b)

Writers(ps, b) == {p \in Pool : active /\ CallMayWrite(ps[p], b)}

\* What becomes of a call: its chunks stay what they are, and a task does not
\* turn to a block that it has left behind.
Follows(new, pool) ==
    /\ new.outcome = "abort" => pool.outcome = "abort"
    /\ DOMAIN new.tasks \subseteq DOMAIN pool.tasks
    /\ \A i \in DOMAIN new.tasks :
         /\ new.tasks[i].chunk = pool.tasks[i].chunk
         /\ \A b \in Block : MayWrite(new.tasks[i], b) => MayWrite(pool.tasks[i], b)

LEMMA FollowsSteps ==
    ASSUME NEW a, NEW b, NEW c, Follows(b, a), Follows(c, b)
    PROVE  Follows(c, a)
  BY DEF Follows

LEMMA FollowsSelf ==
    ASSUME NEW a
    PROVE  Follows(a, a)
  BY DEF Follows

LEMMA FreeFollows ==
    ASSUME NEW a
    PROVE  Follows(FreePool, a)
  <1>1. DOMAIN FreePool.tasks = {} /\ FreePool.outcome = "free" BY DEF FreePool
  <1> HIDE DEF FreePool
  <1> QED BY <1>1 DEF Follows

\* A task that is started, with a block that is complete, has not begun with it.
LEMMA StartAttemptFollows ==
    ASSUME NEW t \in Task, t.pc \in Live \cup {"queued"}, NEW b \in Block,
           MayWrite(startAttempt(t), b)
    PROVE  MayWrite(t, b) /\ b \notin completed
  <1>1. startAttempt(t).pc = "request" /\ startAttempt(t).chunk = t.chunk
    BY StartAttemptFields
  <1>2. startAttempt(t).pc \notin {"txs", "resume"} BY <1>1
  <1> QED BY <1>1, <1>2 DEF MayWrite

LEMMA NextTasksFollows ==
    ASSUME NEW low, NEW high, NEW pool, GoodPool(pool, low, high)
    PROVE  Follows(nextTasks(pool), pool)
  <1> DEFINE new == nextTasks(pool)
  <1>1. PICK n \in Nat : Started(pool, new, n) BY NextTasksStarts
  <1> HIDE DEF new
  <1>2. DOMAIN new.tasks = DOMAIN pool.tasks /\ new.outcome = pool.outcome
    BY <1>1 DEF Started
  <1>3. ASSUME NEW i \in DOMAIN pool.tasks
        PROVE  /\ new.tasks[i].chunk = pool.tasks[i].chunk
               /\ \A b \in Block : MayWrite(new.tasks[i], b) => MayWrite(pool.tasks[i], b)
    <2>1. /\ pool.started \in Nat /\ pool.tasks[i] \in Task
          /\ i > pool.started => pool.tasks[i].pc = "queued"
      <3>1. pool \in PoolRecord BY DEF GoodPool
      <3> QED BY <3>1, PoolRecordTypes DEF GoodPool, GoodTask
    <2>2. CASE i \in pool.started + 1 .. pool.started + n
      <3>1. pool.tasks[i].pc = "queued" BY <2>1, <2>2
      <3>2. new.tasks[i] = startAttempt(pool.tasks[i]) BY <1>1, <2>2 DEF Started
      <3> QED BY <2>1, <3>1, <3>2, StartAttemptFields, StartAttemptFollows
    <2>3. CASE i \notin pool.started + 1 .. pool.started + n
      <3>1. new.tasks[i] = pool.tasks[i] BY <1>1, <2>3 DEF Started
      <3> QED BY <3>1
    <2> QED BY <2>2, <2>3
  <1>4. Follows(new, pool) BY <1>2, <1>3 DEF Follows
  <1> QED BY <1>4 DEF new

\* One task of a call goes on.
LEMMA TaskFollows ==
    ASSUME NEW pool, NEW i \in DOMAIN pool.tasks, NEW t, t.chunk = pool.tasks[i].chunk,
           \A b \in Block : MayWrite(t, b) => MayWrite(pool.tasks[i], b),
           NEW new, new.tasks = [pool.tasks EXCEPT ![i] = t],
           new.outcome = "abort" => pool.outcome = "abort"
    PROVE  Follows(new, pool)
  <1>1. /\ DOMAIN new.tasks = DOMAIN pool.tasks /\ new.tasks[i] = t
        /\ \A j \in DOMAIN pool.tasks \ {i} : new.tasks[j] = pool.tasks[j]
    OBVIOUS
  <1> QED BY <1>1 DEF Follows

LEMMA EndedFollows ==
    ASSUME NEW pool \in PoolRecord, NEW i \in DOMAIN pool.tasks, pool.tasks[i] \in Task,
           NEW result \in {"ok", "err"}
    PROVE  Follows(endTask(pool, i, result), pool)
  <1> DEFINE new == endTask(pool, i, result)
             t == [pool.tasks[i] EXCEPT !.pc = result, !.blocks = {}]
  <1>1. /\ new.tasks = [pool.tasks EXCEPT ![i] = t]
        /\ new.outcome = outcomeAfter(pool, i, result)
    <2>1. new = [tasks |-> [pool.tasks EXCEPT ![i] = t], started |-> pool.started,
                 running |-> pool.running - 1, outcome |-> outcomeAfter(pool, i, result)]
      BY TaskOfCallEnded, Zenon
    <2> HIDE DEF new, t
    <2> QED BY <2>1
  <1>2. new.outcome = "abort" => pool.outcome = "abort" BY <1>1 DEF outcomeAfter
  <1>3. t.pc = result /\ t.chunk = pool.tasks[i].chunk BY TaskFields
  <1>4. \A b \in Block : ~MayWrite(t, b)
    <2>1. result \notin Live \cup {"queued"} /\ result \notin {"txs", "resume"} BY DEF Live
    <2> QED BY <1>3, <2>1 DEF MayWrite
  <1> HIDE DEF new, t
  <1> QED BY <1>1, <1>2, <1>3, <1>4, TaskFollows DEF new

AllFollow(qs, ps) == \A p \in Pool : Follows(qs[p], ps[p])

LEMMA UpdateFollows ==
    ASSUME PoolsInv, NEW p \in Pool, NEW i \in DOMAIN pools[p].tasks,
           NEW t, t.chunk = pools[p].tasks[i].chunk,
           \A b \in Block : MayWrite(t, b) => MayWrite(pools[p].tasks[i], b),
           update(p, i, t)
    PROVE  AllFollow(pools', pools)
  <1> DEFINE pool == pools[p]
             new == [tasks |-> [pool.tasks EXCEPT ![i] = t], started |-> pool.started,
                     running |-> pool.running, outcome |-> pool.outcome]
  <1>1. pool \in PoolRecord /\ pools \in [Pool -> PoolRecord]
    BY DEF PoolsInv, GoodPools
  <1>2. pools' = [pools EXCEPT ![p] = new]
    <2>1. [pool EXCEPT !.tasks[i] = t] = new BY <1>1, TaskOfCallChanged
    <2> QED BY <2>1 DEF update
  <1>3. Follows(new, pool)
    <2>1. new.tasks = [pool.tasks EXCEPT ![i] = t] /\ new.outcome = pool.outcome
      OBVIOUS
    <2> HIDE DEF new
    <2> QED BY <2>1, TaskFollows
  <1> HIDE DEF new
  <1>4. ASSUME NEW q \in Pool PROVE Follows(pools'[q], pools[q])
    BY <1>1, <1>2, <1>3, FollowsSelf
  <1> QED BY <1>4 DEF AllFollow

LEMMA SettleFollows ==
    ASSUME PoolsInv, NEW p \in Pool, NEW i \in DOMAIN pools[p].tasks,
           pools[p].tasks[i].pc \in Live, NEW result \in {"ok", "err"},
           settle(p, i, result)
    PROVE  AllFollow(pools', pools)
  <1> DEFINE ended == endTask(pools[p], i, result)
  <1>1. /\ GoodPool(pools[p], initial, head) /\ pools[p] \in PoolRecord
        /\ pools \in [Pool -> PoolRecord]
    BY DEF PoolsInv, GoodPools
  <1>2. pools[p].tasks[i] \in Task BY <1>1 DEF GoodPool, GoodTask
  <1>3. GoodPool(ended, initial, head) BY <1>1, EndedGood
  <1>4. Follows(ended, pools[p]) BY <1>1, <1>2, EndedFollows
  <1>5. pools' = [pools EXCEPT ![p] =
           IF nextTasks(ended).outcome = "given up" /\ nextTasks(ended).running = 0
             THEN FreePool ELSE nextTasks(ended)]
    BY DEF settle
  <1> HIDE DEF ended
  <1>6. Follows(nextTasks(ended), pools[p])
    BY <1>3, <1>4, NextTasksFollows, FollowsSteps
  <1>7. ASSUME NEW q \in Pool PROVE Follows(pools'[q], pools[q])
    <2>1. CASE q = p BY <1>1, <1>5, <1>6, <2>1, FreeFollows
    <2>2. CASE q # p BY <1>1, <1>5, <2>2, FollowsSelf
    <2> QED BY <2>1, <2>2
  <1> QED BY <1>7 DEF AllFollow

-----------------------------------------------------------------------------
(* A second output needs a call that was given up on or an exit            *)

CallsInv ==
    /\ pc # "pool" => current = NoPool
    /\ \A p \in Pool : Disjoint(pools[p]) /\ (pools[p].outcome = "abort" => ~active)

\* Every call that may still output a block, besides the one the loop awaits
\* while the block is not complete, and every time the block was output after
\* the first is made up for by a mishap.
DuplicatesInv ==
    \A b \in Block :
        /\ b \notin completed =>
             writes[b] + Cardinality(Writers(pools, b) \ {current}) <= mishaps
        /\ b \in completed =>
             writes[b] + Cardinality(Writers(pools, b)) <= 1 + mishaps

WatcherInv == SafetyInv /\ CallsInv /\ DuplicatesInv

LEMMA WritersFinite ==
    ASSUME NEW ps, NEW b
    PROVE  IsFiniteSet(Writers(ps, b)) /\ Cardinality(Writers(ps, b)) \in Nat
  <1>1. MaxPools \in Int BY BoundAssumption
  <1>2. IsFiniteSet(Pool) BY <1>1, FS_Interval DEF Pool
  <1>3. Writers(ps, b) \subseteq Pool BY DEF Writers
  <1> QED BY <1>2, <1>3, FS_Subset, FS_CardinalityType

LEMMA FewerWriters ==
    ASSUME NEW S, NEW T, IsFiniteSet(T), S \subseteq T
    PROVE  /\ IsFiniteSet(S) /\ Cardinality(S) <= Cardinality(T)
           /\ Cardinality(S) \in Nat /\ Cardinality(T) \in Nat
  BY FS_Subset, FS_CardinalityType

LEMMA WritersFollow ==
    ASSUME NEW qs, NEW ps, AllFollow(qs, ps), NEW b \in Block
    PROVE  Writers(qs, b) \subseteq Writers(ps, b)
  <1> SUFFICES ASSUME NEW p \in Pool, CallMayWrite(qs[p], b)
               PROVE  CallMayWrite(ps[p], b)
    BY DEF Writers
  <1>1. PICK i \in DOMAIN qs[p].tasks : MayWrite(qs[p].tasks[i], b)
    BY DEF CallMayWrite
  <1>2. i \in DOMAIN ps[p].tasks /\ MayWrite(ps[p].tasks[i], b)
    BY <1>1 DEF AllFollow, Follows
  <1> QED BY <1>2 DEF CallMayWrite

LEMMA DisjointFollows ==
    ASSUME NEW new, NEW pool, Follows(new, pool), Disjoint(pool)
    PROVE  Disjoint(new)
  BY DEF Follows, Disjoint

\* A step that outputs nothing and lets no call come to output a block.
LEMMA NoNewWriters ==
    ASSUME WatcherInv, UNCHANGED <<completed, writes>>, mishaps' \in Nat, mishaps <= mishaps',
           \A b \in Block :
             /\ b \notin completed =>
                  Writers(pools, b)' \ {current'} \subseteq Writers(pools, b) \ {current}
             /\ b \in completed => Writers(pools, b)' \subseteq Writers(pools, b)
    PROVE  DuplicatesInv'
  <1> SUFFICES ASSUME NEW b \in Block
               PROVE  /\ b \notin completed =>
                           writes[b] + Cardinality(Writers(pools, b)' \ {current'}) <= mishaps'
                      /\ b \in completed =>
                           writes[b] + Cardinality(Writers(pools, b)') <= 1 + mishaps'
    BY DEF DuplicatesInv
  <1> DEFINE W == Writers(pools, b)
             V == Writers(pools, b)'
  <1>1. writes[b] \in Nat /\ mishaps \in Nat BY DEF WatcherInv, SafetyInv, TypeOK
  <1>2. IsFiniteSet(W) /\ IsFiniteSet(W \ {current}) BY WritersFinite, FS_Subset
  <1>3. /\ b \notin completed => V \ {current'} \subseteq W \ {current}
        /\ b \in completed => V \subseteq W
    OBVIOUS
  <1>4. /\ b \notin completed => writes[b] + Cardinality(W \ {current}) <= mishaps
        /\ b \in completed => writes[b] + Cardinality(W) <= 1 + mishaps
    BY DEF WatcherInv, DuplicatesInv
  <1> HIDE DEF W, V
  <1>5. CASE b \notin completed
    <2>1. /\ Cardinality(V \ {current'}) <= Cardinality(W \ {current})
          /\ Cardinality(V \ {current'}) \in Nat /\ Cardinality(W \ {current}) \in Nat
      BY <1>2, <1>3, <1>5, FewerWriters
    <2> QED BY <1>1, <1>4, <1>5, <2>1 DEF V
  <1>6. CASE b \in completed
    <2>1. Cardinality(V) <= Cardinality(W) /\ Cardinality(V) \in Nat /\ Cardinality(W) \in Nat
      BY <1>2, <1>3, <1>6, FewerWriters
    <2> QED BY <1>1, <1>4, <1>6, <2>1 DEF V
  <1> QED BY <1>5, <1>6

LEMMA WritersAfter ==
    ASSUME completed' = completed, NEW b
    PROVE  Writers(pools, b)' = {p \in Pool : active' /\ CallMayWrite(pools'[p], b)}
  <1>1. ASSUME NEW p \in Pool
        PROVE  CallMayWrite(pools[p], b)' <=> CallMayWrite(pools'[p], b)
    BY DEF CallMayWrite, MayWrite, Live, blockRangeToSet, IsNext
  <1> QED BY <1>1 DEF Writers

\* The calls after a step in which none of them turns to a new block.
LEMMA CallsInvFollows ==
    ASSUME CallsInv, AllFollow(pools', pools), UNCHANGED <<pc, current, active>>
    PROVE  CallsInv'
  <1>1. ASSUME NEW p \in Pool
        PROVE  Disjoint(pools'[p]) /\ (pools'[p].outcome = "abort" => ~active)
    <2>1. Follows(pools'[p], pools[p]) BY DEF AllFollow
    <2>2. Disjoint(pools[p]) /\ (pools[p].outcome = "abort" => ~active)
      BY DEF CallsInv
    <2> QED BY <2>1, <2>2, DisjointFollows DEF Follows
  <1>2. \A p \in Pool : Disjoint(pools[p])' <=> Disjoint(pools'[p]) BY DEF Disjoint
  <1> QED BY <1>1, <1>2 DEF CallsInv

LEMMA CallsFollow ==
    ASSUME WatcherInv, AllFollow(pools', pools),
           UNCHANGED <<pc, current, active, completed, writes, mishaps>>
    PROVE  CallsInv' /\ DuplicatesInv'
  <1>1. CallsInv' BY CallsInvFollows DEF WatcherInv
  <1>2. ASSUME NEW b \in Block
        PROVE  Writers(pools, b)' \subseteq Writers(pools, b)
    <2>1. Writers(pools, b)' = Writers(pools', b) BY WritersAfter DEF Writers
    <2> QED BY <2>1, WritersFollow
  <1>3. mishaps \in Nat BY DEF WatcherInv, SafetyInv, TypeOK
  <1>4. DuplicatesInv' BY <1>2, <1>3, NoNewWriters
  <1> QED BY <1>1, <1>4

\* A live task that goes on to a state in which it does not output a block.
LEMMA GoesOnFollows ==
    ASSUME NEW t, t.pc \in Live, NEW u, u.chunk = t.chunk,
           u.pc \in Live, u.pc \notin {"txs", "resume"}
    PROVE  \A b \in Block : MayWrite(u, b) => MayWrite(t, b)
  BY DEF MayWrite

LEMMA GoesOnChunk ==
    ASSUME NEW t \in Task, NEW state, NEW blocks
    PROVE  /\ [t EXCEPT !.pc = state, !.blocks = blocks].chunk = t.chunk
           /\ [t EXCEPT !.pc = state, !.blocks = blocks].pc = state
           /\ [t EXCEPT !.blocks = blocks].chunk = t.chunk
           /\ [t EXCEPT !.blocks = blocks].pc = t.pc
           /\ [t EXCEPT !.pc = state].chunk = t.chunk
           /\ [t EXCEPT !.pc = state].pc = state
           /\ [t EXCEPT !.pc = state].blocks = t.blocks
  <1>1. t = [chunk |-> t.chunk, attempt |-> t.attempt, blocks |-> t.blocks, pc |-> t.pc]
    BY DEF Task
  <1> QED BY <1>1

\* Every step of a chunk but the output of a block.
LEMMA ChunkStepFollows ==
    ASSUME SafetyInv, NEW p \in Pool, NEW i \in DOMAIN pools[p].tasks,
           ChunkStep(p, i), ~FinishBlock(p, i)
    PROVE  /\ AllFollow(pools', pools)
           /\ UNCHANGED <<pc, current, active, completed, writes, mishaps>>
  <1> DEFINE t == pools[p].tasks[i]
  <1>1. PoolsInv /\ t \in Task
    BY DEF SafetyInv, PoolsInv, GoodPools, GoodPool, GoodTask
  <1>2. /\ "request" \in Live /\ "block" \in Live /\ "txs" \in Live
        /\ "resume" \in Live /\ "wait" \in Live
    BY DEF Live
  <1>3. t.pc \in Live
    BY <1>2 DEF ChunkStep, ReceiveBlocks, StartBlock, ReceiveTransactions,
                FinishChunk, FailAttempt, RetryChunk, AbortChunk
  <1>4. UNCHANGED <<pc, current, active, completed, writes, mishaps>>
    BY DEF ChunkStep, ReceiveBlocks, StartBlock, ReceiveTransactions,
           FinishChunk, FailAttempt, RetryChunk, AbortChunk, loop, store
  <1>5. \/ \E u : /\ update(p, i, u) /\ u.chunk = t.chunk
                  /\ \A b \in Block : MayWrite(u, b) => MayWrite(t, b)
        \/ \E result \in {"ok", "err"} : settle(p, i, result)
    <2>1. CASE ReceiveBlocks(p, i)
      <3>1. update(p, i, [t EXCEPT !.pc = "block"]) BY <2>1 DEF ReceiveBlocks
      <3> HIDE DEF t
      <3>2. /\ [t EXCEPT !.pc = "block"].chunk = t.chunk
            /\ \A b \in Block : MayWrite([t EXCEPT !.pc = "block"], b) => MayWrite(t, b)
        <4> DEFINE u == [t EXCEPT !.pc = "block"]
        <4>1. u.chunk = t.chunk /\ u.pc = "block" BY <1>1, GoesOnChunk
        <4> HIDE DEF u
        <4>2. /\ u.chunk = t.chunk
              /\ \A b \in Block : MayWrite(u, b) => MayWrite(t, b)
          BY <1>2, <1>3, <4>1, GoesOnFollows
        <4> QED BY <4>2 DEF u
      <3> QED BY <3>1, <3>2
    <2>2. CASE StartBlock(p, i)
      <3>1. t.pc = "block" BY <2>2 DEF StartBlock
      <3>2. PICK c \in Block : /\ IsNext(c, t)
                               /\ \/ update(p, i, [t EXCEPT !.blocks = @ \ {c}])
                                  \/ /\ c \notin completed
                                     /\ update(p, i, [t EXCEPT !.pc = "txs"])
        BY <2>2 DEF StartBlock
      <3> HIDE DEF t
      <3>3. /\ [t EXCEPT !.blocks = @ \ {c}].chunk = t.chunk
            /\ \A b \in Block :
                 MayWrite([t EXCEPT !.blocks = @ \ {c}], b) => MayWrite(t, b)
        <4> DEFINE u == [t EXCEPT !.blocks = @ \ {c}]
        <4>1. u.chunk = t.chunk /\ u.pc = "block" BY <1>1, <3>1, GoesOnChunk
        <4> HIDE DEF u
        <4>2. /\ u.chunk = t.chunk
              /\ \A b \in Block : MayWrite(u, b) => MayWrite(t, b)
          BY <1>2, <1>3, <4>1, GoesOnFollows
        <4> QED BY <4>2 DEF u
      <3>4. ASSUME c \notin completed
            PROVE  /\ [t EXCEPT !.pc = "txs"].chunk = t.chunk
                   /\ \A b \in Block : MayWrite([t EXCEPT !.pc = "txs"], b) => MayWrite(t, b)
        <4> SUFFICES ASSUME NEW b \in Block, MayWrite([t EXCEPT !.pc = "txs"], b)
                     PROVE  MayWrite(t, b)
          BY <1>1, GoesOnChunk
        <4>1. b \notin completed
          <5> SUFFICES ASSUME b \in completed PROVE FALSE
            OBVIOUS
          <5>1. IsNext(b, [t EXCEPT !.pc = "txs"]) BY DEF MayWrite
          <5>2. IsNext(b, t) BY <1>1, <5>1, GoesOnChunk DEF IsNext
          <5>3. b <= c /\ c <= b /\ b \in Int /\ c \in Int
            BY <3>2, <5>2, BoundAssumption DEF IsNext, Block
          <5> QED BY <3>4, <5>3
        <4> DEFINE u == [t EXCEPT !.pc = "txs"]
        <4>2. u.chunk = t.chunk /\ MayWrite(u, b) BY <1>1, GoesOnChunk
        <4> HIDE DEF u
        <4> QED BY <1>3, <4>1, <4>2 DEF MayWrite
      <3> QED BY <3>2, <3>3, <3>4
    <2>3. CASE ReceiveTransactions(p, i)
      <3>1. t.pc = "txs" /\ update(p, i, [t EXCEPT !.pc = "resume"])
        BY <2>3 DEF ReceiveTransactions
      <3> HIDE DEF t
      <3>2. ASSUME NEW b \in Block, MayWrite([t EXCEPT !.pc = "resume"], b)
            PROVE  MayWrite(t, b)
        <4> DEFINE u == [t EXCEPT !.pc = "resume"]
        <4>1. u.chunk = t.chunk /\ u.blocks = t.blocks BY <1>1, GoesOnChunk
        <4>2. MayWrite(u, b) BY <3>2
        <4> HIDE DEF u
        <4> QED BY <1>2, <3>1, <4>1, <4>2 DEF MayWrite, IsNext
      <3> QED BY <1>1, <3>1, <3>2, GoesOnChunk
    <2>4. CASE FailAttempt(p, i)
      <3>1. \/ settle(p, i, "err")
            \/ update(p, i, [t EXCEPT !.pc = "wait", !.blocks = {}])
        BY <2>4 DEF FailAttempt
      <3> HIDE DEF t
      <3>2. /\ [t EXCEPT !.pc = "wait", !.blocks = {}].chunk = t.chunk
            /\ \A b \in Block :
                 MayWrite([t EXCEPT !.pc = "wait", !.blocks = {}], b) => MayWrite(t, b)
        <4> DEFINE u == [t EXCEPT !.pc = "wait", !.blocks = {}]
        <4>1. u.chunk = t.chunk /\ u.pc = "wait" BY <1>1, GoesOnChunk
        <4> HIDE DEF u
        <4>2. /\ u.chunk = t.chunk
              /\ \A b \in Block : MayWrite(u, b) => MayWrite(t, b)
          BY <1>2, <1>3, <4>1, GoesOnFollows
        <4> QED BY <4>2 DEF u
      <3> QED BY <3>1, <3>2
    <2>5. CASE RetryChunk(p, i)
      <3>1. update(p, i, startAttempt(t)) BY <2>5 DEF RetryChunk
      <3> HIDE DEF t
      <3> QED BY <1>1, <1>3, <3>1, StartAttemptFields, StartAttemptFollows
    <2>6. CASE FinishChunk(p, i) \/ AbortChunk(p, i)
      BY <2>6 DEF FinishChunk, AbortChunk
    <2> QED BY <2>1, <2>2, <2>3, <2>4, <2>5, <2>6 DEF ChunkStep
  <1> HIDE DEF t
  <1>6. pools[p].tasks[i].pc \in Live BY <1>3 DEF t
  <1>7. CASE \E result \in {"ok", "err"} : settle(p, i, result)
    BY <1>1, <1>4, <1>6, <1>7, SettleFollows
  <1>8. CASE \E u : /\ update(p, i, u) /\ u.chunk = t.chunk
                    /\ \A b \in Block : MayWrite(u, b) => MayWrite(t, b)
    BY <1>1, <1>4, <1>8, UpdateFollows DEF t
  <1> QED BY <1>5, <1>7, <1>8

\* The task that outputs a block was one of its writers, and its call is none any
\* more: no other task of the call holds the block.
LEMMA FinishBlockCounts ==
    ASSUME WatcherInv, NEW p \in Pool, NEW i \in DOMAIN pools[p].tasks, FinishBlock(p, i)
    PROVE  CallsInv' /\ DuplicatesInv'
  <1> DEFINE t == pools[p].tasks[i]
  <1>1. PICK b \in Block :
          /\ IsNext(b, t)
          /\ update(p, i, [t EXCEPT !.pc = "block", !.blocks = @ \ {b}])
          /\ \/ /\ active
                /\ writes' = [writes EXCEPT ![b] = @ + 1]
                /\ completed' = completed \cup {b}
             \/ /\ ~active
                /\ UNCHANGED <<writes, completed>>
    BY DEF FinishBlock
  <1> DEFINE u == [t EXCEPT !.pc = "block", !.blocks = @ \ {b}]
  <1>2. t.pc = "resume" /\ UNCHANGED <<pc, current, active, mishaps>>
    BY DEF FinishBlock, loop
  <1>3. SafetyInv /\ CallsInv /\ PoolsInv BY DEF WatcherInv, SafetyInv
  <1>4. \A q \in Pool : /\ GoodPool(pools[q], initial, head) /\ pools[q] \in PoolRecord
                       /\ \A j \in DOMAIN pools[q].tasks :
                            GoodTask(pools[q].tasks[j], initial, head)
    BY <1>3 DEF PoolsInv, GoodPools, GoodPool
  <1>5. t \in Task /\ b \in blockRangeToSet(t.chunk)
    BY <1>1, <1>4 DEF GoodTask, IsNext
  <1> HIDE DEF t
  <1>6. u.chunk = t.chunk /\ u.pc = "block" BY <1>5, GoesOnChunk
  <1>7. update(p, i, u) BY <1>1
  <1> HIDE DEF u
  <1>8. "block" \in Live /\ "resume" \in Live /\ "txs" \in Live BY DEF Live
  <1>9. AllFollow(pools', pools)
    <2>1. \A c \in Block : MayWrite(u, c) => MayWrite(t, c)
      BY <1>2, <1>6, <1>8, GoesOnFollows
    <2> QED BY <1>3, <1>6, <1>7, <2>1, UpdateFollows DEF t
  <1>10. CallsInv' BY <1>2, <1>3, <1>9, CallsInvFollows
  <1>11. CASE UNCHANGED <<writes, completed>>
    BY <1>2, <1>9, <1>11, CallsFollow
  <1>12. CASE /\ active
              /\ writes' = [writes EXCEPT ![b] = @ + 1]
              /\ completed' = completed \cup {b}
    <2>1. /\ \A q \in Pool : DOMAIN pools'[q].tasks = DOMAIN pools[q].tasks
          /\ \A q \in Pool : \A j \in DOMAIN pools[q].tasks :
               pools'[q].tasks[j] = IF q = p /\ j = i THEN u ELSE pools[q].tasks[j]
      <3> DEFINE new == [tasks |-> [pools[p].tasks EXCEPT ![i] = u],
                         started |-> pools[p].started, running |-> pools[p].running,
                         outcome |-> pools[p].outcome]
      <3>1. pools' = [pools EXCEPT ![p] = new]
        <4>1. [pools[p] EXCEPT !.tasks[i] = u] = new BY <1>4, TaskOfCallChanged
        <4> QED BY <1>7, <4>1 DEF update
      <3>2. /\ DOMAIN new.tasks = DOMAIN pools[p].tasks
            /\ \A j \in DOMAIN pools[p].tasks :
                 new.tasks[j] = IF j = i THEN u ELSE pools[p].tasks[j]
        OBVIOUS
      <3>3. pools \in [Pool -> PoolRecord] BY <1>3 DEF PoolsInv, GoodPools
      <3> HIDE DEF new
      <3> QED BY <3>1, <3>2, <3>3
    <2>2. \A c \in Block :
            Writers(pools, c)' =
              {q \in Pool : active' /\ \E j \in DOMAIN pools'[q].tasks :
                                         MayWrite(pools[q].tasks[j], c)'}
      BY DEF Writers, CallMayWrite
    <2>3. ASSUME NEW c \in Block, c # b
          PROVE  Writers(pools, c)' \subseteq Writers(pools, c)
      <3> SUFFICES ASSUME NEW q \in Pool, NEW j \in DOMAIN pools[q].tasks,
                          MayWrite(pools[q].tasks[j], c)'
                   PROVE  MayWrite(pools[q].tasks[j], c)
        BY <1>2, <2>1, <2>2 DEF Writers, CallMayWrite
      <3>1. c \in completed' <=> c \in completed BY <1>12, <2>3
      <3>2. CASE q = p /\ j = i
        <4>1. (pools[q].tasks[j])' = u BY <2>1, <3>2
        <4>2. c \notin completed /\ c \in blockRangeToSet(u.chunk)
          BY <1>6, <3>1, <4>1 DEF MayWrite, blockRangeToSet
        <4> QED BY <1>2, <1>6, <1>8, <3>2, <4>2 DEF MayWrite, t
      <3>3. CASE ~(q = p /\ j = i)
        <4>1. (pools[q].tasks[j])' = pools[q].tasks[j] BY <2>1, <3>3
        <4> QED BY <3>1, <4>1 DEF MayWrite, blockRangeToSet, IsNext, Live
      <3> QED BY <3>2, <3>3
    <2>4. Writers(pools, b)' \subseteq Writers(pools, b) \ {p}
      <3> SUFFICES ASSUME NEW q \in Pool, NEW j \in DOMAIN pools[q].tasks,
                          MayWrite(pools[q].tasks[j], b)'
                   PROVE  q # p /\ MayWrite(pools[q].tasks[j], b)
        BY <1>2, <2>1, <2>2 DEF Writers, CallMayWrite
      <3> DEFINE x == pools'[q].tasks[j]
      <3>1. b \in completed' BY <1>12
      <3>2. x.pc \in {"txs", "resume"} /\ IsNext(b, x) BY <3>1 DEF MayWrite, IsNext
      <3>3. ~(q = p /\ j = i) /\ x = pools[q].tasks[j]
        <4>1. CASE q = p /\ j = i BY <1>6, <2>1, <3>2, <4>1
        <4>2. CASE ~(q = p /\ j = i) BY <2>1, <4>2
        <4> QED BY <4>1, <4>2
      <3> HIDE DEF x
      <3>4. b \in blockRangeToSet(x.chunk)
        BY <1>4, <3>2, <3>3 DEF GoodTask, IsNext
      <3>5. q # p
        <4> SUFFICES ASSUME q = p PROVE FALSE
          OBVIOUS
        <4>1. Disjoint(pools[p]) BY <1>3 DEF CallsInv
        <4> QED BY <1>5, <3>3, <3>4, <4>1 DEF Disjoint, t
      <3>6. MayWrite(x, b) BY <1>8, <3>2, <3>4 DEF MayWrite
      <3> QED BY <3>3, <3>5, <3>6
    <2>5. p \in Writers(pools, b)
      <3>1. MayWrite(t, b) BY <1>1, <1>2, <1>5, <1>8 DEF MayWrite, t
      <3> QED BY <1>12, <3>1 DEF Writers, CallMayWrite, t
    <2>6. writes \in [Block -> Nat] /\ mishaps \in Nat
      BY <1>3 DEF SafetyInv, TypeOK
    <2>7. ASSUME NEW c \in Block, c # b
          PROVE  /\ c \notin completed' =>
                      writes'[c] + Cardinality(Writers(pools, c)' \ {current'}) <= mishaps'
                 /\ c \in completed' =>
                      writes'[c] + Cardinality(Writers(pools, c)') <= 1 + mishaps'
      <3> DEFINE W == Writers(pools, c)
                 V == Writers(pools, c)'
      <3>1. IsFiniteSet(W) /\ IsFiniteSet(W \ {current}) BY WritersFinite, FS_Subset
      <3>2. V \subseteq W /\ V \ {current'} \subseteq W \ {current} BY <1>2, <2>3, <2>7
      <3>3. /\ c \notin completed => writes[c] + Cardinality(W \ {current}) <= mishaps
            /\ c \in completed => writes[c] + Cardinality(W) <= 1 + mishaps
        BY DEF WatcherInv, DuplicatesInv
      <3>4. writes'[c] = writes[c] /\ writes[c] \in Nat /\ (c \in completed' <=> c \in completed)
        BY <1>12, <2>6, <2>7
      <3> HIDE DEF W, V
      <3>5. /\ Cardinality(V) <= Cardinality(W)
            /\ Cardinality(V) \in Nat /\ Cardinality(W) \in Nat
        BY <3>1, <3>2, FewerWriters
      <3>6. /\ Cardinality(V \ {current'}) <= Cardinality(W \ {current})
            /\ Cardinality(V \ {current'}) \in Nat /\ Cardinality(W \ {current}) \in Nat
        BY <3>1, <3>2, FewerWriters
      <3> QED BY <1>2, <2>6, <3>3, <3>4, <3>5, <3>6 DEF V
    <2>8. writes'[b] + Cardinality(Writers(pools, b)') <= 1 + mishaps'
      <3> DEFINE W == Writers(pools, b)
                 V == Writers(pools, b)'
      <3>1. /\ IsFiniteSet(W) /\ IsFiniteSet(W \ {p}) /\ IsFiniteSet(W \ {current})
            /\ Cardinality(W) \in Nat /\ Cardinality(W \ {current}) \in Nat
        BY WritersFinite, FS_Subset, FS_CardinalityType
      <3>2. V \subseteq W \ {p} /\ p \in W BY <2>4, <2>5
      <3>3. /\ b \notin completed => writes[b] + Cardinality(W \ {current}) <= mishaps
            /\ b \in completed => writes[b] + Cardinality(W) <= 1 + mishaps
        BY DEF WatcherInv, DuplicatesInv
      <3>4. writes'[b] = writes[b] + 1 /\ writes[b] \in Nat BY <1>12, <2>6
      <3> HIDE DEF W, V
      <3>5. Cardinality(W \ {p}) = Cardinality(W) - 1
        BY <3>1, <3>2, FS_RemoveElement
      <3>6. Cardinality(V) <= Cardinality(W \ {p}) /\ Cardinality(V) \in Nat
        BY <3>1, <3>2, FewerWriters
      <3>7. Cardinality(W) - 1 <= Cardinality(W \ {current})
        <4>1. CASE current \in W
          BY <3>1, <4>1, FS_RemoveElement
        <4>2. CASE current \notin W
          <5>1. W \ {current} = W BY <4>2
          <5>2. Cardinality(W \ {current}) = Cardinality(W) BY <5>1, Zenon
          <5> QED BY <3>1, <5>2
        <4> QED BY <4>1, <4>2
      <3>8. writes'[b] + Cardinality(V) <= 1 + mishaps
        BY <2>6, <3>1, <3>3, <3>4, <3>5, <3>6, <3>7
      <3> QED BY <1>2, <3>8 DEF V
    <2>9. b \in completed' BY <1>12
    <2>10. DuplicatesInv' BY <2>7, <2>8, <2>9 DEF DuplicatesInv
    <2> QED BY <1>10, <2>10
  <1> QED BY <1>1, <1>11, <1>12

\* A new call has not begun with a block that is complete.
LEMMA NewPoolCounts ==
    ASSUME NEW range \in BlockSpan
    PROVE  /\ Disjoint(newPool(range)) /\ newPool(range).outcome # "abort"
           /\ \A b \in Block : b \in completed => ~CallMayWrite(newPool(range), b)
  <1> DEFINE base == CallOver(range)
             new == newPool(range)
             chunks == chunkedBlockRanges(range, blocksMaxChunkSize, chunkQueueMaxSize)
  <1>1. range.from \in Int /\ range.to \in Int BY DEF BlockSpan, Block
  <1>2. /\ GoodPool(base, range.from, range.to) /\ base.outcome = "pending"
        /\ DOMAIN base.tasks = 1 .. Len(chunks)
        /\ \A i \in 1 .. Len(chunks) : base.tasks[i] = QueuedTask(chunks[i])
    BY <1>1, CallOverGood
  <1>3. new = nextTasks(base) BY DEF newPool, CallOver
  <1>4. Disjoint(base) BY CallOverDisjoint
  <1> HIDE DEF base, new, chunks
  <1>5. Follows(new, base) BY <1>2, <1>3, NextTasksFollows
  <1>6. \A i \in DOMAIN base.tasks : base.tasks[i].pc = "queued"
    <2>1. ASSUME NEW chunk PROVE QueuedTask(chunk).pc = "queued"
      BY DEF QueuedTask
    <2> QED BY <1>2, <2>1, Zenon
  <1>7. ASSUME NEW b \in Block, b \in completed
        PROVE  ~CallMayWrite(new, b)
    <2> SUFFICES ASSUME NEW i \in DOMAIN new.tasks, MayWrite(new.tasks[i], b)
                 PROVE  FALSE
      BY DEF CallMayWrite
    <2>1. i \in DOMAIN base.tasks /\ MayWrite(base.tasks[i], b) BY <1>5 DEF Follows
    <2> QED BY <1>6, <1>7, <2>1 DEF MayWrite
  <1>8. Disjoint(new) /\ new.outcome # "abort"
    BY <1>2, <1>4, <1>5, DisjointFollows DEF Follows
  <1> QED BY <1>7, <1>8 DEF new

LEMMA FreeCounts ==
    /\ Disjoint(FreePool) /\ FreePool.outcome # "abort"
    /\ \A b \in Block : ~CallMayWrite(FreePool, b)
  <1>1. DOMAIN FreePool.tasks = {} /\ FreePool.outcome = "free" BY DEF FreePool
  <1> HIDE DEF FreePool
  <1> QED BY <1>1 DEF Disjoint, CallMayWrite

\* The loop is through with the call it awaited, if any, and may begin another.
LEMMA EnterRangeCounts ==
    ASSUME WatcherInv, NEW ranges, ranges \subseteq BlockSpan,
           NEW ps, ps \in [Pool -> PoolRecord],
           \A p \in Pool : Disjoint(ps[p]) /\ (ps[p].outcome = "abort" => ~active),
           \A b \in Block : Writers(ps, b) \subseteq Writers(pools, b) \ {current},
           EnterRange(ranges, ps), UNCHANGED <<active, completed, writes, mishaps>>
    PROVE  CallsInv' /\ DuplicatesInv'
  <1>1. mishaps \in Nat /\ active \in BOOLEAN BY DEF WatcherInv, SafetyInv, TypeOK
  <1>2. \A b \in Block :
          Writers(pools, b)' = {q \in Pool : active /\ CallMayWrite(pools'[q], b)}
    BY WritersAfter
  <1>3. CASE pools' = ps /\ pc' # "pool" /\ current' = NoPool
    <2>1. \A b \in Block : Writers(pools, b)' \subseteq Writers(pools, b) \ {current}
      BY <1>2, <1>3 DEF Writers
    <2>2. DuplicatesInv' BY <1>1, <2>1, NoNewWriters
    <2>3. CallsInv' BY <1>1, <1>3 DEF CallsInv, Disjoint
    <2> QED BY <2>2, <2>3
  <1>4. CASE /\ pc' = "pool"
             /\ \E r \in ranges, p \in Pool :
                  pools' = [ps EXCEPT ![p] = newPool(r)] /\ current' = p
    <2>1. PICK r \in ranges, p \in Pool :
            pools' = [ps EXCEPT ![p] = newPool(r)] /\ current' = p
      BY <1>4
    <2>2. /\ pools'[p] = newPool(r)
          /\ \A q \in Pool \ {p} : pools'[q] = ps[q]
      BY <2>1
    <2>3. /\ Disjoint(pools'[p]) /\ pools'[p].outcome # "abort"
          /\ \A b \in Block : b \in completed => ~CallMayWrite(pools'[p], b)
      BY <2>2, NewPoolCounts
    <2>4. ASSUME NEW b \in Block
          PROVE  /\ b \notin completed =>
                      Writers(pools, b)' \ {current'} \subseteq Writers(pools, b) \ {current}
                 /\ b \in completed => Writers(pools, b)' \subseteq Writers(pools, b)
      <3>1. Writers(pools, b)' \ {p} \subseteq Writers(ps, b)
        BY <1>2, <2>2 DEF Writers
      <3>2. b \in completed => p \notin Writers(pools, b)' BY <1>2, <2>3
      <3> QED BY <2>1, <3>1, <3>2
    <2>5. DuplicatesInv' BY <1>1, <2>4, NoNewWriters
    <2>6. CallsInv'
      <3>1. ASSUME NEW q \in Pool
            PROVE  Disjoint(pools'[q]) /\ (pools'[q].outcome = "abort" => ~active)
        BY <2>2, <2>3
      <3>2. \A q \in Pool : Disjoint(pools[q])' <=> Disjoint(pools'[q]) BY DEF Disjoint
      <3> QED BY <1>4, <3>1, <3>2 DEF CallsInv
    <2> QED BY <2>5, <2>6
  <1> QED BY <1>3, <1>4 DEF EnterRange, RoundEnds

\* A step that gives up the call the loop awaits is itself a mishap.
LEMMA MishapCounts ==
    ASSUME WatcherInv, UNCHANGED <<completed, writes>>, mishaps' = mishaps + 1,
           \A b \in Block : Writers(pools, b)' \subseteq Writers(pools, b)
    PROVE  DuplicatesInv'
  <1> SUFFICES ASSUME NEW b \in Block
               PROVE  /\ b \notin completed =>
                           writes[b] + Cardinality(Writers(pools, b)' \ {current'}) <= mishaps'
                      /\ b \in completed =>
                           writes[b] + Cardinality(Writers(pools, b)') <= 1 + mishaps'
    BY DEF DuplicatesInv
  <1> DEFINE W == Writers(pools, b)
             V == Writers(pools, b)'
  <1>1. writes[b] \in Nat /\ mishaps \in Nat BY DEF WatcherInv, SafetyInv, TypeOK
  <1>2. IsFiniteSet(W) /\ IsFiniteSet(W \ {current}) BY WritersFinite, FS_Subset
  <1>3. V \subseteq W /\ V \ {current'} \subseteq W
    OBVIOUS
  <1>4. /\ b \notin completed => writes[b] + Cardinality(W \ {current}) <= mishaps
        /\ b \in completed => writes[b] + Cardinality(W) <= 1 + mishaps
    BY DEF WatcherInv, DuplicatesInv
  <1> HIDE DEF W, V
  <1>5. Cardinality(V) <= Cardinality(W) /\ Cardinality(V \ {current'}) <= Cardinality(W)
    BY <1>2, <1>3, FewerWriters
  <1>6. /\ Cardinality(V) \in Nat /\ Cardinality(V \ {current'}) \in Nat
        /\ Cardinality(W) \in Nat /\ Cardinality(W \ {current}) \in Nat
    BY <1>2, <1>3, FewerWriters
  <1>7. Cardinality(W) <= Cardinality(W \ {current}) + 1
    <2>1. CASE current \in W BY <1>2, <1>6, <2>1, FS_RemoveElement
    <2>2. CASE current \notin W
      <3>1. W \ {current} = W BY <2>2
      <3>2. Cardinality(W \ {current}) = Cardinality(W) BY <3>1, Zenon
      <3> QED BY <1>6, <3>2
    <2> QED BY <2>1, <2>2
  <1>8. /\ b \notin completed => writes[b] + Cardinality(V \ {current'}) <= mishaps'
        /\ b \in completed => writes[b] + Cardinality(V) <= 1 + mishaps'
    BY <1>1, <1>4, <1>5, <1>6, <1>7
  <1> QED BY <1>8 DEF V

\* So is an exit that loses completed blocks.
LEMMA ProcessEndsCounts ==
    ASSUME WatcherInv, NEW saved, ProcessEnds(saved), saved.completed \subseteq completed,
           writes' = writes,
           \/ saved.completed = completed /\ mishaps' = mishaps
           \/ mishaps' = mishaps + 1
    PROVE  CallsInv' /\ DuplicatesInv'
  <1>1. /\ pools' = AllFree /\ current' = NoPool /\ completed' = saved.completed
    BY DEF ProcessEnds, AllFree
  <1>2. \A p \in Pool : pools'[p] = FreePool BY <1>1 DEF AllFree
  <1>3. CallsInv'
    <2>1. \A p \in Pool : Disjoint(pools'[p]) /\ pools'[p].outcome # "abort"
      BY <1>2, FreeCounts
    <2>2. \A p \in Pool : Disjoint(pools[p])' <=> Disjoint(pools'[p]) BY DEF Disjoint
    <2> QED BY <1>1, <2>1, <2>2 DEF CallsInv
  <1>4. ASSUME NEW b \in Block PROVE Writers(pools, b)' = {}
    <2>1. \A p \in Pool : DOMAIN pools'[p].tasks = {} BY <1>2 DEF FreePool
    <2> QED BY <2>1 DEF Writers, CallMayWrite
  <1>5. ASSUME NEW b \in Block
        PROVE  /\ b \notin completed' =>
                    writes'[b] + Cardinality(Writers(pools, b)' \ {current'}) <= mishaps'
               /\ b \in completed' =>
                    writes'[b] + Cardinality(Writers(pools, b)') <= 1 + mishaps'
    <2> DEFINE W == Writers(pools, b)
    <2>1. writes[b] \in Nat /\ mishaps \in Nat BY DEF WatcherInv, SafetyInv, TypeOK
    <2>2. Cardinality(W) \in Nat /\ Cardinality(W \ {current}) \in Nat
      BY WritersFinite, FS_Subset, FS_CardinalityType
    <2>3. /\ b \notin completed => writes[b] + Cardinality(W \ {current}) <= mishaps
          /\ b \in completed => writes[b] + Cardinality(W) <= 1 + mishaps
      BY DEF WatcherInv, DuplicatesInv
    <2>4. /\ Cardinality(Writers(pools, b)') = 0
          /\ Cardinality(Writers(pools, b)' \ {current'}) = 0
      <3>1. Writers(pools, b)' \ {current'} = {} BY <1>4
      <3> QED BY <1>4, <3>1, FS_EmptySet, Zenon
    <2> HIDE DEF W
    <2> QED BY <1>1, <2>1, <2>2, <2>3, <2>4
  <1>6. DuplicatesInv' BY <1>5 DEF DuplicatesInv
  <1> QED BY <1>3, <1>6

\* A step that leaves the calls, the output and the checkpoint alone.
LEMMA CallsUntouched ==
    ASSUME WatcherInv, UNCHANGED <<pools, active, completed, writes>>,
           current' = current, pc' # "pool" => current' = NoPool, mishaps' = mishaps
    PROVE  CallsInv' /\ DuplicatesInv'
  <1>1. CallsInv' BY DEF WatcherInv, CallsInv, Disjoint
  <1>2. \A b \in Block : Writers(pools, b)' = Writers(pools, b)
    BY WritersAfter DEF Writers
  <1>3. mishaps \in Nat BY DEF WatcherInv, SafetyInv, TypeOK
  <1>4. DuplicatesInv' BY <1>2, <1>3, NoNewWriters
  <1> QED BY <1>1, <1>4

\* Every step of the polling loop.
LEMMA LoopStepCounts ==
    ASSUME WatcherInv, LoopStep
    PROVE  CallsInv' /\ DuplicatesInv'
  <1>1. /\ SafetyInv /\ CallsInv /\ pools \in [Pool -> PoolRecord]
        /\ todo \subseteq BlockSpan /\ current \in Pool \cup {NoPool}
        /\ mishaps \in Nat /\ active \in BOOLEAN /\ NoPool \notin Pool
    BY DEF WatcherInv, SafetyInv, TypeOK, NoPool, Pool
  <1>2. /\ \A p \in Pool : Disjoint(pools[p]) /\ (pools[p].outcome = "abort" => ~active)
        /\ pc # "pool" => current = NoPool
    BY <1>1 DEF CallsInv
  <1>3. FreePool \in PoolRecord
    <2>1. GoodPool(FreePool, 0, 0) BY FreePoolGood
    <2> QED BY <2>1 DEF GoodPool
  <1>4. CASE ReceiveLatest
    <2>1. initial \in Nat BY <1>1, <1>4, PollingMeansStarted DEF ReceiveLatest, Before
    <2>2. PICK latest \in LatestBlock :
            EnterRange(IncompleteRanges(completed, initial, latest), pools)
      BY <1>4 DEF ReceiveLatest
    <2>3. latest \in Int /\ latest <= head BY DEF LatestBlock, Block
    <2> DEFINE ranges == IncompleteRanges(completed, initial, latest)
    <2>4. ranges \subseteq BlockSpan BY <1>1, <2>1, <2>3, RangesAreSpans
    <2>5. \A b \in Block : Writers(pools, b) \subseteq Writers(pools, b) \ {current}
      BY <1>1, <1>2, <1>4 DEF ReceiveLatest, Writers
    <2>6. UNCHANGED <<active, completed, writes, mishaps>> BY <1>4 DEF ReceiveLatest, store
    <2>7. EnterRange(ranges, pools) BY <2>2
    <2> HIDE DEF ranges
    <2> QED BY <1>1, <1>2, <2>4, <2>5, <2>6, <2>7, EnterRangeCounts
  <1>5. CASE PoolResolves
    <2> DEFINE ps == [pools EXCEPT ![current] = FreePool]
    <2>1. EnterRange(todo, ps) /\ UNCHANGED <<active, completed, writes, mishaps>>
      BY <1>5 DEF PoolResolves, store
    <2>2. /\ ps \in [Pool -> PoolRecord]
          /\ \A p \in Pool : ps[p] = IF p = current THEN FreePool ELSE pools[p]
      BY <1>1, <1>3
    <2> HIDE DEF ps
    <2>3. \A p \in Pool : Disjoint(ps[p]) /\ (ps[p].outcome = "abort" => ~active)
      BY <1>2, <2>2, FreeCounts
    <2>4. \A b \in Block : Writers(ps, b) \subseteq Writers(pools, b) \ {current}
      BY <2>2, FreeCounts DEF Writers
    <2> QED BY <1>1, <2>1, <2>2, <2>3, <2>4, EnterRangeCounts
  <1>6. CASE PoolRejects
    <2>1. /\ \/ pools' = [pools EXCEPT ![current] = FreePool]
             \/ pools' = [pools EXCEPT ![current] =
                            [pools[current] EXCEPT !.outcome = "given up"]]
          /\ UNCHANGED <<active, completed, writes>> /\ mishaps' = mishaps + 1
          /\ pc' # "pool" /\ current' = NoPool
      BY <1>6 DEF PoolRejects, CatchError, RoundEnds, store
    <2>2. AllFollow(pools', pools)
      <3>1. ASSUME NEW p \in Pool PROVE Follows(pools'[p], pools[p])
        <4> DEFINE pool == pools[p]
                   new == [pool EXCEPT !.outcome = "given up"]
        <4>1. pool \in PoolRecord BY <1>1
        <4>2. pools'[p] \in {pool, FreePool, new} BY <1>1, <2>1, Zenon
        <4> HIDE DEF pool
        <4>3. new.tasks = pool.tasks /\ new.outcome = "given up" BY <4>1 DEF PoolRecord
        <4> HIDE DEF new
        <4>4. Follows(new, pool) BY <4>3 DEF Follows
        <4>5. Follows(pools'[p], pool) BY <4>2, <4>4, FreeFollows, FollowsSelf
        <4> QED BY <4>5 DEF pool
      <3> QED BY <3>1 DEF AllFollow
    <2>3. \A b \in Block : Writers(pools, b)' \subseteq Writers(pools, b)
      <3>1. \A b \in Block : Writers(pools, b)' = Writers(pools', b)
        BY <2>1, WritersAfter DEF Writers
      <3> QED BY <2>2, <3>1, WritersFollow
    <2>4. DuplicatesInv' BY <2>1, <2>3, MishapCounts
    <2>5. CallsInv'
      <3>1. \A p \in Pool : Disjoint(pools'[p]) /\ (pools'[p].outcome = "abort" => ~active)
        BY <1>2, <2>2, DisjointFollows DEF AllFollow, Follows
      <3>2. \A p \in Pool : Disjoint(pools[p])' <=> Disjoint(pools'[p]) BY DEF Disjoint
      <3> QED BY <2>1, <3>1, <3>2 DEF CallsInv
    <2> QED BY <2>4, <2>5
  <1>7. CASE PoolAborts
    <2>1. /\ pools[current].outcome = "abort" /\ pc' = "ended" /\ current' = NoPool
          /\ UNCHANGED <<pools, active, completed, writes, mishaps>>
      BY <1>7 DEF PoolAborts, LoopEnds, store
    <2>2. CASE current = NoPool BY <2>1, <2>2, CallsUntouched
    <2>3. CASE current \in Pool
      <3>1. ~active BY <1>2, <2>1, <2>3
      <3>2. \A b \in Block : Writers(pools, b)' = {}
        BY <2>1, <3>1 DEF Writers
      <3>3. DuplicatesInv' BY <1>1, <2>1, <3>2, NoNewWriters
      <3>4. CallsInv' BY <1>2, <2>1 DEF CallsInv, Disjoint
      <3> QED BY <3>3, <3>4
    <2> QED BY <1>1, <2>2, <2>3
  <1>8. CASE FailInitialBlock
    <2>1. CASE ProcessEnds(file) /\ mishaps' = mishaps + 1
      <3>1. file.completed \subseteq completed /\ writes' = writes
        BY <1>1, <1>8 DEF FailInitialBlock, SafetyInv, StoreInv
      <3> QED BY <2>1, <3>1, ProcessEndsCounts
    <2>2. CASE pc' = "rejected" /\ UNCHANGED <<active, pools, current, store, mishaps>>
      <3>1. pc # "pool" /\ writes' = writes BY <1>8 DEF FailInitialBlock
      <3> QED BY <1>2, <2>2, <3>1, CallsUntouched DEF store
    <2> QED BY <1>8, <2>1, <2>2 DEF FailInitialBlock
  <1>9. CASE FailLatest
    <2>1. /\ pc # "pool" /\ pc' # "pool" /\ current' = NoPool
          /\ UNCHANGED <<pools, active, completed, writes, mishaps>>
      BY <1>9 DEF FailLatest, CatchError, RoundEnds, store
    <2> QED BY <1>2, <2>1, CallsUntouched
  <1>10. CASE Start \/ ReceiveInitialBlock \/ EndBackoff \/ EndSleep
    <2>1. /\ pc # "pool" /\ current' = current
          /\ UNCHANGED <<pools, active, completed, writes, mishaps>>
      BY <1>10 DEF Start, ReceiveInitialBlock, EndBackoff, EndSleep, store
    <2> QED BY <1>2, <2>1, CallsUntouched
  <1> QED BY <1>4, <1>5, <1>6, <1>7, <1>8, <1>9, <1>10 DEF LoopStep

LEMMA ProcessStepCounts ==
    ASSUME WatcherInv, Shutdown \/ SaveAndExit \/ Crash \/ Restart \/ NewBlock
    PROVE  CallsInv' /\ DuplicatesInv'
  <1>1. /\ SafetyInv /\ CallsInv /\ pools \in [Pool -> PoolRecord] /\ mishaps \in Nat
    BY DEF WatcherInv, SafetyInv, TypeOK
  <1>2. CASE Shutdown
    <2>1. /\ ~active' /\ UNCHANGED <<pc, current, completed, writes, mishaps>>
      BY <1>2 DEF Shutdown, loop, store
    <2>2. \A b \in Block : Writers(pools, b)' = {} BY <2>1 DEF Writers
    <2>3. DuplicatesInv' BY <1>1, <2>1, <2>2, NoNewWriters
    <2>4. ASSUME NEW p \in Pool PROVE Disjoint(pools'[p])
      <3> DEFINE pool == pools[p]
                 new == [pool EXCEPT !.outcome = "abort"]
      <3>1. pool \in PoolRecord /\ Disjoint(pool) BY <1>1 DEF CallsInv
      <3>2. pools'[p] = pool \/ pools'[p] = new BY <1>2 DEF Shutdown
      <3> HIDE DEF pool
      <3>3. new.tasks = pool.tasks BY <3>1 DEF PoolRecord
      <3> HIDE DEF new
      <3> QED BY <3>1, <3>2, <3>3 DEF Disjoint
    <2>5. \A p \in Pool : Disjoint(pools[p])' <=> Disjoint(pools'[p]) BY DEF Disjoint
    <2>6. CallsInv' BY <1>1, <2>1, <2>4, <2>5 DEF CallsInv
    <2> QED BY <2>3, <2>6
  <1>3. CASE SaveAndExit
    <2> DEFINE saved == [initial |-> initial, completed |-> completed]
    <2>1. ProcessEnds(saved) /\ UNCHANGED <<writes, mishaps>> BY <1>3 DEF SaveAndExit
    <2>2. saved.completed = completed OBVIOUS
    <2> HIDE DEF saved
    <2> QED BY <2>1, <2>2, ProcessEndsCounts
  <1>4. CASE Crash
    <2>1. ProcessEnds(file) /\ writes' = writes /\ mishaps' = mishaps + 1
      BY <1>4 DEF Crash
    <2>2. file.completed \subseteq completed BY <1>1 DEF SafetyInv, StoreInv
    <2> QED BY <2>1, <2>2, ProcessEndsCounts
  <1>5. CASE Restart \/ NewBlock
    <2>1. /\ pc' # "pool" => pc # "pool"
          /\ UNCHANGED <<pools, active, completed, writes, current, mishaps>>
      BY <1>5 DEF Restart, NewBlock, loop, store
    <2> QED BY <1>1, <2>1, CallsUntouched DEF CallsInv
  <1> QED BY <1>2, <1>3, <1>4, <1>5

\* WatcherInv holds in every reachable state: SafetyInv with, for every block, the
\* calls of parallel() that may still output it set against the calls given up on
\* and the exits without a save.
THEOREM WatcherInvariant == Spec => []WatcherInv
  <1>1. Init /\ SafetyInv => CallsInv /\ DuplicatesInv
    <2> SUFFICES ASSUME Init PROVE CallsInv /\ DuplicatesInv
      OBVIOUS
    <2>1. /\ current = NoPool /\ mishaps = 0 /\ completed = {}
          /\ \A p \in Pool : pools[p] = FreePool
          /\ \A b \in Block : writes[b] = 0
      BY DEF Init
    <2>2. CallsInv BY <2>1, FreeCounts DEF CallsInv
    <2>3. \A b \in Block : Writers(pools, b) = {} BY <2>1, FreeCounts DEF Writers
    <2>4. \A b \in Block : Cardinality(Writers(pools, b) \ {current}) = 0
      <3>1. \A b \in Block : Writers(pools, b) \ {current} = {} BY <2>3
      <3> QED BY <3>1, FS_EmptySet
    <2>5. DuplicatesInv BY <2>1, <2>4 DEF DuplicatesInv
    <2> QED BY <2>2, <2>5
  <1>2. WatcherInv /\ [Next]_vars => (CallsInv /\ DuplicatesInv)'
    <2> SUFFICES ASSUME WatcherInv, [Next]_vars PROVE CallsInv' /\ DuplicatesInv'
      OBVIOUS
    <2>1. CASE LoopStep BY <2>1, LoopStepCounts
    <2>2. CASE \E p \in Pool : \E i \in DOMAIN pools[p].tasks : ChunkStep(p, i)
      <3>1. PICK p \in Pool : \E i \in DOMAIN pools[p].tasks : ChunkStep(p, i) BY <2>2
      <3>2. PICK i \in DOMAIN pools[p].tasks : ChunkStep(p, i) BY <3>1
      <3>3. CASE FinishBlock(p, i) BY <3>3, FinishBlockCounts
      <3>4. CASE ~FinishBlock(p, i)
        BY <3>2, <3>4, ChunkStepFollows, CallsFollow DEF WatcherInv
      <3> QED BY <3>3, <3>4
    <2>3. CASE Shutdown \/ SaveAndExit \/ Crash \/ Restart \/ NewBlock
      BY <2>3, ProcessStepCounts
    <2>4. CASE UNCHANGED vars
      BY <2>4, CallsUntouched DEF vars, WatcherInv, CallsInv
    <2> QED BY <2>1, <2>2, <2>3, <2>4 DEF Next
  <1>3. WatcherInv <=> SafetyInv /\ (CallsInv /\ DuplicatesInv) BY DEF WatcherInv
  <1> QED BY <1>1, <1>2, <1>3, SafetyInvariant, PTL DEF Spec

\* A block is output again only on account of a call that was given up on or of an
\* exit without a save: for any number of calls with live chunks at a time, any
\* lagging latest block, and any order of failures, retries and shutdowns.
THEOREM OutputOnceButForMishaps == Spec => []DuplicatesNeedAMishap
  <1>1. WatcherInv => DuplicatesNeedAMishap
    <2> SUFFICES ASSUME WatcherInv, NEW b \in Block PROVE writes[b] <= 1 + mishaps
      BY DEF DuplicatesNeedAMishap
    <2>1. writes[b] \in Nat /\ mishaps \in Nat BY DEF WatcherInv, SafetyInv, TypeOK
    <2>2. Cardinality(Writers(pools, b)) \in Nat
          /\ Cardinality(Writers(pools, b) \ {current}) \in Nat
      BY WritersFinite, FS_Subset, FS_CardinalityType
    <2> QED BY <2>1, <2>2 DEF WatcherInv, DuplicatesInv
  <1> QED BY <1>1, WatcherInvariant, PTL
=============================================================================
