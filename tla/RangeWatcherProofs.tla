------------------------- MODULE RangeWatcherProofs -------------------------
(***************************************************************************)
(* Safety of the balance watcher and the NFT watcher, with and without a   *)
(* configured end.  The steps they share with the block watcher keep its   *)
(* invariant by the lemmas proved about them there; what is added here is  *)
(* the write that is not guarded by the active flag, the calls whose       *)
(* queue is skipped, and what the loop knows when it reaches the end.      *)
(***************************************************************************)
EXTENDS RangeWatcher, WatcherCallProofs

-----------------------------------------------------------------------------
(* Calls after the end                                                     *)

\* Skipping the queue of a call leaves its running tasks and its chunks alone.
LEMMA SkipQueuedTasks ==
    ASSUME NEW low, NEW high, NEW pool, GoodPool(pool, low, high)
    PROVE  /\ skipQueued(pool).started = Len(pool.tasks)
           /\ skipQueued(pool).running = pool.running
           /\ skipQueued(pool).outcome = pool.outcome
           /\ skipQueued(pool) \in PoolRecord
           /\ DOMAIN skipQueued(pool).tasks = DOMAIN pool.tasks
           /\ Len(skipQueued(pool).tasks) = Len(pool.tasks)
           /\ \A i \in DOMAIN pool.tasks :
                \/ /\ pool.tasks[i].pc # "queued"
                   /\ skipQueued(pool).tasks[i] = pool.tasks[i]
                \/ /\ pool.tasks[i].pc = "queued"
                   /\ skipQueued(pool).tasks[i] = [pool.tasks[i] EXCEPT !.pc = "ok"]
  <1> DEFINE tasks == [i \in DOMAIN pool.tasks |->
                        IF pool.tasks[i].pc = "queued" THEN [pool.tasks[i] EXCEPT !.pc = "ok"]
                                                       ELSE pool.tasks[i]]
             n == Len(pool.tasks)
  <1>1. /\ pool \in PoolRecord /\ pool.tasks \in Seq(Task) /\ n \in Nat
        /\ DOMAIN pool.tasks = 1 .. n
        /\ pool.running \in Int /\ pool.outcome \in Outcome
    <2>1. pool \in PoolRecord BY DEF GoodPool
    <2> QED BY <2>1, PoolRecordTypes
  <1>2. skipQueued(pool) = [tasks |-> tasks, started |-> n,
                            running |-> pool.running, outcome |-> pool.outcome]
    <2> DEFINE begun == [pool EXCEPT !.started = n]
    <2>1. pool = [tasks |-> pool.tasks, started |-> pool.started,
                  running |-> pool.running, outcome |-> pool.outcome]
      BY <1>1 DEF PoolRecord
    <2>2. skipQueued(pool) = [begun EXCEPT !.tasks = tasks]
      BY <1>1 DEF skipQueued, PoolRecord
    <2> HIDE DEF tasks, n
    <2>3. begun = [tasks |-> pool.tasks, started |-> n,
                   running |-> pool.running, outcome |-> pool.outcome]
      BY <2>1
    <2> HIDE DEF begun
    <2> QED BY <2>2, <2>3
  <1>3. \A i \in DOMAIN pool.tasks : tasks[i] \in Task
    <2>1. ASSUME NEW t \in Task PROVE [t EXCEPT !.pc = "ok"] \in Task
      <3>1. [t EXCEPT !.pc = "ok"]
              = [chunk |-> t.chunk, attempt |-> t.attempt, blocks |-> t.blocks, pc |-> "ok"]
        BY DEF Task
      <3> QED BY <3>1 DEF Task
    <2> QED BY <1>1, <2>1
  <1>4. tasks \in Seq(Task) /\ Len(tasks) = n /\ DOMAIN tasks = DOMAIN pool.tasks
    <2>1. tasks = [i \in 1 .. n |-> tasks[i]] BY <1>1
    <2>2. \A i \in 1 .. n : tasks[i] \in Task BY <1>1, <1>3
    <2> HIDE DEF tasks
    <2>3. tasks \in [1 .. n -> Task] BY <2>1, <2>2
    <2> QED BY <1>1, <2>3
  <1>5. \A i \in DOMAIN pool.tasks :
          \/ pool.tasks[i].pc # "queued" /\ tasks[i] = pool.tasks[i]
          \/ pool.tasks[i].pc = "queued" /\ tasks[i] = [pool.tasks[i] EXCEPT !.pc = "ok"]
    OBVIOUS
  <1> HIDE DEF tasks
  <1>6. [tasks |-> tasks, started |-> n, running |-> pool.running,
         outcome |-> pool.outcome] \in PoolRecord
    BY <1>1, <1>4, PoolRecordOf
  <1> HIDE DEF n
  <1> DEFINE new == skipQueued(pool)
  <1>7. /\ new.started = n /\ new.running = pool.running /\ new.outcome = pool.outcome
        /\ new.tasks = tasks /\ new \in PoolRecord
    BY <1>2, <1>6
  <1> HIDE DEF new
  <1> QED BY <1>4, <1>5, <1>7 DEF new, n

\* So the call stays good, its count exact and its chunks what they are.
LEMMA SkipQueuedKeeps ==
    ASSUME NEW low, NEW high, NEW pool, GoodPool(pool, low, high)
    PROVE  /\ GoodPool(skipQueued(pool), low, high)
           /\ Exact(pool) => Exact(skipQueued(pool))
           /\ Follows(skipQueued(pool), pool)
  <1> DEFINE new == skipQueued(pool)
  <1>1. /\ new.started = Len(pool.tasks) /\ new.running = pool.running
        /\ new.outcome = pool.outcome /\ new \in PoolRecord
        /\ DOMAIN new.tasks = DOMAIN pool.tasks /\ Len(new.tasks) = Len(pool.tasks)
    BY SkipQueuedTasks
  <1>2. \A i \in DOMAIN pool.tasks :
          \/ pool.tasks[i].pc # "queued" /\ new.tasks[i] = pool.tasks[i]
          \/ pool.tasks[i].pc = "queued" /\ new.tasks[i] = [pool.tasks[i] EXCEPT !.pc = "ok"]
    BY SkipQueuedTasks
  <1>3. /\ pool.tasks \in Seq(Task) /\ Len(pool.tasks) \in Nat
        /\ DOMAIN pool.tasks = 1 .. Len(pool.tasks)
    <2>1. pool \in PoolRecord BY DEF GoodPool
    <2> QED BY <2>1, PoolRecordTypes
  <1> HIDE DEF new
  <1>4. ASSUME NEW i \in DOMAIN pool.tasks
        PROVE  /\ GoodTask(new.tasks[i], low, high)
               /\ new.tasks[i].chunk = pool.tasks[i].chunk
               /\ new.tasks[i].pc \in Live <=> pool.tasks[i].pc \in Live
               /\ \A b \in Block : MayWrite(new.tasks[i], b) => MayWrite(pool.tasks[i], b)
    <2> DEFINE t == pool.tasks[i]
               u == [t EXCEPT !.pc = "ok"]
    <2>1. GoodTask(t, low, high) /\ t \in Task BY DEF GoodPool, GoodTask
    <2>2. "ok" \notin Live /\ "queued" \notin Live /\ "ok" \notin Live \cup {"queued"}
      BY DEF Live
    <2>3. new.tasks[i] = t \/ (t.pc = "queued" /\ new.tasks[i] = u) BY <1>2
    <2> HIDE DEF t
    <2>4. u = [chunk |-> t.chunk, attempt |-> t.attempt, blocks |-> t.blocks, pc |-> "ok"]
      BY <2>1 DEF Task
    <2>5. u \in Task BY <2>1, <2>4 DEF Task
    <2>6. u.chunk = t.chunk /\ u.blocks = t.blocks /\ u.pc = "ok" BY <2>4
    <2> HIDE DEF u
    <2>7. GoodTask(u, low, high) BY <2>1, <2>5, <2>6 DEF GoodTask
    <2>8. \A b \in Block : ~MayWrite(u, b) BY <2>2, <2>6 DEF MayWrite
    <2>9. /\ GoodTask(new.tasks[i], low, high)
          /\ new.tasks[i].chunk = t.chunk
          /\ new.tasks[i].pc \in Live <=> t.pc \in Live
          /\ \A b \in Block : MayWrite(new.tasks[i], b) => MayWrite(t, b)
      BY <2>1, <2>2, <2>3, <2>6, <2>7, <2>8
    <2> QED BY <2>9 DEF t
  <1>5. GoodPool(new, low, high)
    <2>1. pool.running <= maxParallelChunks BY DEF GoodPool
    <2>2. \A i \in DOMAIN pool.tasks : ~(i > new.started) BY <1>1, <1>3
    <2>3. new.started <= Len(new.tasks) BY <1>1, <1>3
    <2> QED BY <1>1, <1>4, <2>1, <2>2, <2>3 DEF GoodPool
  <1>6. Exact(pool) => Exact(new) BY <1>1, <1>4, SameRunning
  <1>7. Follows(new, pool) BY <1>1, <1>4 DEF Follows
  <1> QED BY <1>5, <1>6, <1>7 DEF new

\* A task that ends leaves good calls, exact counts and the chunks what they were.
LEMMA SettleRangeKeeps ==
    ASSUME TypeOK, PoolsInv, ExactIn(pools), NEW p \in Pool,
           NEW i \in DOMAIN pools[p].tasks, pools[p].tasks[i].pc \in Live,
           NEW result \in {"ok", "err"}, settleRange(p, i, result)
    PROVE  /\ GoodPools(pools', initial, head) /\ ExactIn(pools')
           /\ AllFollow(pools', pools)
  <1>1. CASE settle(p, i, result)
    BY <1>1, SettleGood, SettleExact, SettleFollows
  <1>2. CASE ~settle(p, i, result)
    <2> DEFINE ended == endTask(pools[p], i, result)
    <2>1. /\ GoodPool(pools[p], initial, head) /\ pools[p] \in PoolRecord
          /\ pools \in [Pool -> PoolRecord] /\ Exact(pools[p])
      BY DEF PoolsInv, GoodPools, ExactIn
    <2>2. pools[p].tasks[i] \in Task BY <2>1 DEF GoodPool, GoodTask
    <2>3. GoodPool(ended, initial, head) BY <2>1, EndedGood
    <2>4. Exact(ended) BY <2>1, <2>2, EndedExact
    <2>5. Follows(ended, pools[p]) BY <2>1, <2>2, EndedFollows
    <2>6. pools' = [pools EXCEPT ![p] =
             IF skipQueued(ended).running = 0 THEN FreePool ELSE skipQueued(ended)]
      BY <1>2 DEF settleRange
    <2> HIDE DEF ended
    <2>7. /\ GoodPool(skipQueued(ended), initial, head) /\ Exact(skipQueued(ended))
          /\ Follows(skipQueued(ended), pools[p])
      BY <2>3, <2>4, <2>5, SkipQueuedKeeps, FollowsSteps
    <2>8. GoodPool(FreePool, initial, head)
      <3>1. initial \in Int /\ head \in Int
        BY BoundAssumption DEF TypeOK, SavedCheckpoint, Block
      <3> QED BY <3>1, FreePoolGood
    <2>9. GoodPools(pools', initial, head)
      BY <2>6, <2>7, <2>8, ReplacePool DEF PoolsInv
    <2>10. ExactIn(pools') BY <2>1, <2>6, <2>7, FreeExact DEF ExactIn
    <2>11. ASSUME NEW q \in Pool PROVE Follows(pools'[q], pools[q])
      BY <2>1, <2>6, <2>7, FreeFollows, FollowsSelf
    <2> QED BY <2>9, <2>10, <2>11 DEF AllFollow
  <1> QED BY <1>1, <1>2

-----------------------------------------------------------------------------
(* Steps of a chunk                                                        *)

\* The block that a step of a chunk outputs and completes, if any.
Outputs(p, i, b) ==
    /\ b \in blockRangeToSet(pools[p].tasks[i].chunk)
    /\ writes' = [writes EXCEPT ![b] = @ + 1] /\ completed' = completed \cup {b}

\* What every step of a chunk keeps.
ChunkKeeps(p, i) ==
    /\ SafetyInv' /\ ExactIn(pools') /\ AllFollow(pools', pools)
    /\ UNCHANGED <<head, pc, active, todo, initial, file, finished>>
    /\ UNCHANGED <<writes, completed>> \/ \E b \in Block : Outputs(p, i, b)

LEMMA WriteBlockKeeps ==
    ASSUME SafetyInv, ExactIn(pools), NEW p \in Pool, NEW i \in DOMAIN pools[p].tasks,
           WriteBlock(p, i)
    PROVE  ChunkKeeps(p, i)
  <1> DEFINE t == pools[p].tasks[i]
  <1>1. PICK b \in Block :
          /\ IsNext(b, t)
          /\ update(p, i, [t EXCEPT !.pc = "block", !.blocks = @ \ {b}])
          /\ writes' = [writes EXCEPT ![b] = @ + 1] /\ completed' = completed \cup {b}
    BY DEF WriteBlock
  <1>2. /\ t.pc = "resume"
        /\ UNCHANGED <<head, faults, pc, failures, todo, current, active, initial, file,
                       mishaps, restarts, finished>>
    BY DEF WriteBlock, node, loop
  <1>3. SafetyInv' BY <1>1, <1>2, BlockDoneSafe
  <1>4. /\ PoolsInv /\ GoodTask(t, initial, head) /\ t \in Task
    BY DEF SafetyInv, PoolsInv, GoodPools, GoodPool, GoodTask
  <1>5. Outputs(p, i, b) BY <1>1, <1>4 DEF Outputs, IsNext, GoodTask
  <1> DEFINE u == [t EXCEPT !.pc = "block", !.blocks = @ \ {b}]
  <1>6. update(p, i, u) BY <1>1
  <1> HIDE DEF t
  <1>7. u.chunk = t.chunk /\ u.pc = "block" BY <1>4, GoesOnChunk
  <1> HIDE DEF u
  <1>8. "block" \in Live /\ "resume" \in Live BY DEF Live
  <1>9. \A c \in Block : MayWrite(u, c) => MayWrite(t, c)
    BY <1>2, <1>7, <1>8, GoesOnFollows
  <1>10. AllFollow(pools', pools) BY <1>4, <1>6, <1>7, <1>9, UpdateFollows DEF t
  <1>11. ExactIn(pools') BY <1>2, <1>4, <1>6, <1>7, <1>8, UpdateExact DEF t
  <1> QED BY <1>2, <1>3, <1>5, <1>10, <1>11 DEF ChunkKeeps

\* A step by which a task of a call ends, or an attempt fails.
LEMMA SettleRangeStep ==
    ASSUME SafetyInv, ExactIn(pools), NEW p \in Pool, NEW i \in DOMAIN pools[p].tasks,
           pools[p].tasks[i].pc \in Live, NEW result \in {"ok", "err"},
           settleRange(p, i, result), faults' \in Nat,
           UNCHANGED <<head, loop, active, store, writes, mishaps, restarts, finished>>
    PROVE  ChunkKeeps(p, i)
  <1>1. TypeOK /\ PoolsInv BY DEF SafetyInv
  <1>2. GoodPools(pools', initial, head) /\ ExactIn(pools') /\ AllFollow(pools', pools)
    BY <1>1, SettleRangeKeeps
  <1>3. SafetyInv' BY <1>2, ChunkStepFrame
  <1> QED BY <1>2, <1>3 DEF ChunkKeeps, loop, store

LEMMA RangeChunkStepKeeps ==
    ASSUME SafetyInv, ExactIn(pools), NEW p \in Pool, NEW i \in DOMAIN pools[p].tasks,
           RangeChunkStep(p, i)
    PROVE  ChunkKeeps(p, i)
  <1> DEFINE t == pools[p].tasks[i]
  <1>1. TypeOK /\ PoolsInv /\ GoodTask(t, initial, head) /\ t \in Task
    BY DEF SafetyInv, PoolsInv, GoodPools, GoodPool, GoodTask
  <1>2. faults \in Nat /\ faults + 1 \in Nat BY <1>1 DEF TypeOK
  <1>3. /\ "request" \in Live /\ "block" \in Live /\ "txs" \in Live /\ "wait" \in Live
    BY DEF Live
  <1>4. CASE WriteBlock(p, i) BY <1>4, WriteBlockKeeps
  <1>5. CASE UNCHANGED finished /\ \/ ReceiveBlocks(p, i) \/ StartBlock(p, i)
                                   \/ ReceiveTransactions(p, i) \/ RetryRangeChunk(p, i)
                                   \/ t.pc # "resume" /\ AbortChunk(p, i)
    <2>1. ChunkStep(p, i) BY <1>5 DEF ChunkStep, RetryRangeChunk
    <2>2. UNCHANGED <<head, pc, active, todo, initial, file, finished, completed, writes>>
      BY <1>5 DEF ReceiveBlocks, StartBlock, ReceiveTransactions, RetryRangeChunk,
                  RetryChunk, AbortChunk, node, loop, store
    <2>3. SafetyInv' /\ ExactIn(pools') BY <2>1, ChunkStepSafe, ChunkStepExact
    <2>4. ~FinishBlock(p, i)
      <3>1. t.pc # "resume"
        BY <1>5 DEF ReceiveBlocks, StartBlock, ReceiveTransactions, RetryRangeChunk, RetryChunk
      <3> QED BY <3>1 DEF FinishBlock
    <2>5. AllFollow(pools', pools) BY <2>1, <2>4, ChunkStepFollows
    <2> QED BY <2>2, <2>3, <2>5 DEF ChunkKeeps
  <1>6. CASE FinishRangeChunk(p, i)
    <2>1. /\ t.pc \in Live /\ settleRange(p, i, "ok") /\ faults' = faults
          /\ UNCHANGED <<head, loop, active, store, writes, mishaps, restarts, finished>>
      BY <1>3, <1>6 DEF FinishRangeChunk, node
    <2> QED BY <1>2, <2>1, SettleRangeStep
  <1>7. CASE FailRangeAttempt(p, i)
    <2>1. /\ t.pc \in Live /\ faults' = faults + 1
          /\ UNCHANGED <<head, loop, active, store, writes, mishaps, restarts, finished>>
      BY <1>3, <1>7 DEF FailRangeAttempt
    <2>2. CASE settleRange(p, i, "err") BY <1>2, <2>1, <2>2, SettleRangeStep
    <2>3. CASE t.attempt < Attempts /\ update(p, i, [t EXCEPT !.pc = "wait", !.blocks = {}])
      <3>1. active /\ t.pc \in {"request", "txs"} /\ faults < MaxFaults
        BY <1>7 DEF FailRangeAttempt
      <3>2. FailAttempt(p, i) BY <2>1, <2>3, <3>1 DEF FailAttempt
      <3>3. ChunkStep(p, i) BY <3>2 DEF ChunkStep
      <3>4. ~FinishBlock(p, i) BY <3>1 DEF FinishBlock
      <3>5. SafetyInv' /\ ExactIn(pools') /\ AllFollow(pools', pools)
        BY <3>3, <3>4, ChunkStepSafe, ChunkStepExact, ChunkStepFollows
      <3> QED BY <2>1, <3>5 DEF ChunkKeeps, loop, store
    <2> QED BY <1>7, <2>2, <2>3 DEF FailRangeAttempt
  <1> QED BY <1>4, <1>5, <1>6, <1>7 DEF RangeChunkStep

-----------------------------------------------------------------------------
(* Steps of the loop and of the process                                    *)

LEMMA UpToType ==
    ASSUME NEW latest \in Int
    PROVE  /\ upTo(latest) \in Int /\ upTo(latest) <= latest
           /\ EndAt # NoBlock => upTo(latest) <= EndAt
  <1>1. EndAt \in Nat \cup {NoBlock} /\ NoBlock \in Int
    BY EndAssumption DEF NoBlock
  <1> QED BY <1>1 DEF upTo, reachedEnd

\* The round covers ranges between the initial block and the head.
LEMMA ReceiveLatestInRangeKeeps ==
    ASSUME SafetyInv, ExactIn(pools), ReceiveLatestInRange
    PROVE  SafetyInv' /\ ExactIn(pools')
  <1>1. /\ failures \in Nat /\ mishaps \in Nat /\ faults \in Nat
        /\ todo \subseteq BlockSpan /\ GoodPools(pools, initial, head)
        /\ pools \in [Pool -> PoolRecord]
    BY DEF SafetyInv, TypeOK, PoolsInv
  <1>2. initial \in Nat /\ pc = "poll"
    BY PollingMeansStarted DEF ReceiveLatestInRange, Before
  <1>3. PICK latest \in LatestBlock :
          \/ EnterRange(IncompleteRanges(completed, initial, upTo(latest)), pools)
          \/ LoopEnds /\ UNCHANGED pools
    BY DEF ReceiveLatestInRange
  <1>4. UNCHANGED <<head, active, store, writes, restarts, failures, mishaps, faults>>
    BY DEF ReceiveLatestInRange, node
  <1>5. CASE EnterRange(IncompleteRanges(completed, initial, upTo(latest)), pools)
    <2> DEFINE ranges == IncompleteRanges(completed, initial, upTo(latest))
    <2>1. upTo(latest) \in Int /\ upTo(latest) <= head
      <3>1. latest \in Int /\ latest <= head /\ head \in Int
        BY BoundAssumption DEF LatestBlock, Block, SafetyInv, TypeOK
      <3>2. upTo(latest) \in Int /\ upTo(latest) <= latest BY <3>1, UpToType
      <3> QED BY <3>1, <3>2
    <2>2. /\ ranges \subseteq BlockSpan
          /\ \A r \in ranges : initial <= r.from /\ r.to <= head
      BY <1>2, <2>1, RangesAreSpans
    <2>3. EnterRange(ranges, pools) BY <1>5
    <2> HIDE DEF ranges
    <2>4. /\ pc' \in LoopState \ Before /\ (pc' # "pool" => todo' = {})
          /\ todo' \subseteq ranges /\ current' \in Pool \cup {NoPool}
          /\ GoodPools(pools', initial, head)
      BY <1>1, <1>2, <2>2, <2>3, EnterRangeGood
    <2>5. SafetyInv' BY <1>1, <1>2, <1>4, <2>2, <2>4, LoopStepFrame
    <2>6. ExactIn(pools') BY <1>1, <2>2, <2>3, EnterRangeExact
    <2> QED BY <2>5, <2>6
  <1>6. CASE LoopEnds /\ UNCHANGED pools
    <2>1. /\ pc' = "ended" /\ todo' = {} /\ current' = NoPool BY <1>6 DEF LoopEnds
    <2>2. pc' \in LoopState \ Before BY <2>1 DEF LoopState, Before
    <2>3. GoodPools(pools', initial, head) /\ ExactIn(pools') BY <1>1, <1>6
    <2>4. {} \subseteq BlockSpan /\ NoPool \in Pool \cup {NoPool} OBVIOUS
    <2> QED BY <1>1, <1>2, <1>4, <2>1, <2>2, <2>3, <2>4, LoopStepFrame
  <1> QED BY <1>3, <1>5, <1>6

\* The invariants of the block watcher, after any step.
LEMMA SharedInvariants ==
    ASSUME SafetyInv, ExactIn(pools), [RangeNext]_rangeVars
    PROVE  SafetyInv' /\ ExactIn(pools')
  <1>1. CASE UNCHANGED rangeVars
    <2>1. SafetyInv' <=> SafetyInv
      BY <1>1 DEF rangeVars, SafetyInv, TypeOK, PoolsInv, LoopInv, StoreInv, CompletedWereWritten
    <2> QED BY <1>1, <2>1 DEF rangeVars
  <1>2. CASE RangeLoopStep
    <2>1. CASE ReceiveLatestInRange BY <2>1, ReceiveLatestInRangeKeeps
    <2>2. CASE LoopStep BY <2>2, LoopStepSafe, LoopStepExact
    <2> QED BY <1>2, <2>1, <2>2 DEF RangeLoopStep, LoopStep
  <1>3. CASE \E p \in Pool : \E i \in DOMAIN pools[p].tasks : RangeChunkStep(p, i)
    <2>1. PICK p \in Pool : \E i \in DOMAIN pools[p].tasks : RangeChunkStep(p, i) BY <1>3
    <2>2. PICK i \in DOMAIN pools[p].tasks : RangeChunkStep(p, i) BY <2>1
    <2>3. ChunkKeeps(p, i) BY <2>2, RangeChunkStepKeeps
    <2> QED BY <2>3 DEF ChunkKeeps
  <1>4. CASE Shutdown \/ SaveAndExit \/ Crash \/ Restart \/ NewBlock
    BY <1>4, ProcessStepSafe, ProcessStepExact
  <1> QED BY <1>1, <1>2, <1>3, <1>4 DEF RangeNext, SaveRangeAndExit, RangeCrash

-----------------------------------------------------------------------------
(* What the watcher knows of its end                                       *)

Below(pool) == \A i \in DOMAIN pool.tasks : pool.tasks[i].chunk.to <= EndAt

\* Nothing beyond the end is ever taken up.
BelowEnd ==
    EndAt # NoBlock =>
        /\ \A b \in completed : b <= EndAt
        /\ \A r \in todo : r.to <= EndAt
        /\ \A p \in Pool : Below(pools[p])
        /\ \A b \in Block : writes[b] > 0 => b <= EndAt

\* Nothing before the initial block of the checkpoint is, which a configuration
\* that names it fixes for every process.
AboveStart ==
    /\ \A b \in completed : initial <= b
    /\ ~StartAt.latest =>
         /\ initial \in {NoBlock, StartAt.n} /\ file.initial \in {NoBlock, StartAt.n}
         /\ \A b \in Block : writes[b] > 0 => StartAt.n <= b

\* The loop stops only when no block up to the end is missing.
EndedComplete ==
    finished => /\ pc = "ended" /\ EndAt # NoBlock
                /\ initial < EndAt => initial .. EndAt \subseteq completed

RangeInv ==
    /\ SafetyInv /\ ExactIn(pools)
    /\ BelowEnd /\ AboveStart /\ EndedComplete

EndTypes ==
    /\ SafetyInv /\ EndAt \in Int /\ NoBlock \in Int /\ initial \in Int /\ head \in Int
    /\ completed \subseteq Block /\ \A b \in Block : b \in Nat /\ writes[b] \in Nat
    /\ StartAt.n \in Int

LEMMA EndTypesHold == SafetyInv => EndTypes
  <1>1. EndAt \in Int /\ NoBlock \in Int BY EndAssumption DEF NoBlock
  <1>2. StartAt.n \in Int
    <2>1. StartAt \in [latest : BOOLEAN, n : Int] BY ConfigAssumption
    <2> QED BY <2>1
  <1> QED BY <1>1, <1>2, BoundAssumption DEF EndTypes, SafetyInv, TypeOK, SavedCheckpoint, Block

\* A step of a chunk, with the block it outputs.
LEMMA ChunkStepEnd ==
    ASSUME RangeInv, NEW p \in Pool, NEW i \in DOMAIN pools[p].tasks, ChunkKeeps(p, i)
    PROVE  BelowEnd' /\ AboveStart' /\ EndedComplete'
  <1>1. EndTypes BY EndTypesHold DEF RangeInv
  <1>2. /\ AllFollow(pools', pools)
        /\ UNCHANGED <<head, pc, active, todo, initial, file, finished>>
    BY DEF ChunkKeeps
  <1>3. ASSUME EndAt # NoBlock, NEW q \in Pool PROVE Below(pools'[q])
    <2>1. Below(pools[q]) /\ Follows(pools'[q], pools[q])
      BY <1>2, <1>3 DEF RangeInv, BelowEnd, AllFollow
    <2> QED BY <2>1 DEF Below, Follows
  <1>4. \A q \in Pool : Below(pools[q])' <=> Below(pools'[q]) BY DEF Below
  <1>5. CASE UNCHANGED <<writes, completed>>
    <2>1. BelowEnd' BY <1>2, <1>3, <1>4, <1>5 DEF RangeInv, BelowEnd
    <2>2. AboveStart' BY <1>2, <1>5 DEF RangeInv, AboveStart
    <2>3. EndedComplete' BY <1>2, <1>5 DEF RangeInv, EndedComplete
    <2> QED BY <2>1, <2>2, <2>3
  <1>6. CASE \E b \in Block : Outputs(p, i, b)
    <2>1. PICK b \in Block : Outputs(p, i, b) BY <1>6
    <2> DEFINE t == pools[p].tasks[i]
    <2>2. /\ t.chunk.from \in Int /\ t.chunk.to \in Int /\ initial <= t.chunk.from
          /\ EndAt # NoBlock => t.chunk.to <= EndAt
      <3>1. GoodTask(t, initial, head)
        BY DEF RangeInv, SafetyInv, PoolsInv, GoodPools, GoodPool
      <3>2. t.chunk \in BlockSpan /\ initial <= t.chunk.from
        BY <3>1 DEF GoodTask, Task
      <3>3. EndAt # NoBlock => t.chunk.to <= EndAt BY DEF RangeInv, BelowEnd, Below
      <3> HIDE DEF t
      <3> QED BY <3>2, <3>3, BoundAssumption DEF BlockSpan, Block
    <2>3. b \in t.chunk.from .. t.chunk.to BY <2>1 DEF Outputs, blockRangeToSet
    <2> HIDE DEF t
    <2>4. b \in Int /\ initial <= b /\ (EndAt # NoBlock => b <= EndAt)
      BY <1>1, <2>2, <2>3 DEF EndTypes
    <2>5. /\ completed' = completed \cup {b}
          /\ \A c \in Block : c # b => writes'[c] = writes[c]
      <3>1. writes \in [Block -> Nat] BY DEF RangeInv, SafetyInv, TypeOK
      <3> QED BY <2>1, <3>1 DEF Outputs
    <2>6. BelowEnd' BY <1>2, <1>3, <1>4, <2>4, <2>5 DEF RangeInv, BelowEnd
    <2>7. AboveStart'
      <3>1. \A c \in completed' : initial' <= c
        BY <1>2, <2>4, <2>5 DEF RangeInv, AboveStart
      <3>2. ASSUME ~StartAt.latest, NEW c \in Block, writes'[c] > 0
            PROVE  StartAt.n <= c
        <4>1. CASE c = b
          <5>1. initial \in Nat BY LiveChunkMeansPolling DEF RangeInv
          <5>2. initial = StartAt.n BY <3>2, <5>1 DEF RangeInv, AboveStart, NoBlock
          <5> QED BY <2>4, <4>1, <5>2
        <4>2. CASE c # b BY <2>5, <3>2, <4>2 DEF RangeInv, AboveStart
        <4> QED BY <4>1, <4>2
      <3> QED BY <1>2, <3>1, <3>2 DEF RangeInv, AboveStart
    <2>8. EndedComplete' BY <1>2, <2>5 DEF RangeInv, EndedComplete
    <2> QED BY <2>6, <2>7, <2>8
  <1> QED BY <1>5, <1>6 DEF ChunkKeeps

\* A step that completes and outputs nothing and takes up nothing beyond the end.
LEMMA BelowEndKept ==
    ASSUME BelowEnd, completed' \subseteq completed, writes' = writes,
           EndAt # NoBlock => /\ \A r \in todo' : r.to <= EndAt
                              /\ \A p \in Pool : Below(pools'[p])
    PROVE  BelowEnd'
  <1>1. \A p \in Pool : Below(pools[p])' <=> Below(pools'[p]) BY DEF Below
  <1> QED BY <1>1 DEF BelowEnd

LEMMA FreeBelow == Below(FreePool)
  <1>1. DOMAIN FreePool.tasks = {} BY DEF FreePool
  <1> HIDE DEF FreePool
  <1> QED BY <1>1 DEF Below

\* A round over ranges up to the end begins no call beyond it.
LEMMA EnterRangeBelow ==
    ASSUME TypeOK, NEW ranges, ranges \subseteq BlockSpan, \A r \in ranges : r.to <= EndAt,
           NEW ps, ps \in [Pool -> PoolRecord], \A p \in Pool : Below(ps[p]),
           EnterRange(ranges, ps)
    PROVE  /\ \A r \in todo' : r.to <= EndAt
           /\ \A p \in Pool : Below(pools'[p])
  <1>1. CASE pools' = ps /\ todo' = {} BY <1>1
  <1>2. CASE \E r \in ranges, p \in Pool :
               pools' = [ps EXCEPT ![p] = newPool(r)] /\ todo' = ranges \ {r}
    <2>1. PICK r \in ranges, p \in Pool :
            pools' = [ps EXCEPT ![p] = newPool(r)] /\ todo' = ranges \ {r}
      BY <1>2
    <2>2. r \in BlockSpan /\ r.from \in Int /\ r.to \in Int /\ r.to <= EndAt
      BY DEF BlockSpan, Block
    <2> DEFINE new == newPool(r)
    <2>3. GoodPool(new, r.from, r.to) BY <2>2, NewPoolGood
    <2>4. pools' = [ps EXCEPT ![p] = new] BY <2>1
    <2> HIDE DEF new
    <2>5. Below(new)
      <3> SUFFICES ASSUME NEW i \in DOMAIN new.tasks PROVE new.tasks[i].chunk.to <= EndAt
        BY DEF Below
      <3>1. GoodTask(new.tasks[i], r.from, r.to) BY <2>3 DEF GoodPool
      <3>2. new.tasks[i].chunk.to \in Int /\ new.tasks[i].chunk.to <= r.to
        BY <3>1 DEF GoodTask, Task, BlockSpan, Block
      <3>3. EndAt \in Int BY EndAssumption DEF NoBlock
      <3> QED BY <2>2, <3>2, <3>3
    <2>6. ASSUME NEW q \in Pool PROVE Below(pools'[q])
      BY <2>4, <2>5
    <2> QED BY <2>1, <2>6
  <1> QED BY <1>1, <1>2 DEF EnterRange, RoundEnds

\* The ranges of a round end where the round ends.
LEMMA RangesBelowEnd ==
    ASSUME EndTypes, BelowEnd, EndAt # NoBlock, NEW latest \in Int
    PROVE  \A r \in IncompleteRanges(completed, initial, upTo(latest)) : r.to <= EndAt
  <1>1. upTo(latest) \in Int /\ upTo(latest) <= EndAt BY UpToType
  <1>2. \A b \in completed : b \in Int /\ b <= EndAt BY DEF EndTypes, BelowEnd
  <1> QED BY <1>1, <1>2, IncompleteRangesWithin DEF EndTypes

\* With nothing to offer up to the end the checkpoint has every block up to it.
LEMMA NothingMissing ==
    ASSUME EndTypes, BelowEnd, NEW end \in Int, end <= EndAt, EndAt # NoBlock, initial < end,
           IncompleteRanges(completed, initial, end) = {}
    PROVE  initial .. end \subseteq completed
  <1>1. \A b \in completed : b \in Int /\ b <= EndAt BY DEF EndTypes, BelowEnd
  <1>2. UNION {blockRangeToSet(r) : r \in IncompleteRanges(completed, initial, end)}
          = MissingBlocks(completed, initial, end)
    BY <1>1, RangesHoldTheMissing DEF EndTypes
  <1>3. MissingBlocks(completed, initial, end) = {} BY <1>2
  <1> QED BY <1>3 DEF MissingBlocks

\* The end of the process, with the checkpoint as it is or as it was saved.
LEMMA ProcessEndsEnd ==
    ASSUME RangeInv, NEW saved \in {file, [initial |-> initial, completed |-> completed]},
           ProcessEnds(saved), writes' = writes
    PROVE  BelowEnd' /\ AboveStart'
  <1>1. /\ saved.completed \subseteq completed
        /\ saved.initial \in {initial, file.initial}
        /\ saved.completed # {} => saved.initial = initial
    <2>1. CASE saved = file BY <2>1 DEF RangeInv, SafetyInv, StoreInv
    <2>2. CASE saved = [initial |-> initial, completed |-> completed] BY <2>2
    <2> QED BY <2>1, <2>2
  <1>2. /\ todo' = {} /\ \A p \in Pool : pools'[p] = FreePool
        /\ file' = saved /\ initial' = saved.initial /\ completed' = saved.completed
    BY DEF ProcessEnds
  <1>3. BelowEnd' BY <1>1, <1>2, FreeBelow, BelowEndKept DEF RangeInv
  <1>4. AboveStart' BY <1>1, <1>2 DEF RangeInv, AboveStart
  <1> QED BY <1>3, <1>4

\* The latest block arrives: the round stays below the end, or the end is reached.
LEMMA ReceiveLatestInRangeEnd ==
    ASSUME RangeInv, ReceiveLatestInRange
    PROVE  BelowEnd' /\ AboveStart' /\ EndedComplete'
  <1>1. EndTypes /\ TypeOK /\ BelowEnd BY EndTypesHold DEF RangeInv, SafetyInv
  <1>2. ~finished /\ initial \in Nat
    BY PollingMeansStarted DEF RangeInv, EndedComplete, ReceiveLatestInRange, Before
  <1>3. PICK latest \in LatestBlock :
          LET ranges == IncompleteRanges(completed, initial, upTo(latest))
          IN \/ EnterRange(ranges, pools) /\ UNCHANGED finished
             \/ /\ reachedEnd(latest) /\ ranges = {}
                /\ LoopEnds /\ UNCHANGED pools
    BY DEF ReceiveLatestInRange
  <1>4. latest \in Int BY <1>1 DEF LatestBlock, EndTypes
  <1>5. UNCHANGED <<initial, completed, file, writes>> BY DEF ReceiveLatestInRange, store
  <1>6. AboveStart' BY <1>5 DEF RangeInv, AboveStart
  <1> DEFINE ranges == IncompleteRanges(completed, initial, upTo(latest))
  <1>7. CASE EnterRange(ranges, pools) /\ UNCHANGED finished
    <2>1. EndedComplete' BY <1>2, <1>7 DEF EndedComplete
    <2>2. ranges \subseteq BlockSpan
      <3>1. upTo(latest) \in Int /\ upTo(latest) <= head
        <4>1. latest <= head /\ head \in Int BY <1>1 DEF LatestBlock, EndTypes
        <4>2. upTo(latest) \in Int /\ upTo(latest) <= latest BY <1>4, UpToType
        <4> QED BY <1>4, <4>1, <4>2
      <3> QED BY <1>2, <3>1, RangesAreSpans DEF RangeInv
    <2>3. EndAt # NoBlock => \A r \in ranges : r.to <= EndAt
      BY <1>1, <1>4, RangesBelowEnd
    <2>4. EnterRange(ranges, pools) BY <1>7
    <2> HIDE DEF ranges
    <2>5. pools \in [Pool -> PoolRecord] BY <1>1 DEF TypeOK
    <2>6. EndAt # NoBlock => /\ \A r \in todo' : r.to <= EndAt
                             /\ \A p \in Pool : Below(pools'[p])
      BY <1>1, <2>2, <2>3, <2>4, <2>5, EnterRangeBelow DEF BelowEnd
    <2>7. BelowEnd' BY <1>1, <1>5, <2>6, BelowEndKept
    <2> QED BY <1>6, <2>1, <2>7
  <1>8. CASE /\ reachedEnd(latest) /\ ranges = {}
             /\ LoopEnds /\ UNCHANGED pools
    <2>1. pc' = "ended" /\ todo' = {} /\ UNCHANGED pools BY <1>8 DEF LoopEnds
    <2>2. BelowEnd' BY <1>1, <1>5, <2>1, BelowEndKept DEF BelowEnd
    <2>3. EndAt # NoBlock /\ upTo(latest) = EndAt BY <1>8 DEF reachedEnd, upTo
    <2>4. initial < EndAt => initial .. EndAt \subseteq completed
      <3>1. IncompleteRanges(completed, initial, EndAt) = {} BY <1>8, <2>3
      <3>2. EndAt \in Int /\ EndAt <= EndAt BY <1>1 DEF EndTypes
      <3> QED BY <1>1, <2>3, <3>1, <3>2, NothingMissing
    <2>5. EndedComplete' BY <1>5, <2>1, <2>3, <2>4 DEF EndedComplete
    <2> QED BY <1>6, <2>2, <2>5
  <1> QED BY <1>3, <1>7, <1>8

\* The other steps of the loop.
LEMMA RangeLoopStepEnd ==
    ASSUME RangeInv, RangeLoopStep
    PROVE  BelowEnd' /\ AboveStart' /\ EndedComplete'
  <1>1. EndTypes /\ TypeOK /\ BelowEnd /\ AboveStart
    BY EndTypesHold DEF RangeInv, SafetyInv
  <1>2. CASE ReceiveLatestInRange BY <1>2, ReceiveLatestInRangeEnd
  <1>3. CASE FailInitialBlock /\ UNCHANGED finished
    <2>1. EndedComplete' BY <1>3 DEF FailInitialBlock, RangeInv, EndedComplete
    <2>2. CASE ProcessEnds(file)
      <3>1. writes' = writes BY <1>3 DEF FailInitialBlock
      <3> QED BY <2>1, <2>2, <3>1, ProcessEndsEnd
    <2>3. CASE UNCHANGED <<todo, pools, store>>
      <3>1. UNCHANGED <<initial, completed, file, writes, todo, pools>>
        BY <1>3, <2>3 DEF FailInitialBlock, store
      <3>2. BelowEnd' BY <1>1, <3>1, BelowEndKept DEF BelowEnd
      <3> QED BY <1>1, <2>1, <3>1, <3>2 DEF AboveStart
    <2> QED BY <1>3, <2>2, <2>3 DEF FailInitialBlock
  <1>4. CASE (Start \/ ReceiveInitialBlock) /\ UNCHANGED finished
    <2>1. EndedComplete' BY <1>4 DEF Start, ReceiveInitialBlock, RangeInv, EndedComplete
    <2>2. UNCHANGED <<completed, file, writes, todo, pools>>
      BY <1>4 DEF Start, ReceiveInitialBlock
    <2>3. BelowEnd' BY <1>1, <2>2, BelowEndKept DEF BelowEnd
    <2>4. initial' = initial \/ (completed = {} /\ (~StartAt.latest => initial' = StartAt.n))
      BY <1>4 DEF Start, ReceiveInitialBlock, InitialBlockFor, RangeInv, SafetyInv, LoopInv
    <2>5. AboveStart' BY <1>1, <2>2, <2>4 DEF AboveStart
    <2> QED BY <2>1, <2>3, <2>5
  <1>5. CASE (FailLatest \/ PoolAborts \/ EndBackoff \/ EndSleep) /\ UNCHANGED finished
    <2>1. EndedComplete'
      BY <1>5 DEF FailLatest, PoolAborts, EndBackoff, EndSleep, RangeInv, EndedComplete
    <2>2. UNCHANGED <<initial, completed, file, writes, pools>> /\ todo' \subseteq todo
      BY <1>5 DEF FailLatest, PoolAborts, EndBackoff, EndSleep, CatchError, RoundEnds,
                  LoopEnds, store
    <2>3. BelowEnd' BY <1>1, <2>2, BelowEndKept DEF BelowEnd
    <2> QED BY <1>1, <2>1, <2>2, <2>3 DEF AboveStart
  <1>6. CASE PoolResolves /\ UNCHANGED finished
    <2> DEFINE ps == [pools EXCEPT ![current] = FreePool]
    <2>1. EndedComplete' BY <1>6 DEF PoolResolves, RangeInv, EndedComplete
    <2>2. EnterRange(todo, ps) /\ UNCHANGED <<initial, completed, file, writes>>
      BY <1>6 DEF PoolResolves, store
    <2>3. pools \in [Pool -> PoolRecord] /\ todo \subseteq BlockSpan /\ ExactIn(pools)
      BY <1>1 DEF TypeOK, RangeInv
    <2>4. ps \in [Pool -> PoolRecord] BY <2>3, CurrentExact
    <2>5. \A p \in Pool : ps[p] \in {pools[p], FreePool} BY <2>3
    <2> HIDE DEF ps
    <2>6. EndAt # NoBlock => \A p \in Pool : Below(ps[p])
      BY <1>1, <2>5, FreeBelow DEF BelowEnd
    <2>7. EndAt # NoBlock => /\ \A r \in todo' : r.to <= EndAt
                             /\ \A p \in Pool : Below(pools'[p])
      BY <1>1, <2>2, <2>3, <2>4, <2>6, EnterRangeBelow DEF BelowEnd
    <2>8. BelowEnd' BY <1>1, <2>2, <2>7, BelowEndKept
    <2> QED BY <1>1, <2>1, <2>2, <2>8 DEF AboveStart
  <1>7. CASE PoolRejects /\ UNCHANGED finished
    <2>1. EndedComplete' BY <1>7 DEF PoolRejects, RangeInv, EndedComplete
    <2>2. UNCHANGED <<initial, completed, file, writes>> /\ todo' = {}
      BY <1>7 DEF PoolRejects, CatchError, RoundEnds, store
    <2>3. ASSUME NEW p \in Pool
          PROVE  Below(pools'[p]) \/ pools'[p].tasks = pools[p].tasks
      <3> DEFINE pool == pools[p]
                 new == [pool EXCEPT !.outcome = "given up"]
      <3>1. pool \in PoolRecord /\ pools \in [Pool -> PoolRecord] BY <1>1 DEF TypeOK
      <3>2. \/ pools' = [pools EXCEPT ![current] = FreePool]
            \/ pools' = [pools EXCEPT ![current] =
                           [pools[current] EXCEPT !.outcome = "given up"]]
        BY <1>7 DEF PoolRejects
      <3>3. pools'[p] \in {pool, FreePool, new} BY <3>1, <3>2, Zenon
      <3> HIDE DEF pool
      <3>4. new.tasks = pool.tasks BY <3>1 DEF PoolRecord
      <3> HIDE DEF new
      <3>5. Below(pools'[p]) \/ pools'[p].tasks = pool.tasks BY <3>3, <3>4, FreeBelow
      <3> QED BY <3>5 DEF pool
    <2>4. EndAt # NoBlock => \A p \in Pool : Below(pools'[p])
      BY <1>1, <2>3 DEF BelowEnd, Below
    <2>5. BelowEnd' BY <1>1, <2>2, <2>4, BelowEndKept
    <2> QED BY <1>1, <2>1, <2>2, <2>5 DEF AboveStart
  <1> QED BY <1>2, <1>3, <1>4, <1>5, <1>6, <1>7 DEF RangeLoopStep

\* The steps of the process and of the chain.
LEMMA RangeProcessStepEnd ==
    ASSUME RangeInv,
           \/ UNCHANGED finished /\ (Shutdown \/ Restart \/ NewBlock)
           \/ SaveRangeAndExit \/ RangeCrash
    PROVE  BelowEnd' /\ AboveStart' /\ EndedComplete'
  <1>1. EndTypes /\ TypeOK /\ BelowEnd /\ AboveStart
    BY EndTypesHold DEF RangeInv, SafetyInv
  <1>2. CASE UNCHANGED finished /\ (Restart \/ NewBlock)
    <2>1. EndedComplete' BY <1>2 DEF Restart, NewBlock, RangeInv, EndedComplete, loop, store
    <2>2. UNCHANGED <<initial, completed, file, writes, todo, pools>>
      BY <1>2 DEF Restart, NewBlock, loop, store
    <2>3. BelowEnd' BY <1>1, <2>2, BelowEndKept DEF BelowEnd
    <2> QED BY <1>1, <2>1, <2>2, <2>3 DEF AboveStart
  <1>3. CASE UNCHANGED finished /\ Shutdown
    <2>1. EndedComplete' BY <1>3 DEF Shutdown, RangeInv, EndedComplete, loop, store
    <2>2. UNCHANGED <<initial, completed, file, writes, todo>>
      BY <1>3 DEF Shutdown, loop, store
    <2>3. ASSUME NEW p \in Pool PROVE pools'[p].tasks = pools[p].tasks
      <3> DEFINE pool == pools[p]
                 new == [pool EXCEPT !.outcome = "abort"]
      <3>1. pool \in PoolRecord BY <1>1 DEF TypeOK
      <3>2. pools'[p] = pool \/ pools'[p] = new BY <1>3 DEF Shutdown
      <3> HIDE DEF pool
      <3>3. new.tasks = pool.tasks BY <3>1 DEF PoolRecord
      <3> HIDE DEF new
      <3>4. pools'[p].tasks = pool.tasks BY <3>2, <3>3
      <3> QED BY <3>4 DEF pool
    <2>4. EndAt # NoBlock => \A p \in Pool : Below(pools'[p])
      BY <1>1, <2>3 DEF BelowEnd, Below
    <2>5. BelowEnd' BY <1>1, <2>2, <2>4, BelowEndKept DEF BelowEnd
    <2> QED BY <1>1, <2>1, <2>2, <2>5 DEF AboveStart
  <1>4. CASE SaveRangeAndExit \/ RangeCrash
    <2>1. ~finished' BY <1>4 DEF SaveRangeAndExit, RangeCrash
    <2>2. PICK saved \in {file, [initial |-> initial, completed |-> completed]} :
            ProcessEnds(saved)
      BY <1>4 DEF SaveRangeAndExit, SaveAndExit, RangeCrash, Crash
    <2>3. writes' = writes BY <1>4 DEF SaveRangeAndExit, SaveAndExit, RangeCrash, Crash
    <2> QED BY <2>1, <2>2, <2>3, ProcessEndsEnd DEF EndedComplete
  <1> QED BY <1>2, <1>3, <1>4

-----------------------------------------------------------------------------
(* The theorems                                                            *)

\* RangeInv holds in every state of every behaviour: the invariant of the block
\* watcher, exact counts of running tasks, and what is known of start and end.
THEOREM RangeInvariant == RangeSpec => []RangeInv
  <1>1. RangeInit => RangeInv
    <2> SUFFICES ASSUME RangeInit PROVE RangeInv
      OBVIOUS
    <2>1. Init /\ ~finished BY DEF RangeInit
    <2>2. /\ SafetyInv /\ ExactIn(pools)
      BY <2>1, InitSafe, FreeExact DEF Init, ExactIn
    <2>3. /\ initial = NoBlock /\ completed = {} /\ todo = {} /\ file.initial = NoBlock
          /\ \A p \in Pool : pools[p] = FreePool
          /\ \A b \in Block : writes[b] = 0
      BY <2>1 DEF Init
    <2>4. BelowEnd BY <2>3, FreeBelow DEF BelowEnd
    <2>5. AboveStart BY <2>3 DEF AboveStart
    <2>6. EndedComplete BY <2>1 DEF EndedComplete
    <2> QED BY <2>2, <2>4, <2>5, <2>6 DEF RangeInv
  <1>2. RangeInv /\ [RangeNext]_rangeVars => RangeInv'
    <2> SUFFICES ASSUME RangeInv, [RangeNext]_rangeVars PROVE RangeInv'
      OBVIOUS
    <2>1. SafetyInv' /\ ExactIn(pools)'
      BY SharedInvariants DEF RangeInv
    <2>2. BelowEnd' /\ AboveStart' /\ EndedComplete'
      <3>1. CASE RangeLoopStep BY <3>1, RangeLoopStepEnd
      <3>2. CASE \E p \in Pool : \E i \in DOMAIN pools[p].tasks : RangeChunkStep(p, i)
        <4>1. PICK p \in Pool : \E i \in DOMAIN pools[p].tasks : RangeChunkStep(p, i)
          BY <3>2
        <4>2. PICK i \in DOMAIN pools[p].tasks : RangeChunkStep(p, i) BY <4>1
        <4>3. ChunkKeeps(p, i) BY <4>2, RangeChunkStepKeeps DEF RangeInv
        <4> QED BY <4>3, ChunkStepEnd
      <3>3. CASE \/ UNCHANGED finished /\ (Shutdown \/ Restart \/ NewBlock)
                 \/ SaveRangeAndExit \/ RangeCrash
        BY <3>3, RangeProcessStepEnd
      <3>4. CASE UNCHANGED rangeVars
        <4>1. UNCHANGED <<initial, completed, file, writes, todo, pools, pc, finished>>
          BY <3>4 DEF rangeVars
        <4>2. BelowEnd' BY <4>1, BelowEndKept DEF RangeInv, BelowEnd
        <4> QED BY <4>1, <4>2 DEF RangeInv, AboveStart, EndedComplete
      <3> QED BY <3>1, <3>2, <3>3, <3>4 DEF RangeNext
    <2> QED BY <2>1, <2>2 DEF RangeInv
  <1> QED BY <1>1, <1>2, PTL DEF RangeSpec

\* At least once: what the checkpoint of a balance or NFT watcher has as complete
\* was written to the output, also what a shutdown did not keep it from writing.
THEOREM CompletedWereOutput == RangeSpec => []CompletedWereWritten
  <1>1. RangeInv => CompletedWereWritten BY DEF RangeInv, SafetyInv
  <1> QED BY <1>1, RangeInvariant, PTL

\* The calls of parallel() keep their limit after the end as well, when the tasks
\* left in a queue return without having begun.
THEOREM RangeCallsKeepTheirLimit == RangeSpec => []CallWithinLimit
  <1>1. RangeInv => CallWithinLimit
    BY DEF RangeInv, SafetyInv, PoolsInv, GoodPools, GoodPool, ExactIn, Exact, CallWithinLimit
  <1> QED BY <1>1, RangeInvariant, PTL

\* No block beyond endAt is ever requested (start of balancewatcher.ts and
\* nftwatcher.ts, which cut the latest block at endAt).
THEOREM NothingIsPastEnd == RangeSpec => []NothingPastEnd
  <1>1. RangeInv => NothingPastEnd
    <2> SUFFICES ASSUME RangeInv, EndAt # NoBlock, NEW p \in Pool,
                        NEW i \in DOMAIN pools[p].tasks, NEW b \in pools[p].tasks[i].blocks
                 PROVE  b <= EndAt
      BY DEF NothingPastEnd
    <2> DEFINE t == pools[p].tasks[i]
    <2>1. GoodTask(t, initial, head) /\ t.chunk.to <= EndAt
      BY DEF RangeInv, SafetyInv, PoolsInv, GoodPools, GoodPool, BelowEnd, Below
    <2>2. b \in t.chunk.from .. t.chunk.to /\ t.chunk \in BlockSpan
      BY <2>1 DEF GoodTask, Task, blockRangeToSet
    <2>3. EndAt \in Int BY EndAssumption DEF NoBlock
    <2> HIDE DEF t
    <2> QED BY <2>1, <2>2, <2>3 DEF BlockSpan, Block
  <1> QED BY <1>1, RangeInvariant, PTL

\* A watcher that stops by itself has completed and output exactly the blocks from
\* its initial block to endAt: whatever failed, was aborted, crashed or was started
\* again before, and however far the latest block it saw lagged behind.
THEOREM StopsWhenDone == RangeSpec => []FinishedExactly
  <1>1. RangeInv => FinishedExactly
    <2> SUFFICES ASSUME RangeInv, finished, initial < EndAt
                 PROVE  /\ completed = initial .. EndAt
                        /\ \A b \in completed : writes[b] > 0
                        /\ \A b \in Block \ completed :
                             writes[b] > 0 => StartAt.latest /\ b < initial
      BY DEF FinishedExactly
    <2>1. EndTypes /\ EndAt # NoBlock /\ pc = "ended" /\ initial .. EndAt \subseteq completed
      BY EndTypesHold DEF RangeInv, EndedComplete
    <2>2. initial \in Nat BY <2>1, PollingMeansStarted DEF RangeInv, Before
    <2>3. \A b \in completed : b \in Int /\ initial <= b /\ b <= EndAt
      BY <2>1 DEF RangeInv, BelowEnd, AboveStart, EndTypes
    <2>4. completed = initial .. EndAt
      <3>1. initial \in Int /\ EndAt \in Int BY <2>1 DEF EndTypes
      <3>2. \A b \in completed : b \in initial .. EndAt BY <2>3, <3>1
      <3> QED BY <2>1, <3>2
    <2>5. \A b \in completed : writes[b] > 0
      BY DEF RangeInv, SafetyInv, CompletedWereWritten
    <2>6. ASSUME NEW b \in Block \ completed, writes[b] > 0
          PROVE  StartAt.latest /\ b < initial
      <3>1. b \in Int /\ b <= EndAt BY <2>1, <2>6 DEF RangeInv, BelowEnd, EndTypes
      <3>2. b < initial BY <2>1, <2>4, <2>6, <3>1 DEF EndTypes
      <3>3. ~StartAt.latest => initial = StartAt.n /\ StartAt.n <= b
        BY <2>2, <2>6 DEF RangeInv, AboveStart, NoBlock
      <3> QED BY <2>1, <3>1, <3>2, <3>3 DEF EndTypes
    <2> QED BY <2>4, <2>5, <2>6
  <1> QED BY <1>1, RangeInvariant, PTL

-----------------------------------------------------------------------------
(* No request after the shutdown                                           *)

\* No task of the call is at a request that it was not at before.
NoNewRequest(new, pool) ==
    \A i \in DOMAIN new.tasks :
        new.tasks[i].pc \in {"request", "txs"} =>
            i \in DOMAIN pool.tasks /\ pool.tasks[i].pc = new.tasks[i].pc

QuietCalls == \A p \in Pool : NoNewRequest(pools'[p], pools[p])

LEMMA UpdateQuiet ==
    ASSUME TypeOK, NEW p \in Pool, NEW i \in DOMAIN pools[p].tasks, NEW t,
           t.pc \notin {"request", "txs"}, update(p, i, t)
    PROVE  QuietCalls
  <1> DEFINE pool == pools[p]
             new == [tasks |-> [pool.tasks EXCEPT ![i] = t], started |-> pool.started,
                     running |-> pool.running, outcome |-> pool.outcome]
  <1>1. pool \in PoolRecord /\ pools \in [Pool -> PoolRecord] BY DEF TypeOK
  <1>2. pools' = [pools EXCEPT ![p] = new]
    <2>1. [pool EXCEPT !.tasks[i] = t] = new BY <1>1, TaskOfCallChanged
    <2> QED BY <2>1 DEF update
  <1>3. NoNewRequest(new, pool)
    <2>1. /\ DOMAIN new.tasks = DOMAIN pool.tasks
          /\ \A j \in DOMAIN pool.tasks : new.tasks[j] = IF j = i THEN t ELSE pool.tasks[j]
      OBVIOUS
    <2> HIDE DEF new
    <2> QED BY <2>1 DEF NoNewRequest
  <1> HIDE DEF new
  <1>4. ASSUME NEW q \in Pool PROVE NoNewRequest(pools'[q], pools[q])
    <2>1. CASE q = p BY <1>1, <1>2, <1>3, <2>1
    <2>2. CASE q # p
      <3>1. pools'[q] = pools[q] BY <1>1, <1>2, <2>2
      <3> QED BY <3>1 DEF NoNewRequest
    <2> QED BY <2>1, <2>2
  <1> QED BY <1>4 DEF QuietCalls

LEMMA SettleQuiet ==
    ASSUME SafetyInv, ~active, NEW p \in Pool, NEW i \in DOMAIN pools[p].tasks,
           NEW result \in {"ok", "err"}, settle(p, i, result)
    PROVE  QuietCalls
  <1> DEFINE pool == pools[p]
             ended == endTask(pool, i, result)
             t == [pool.tasks[i] EXCEPT !.pc = result, !.blocks = {}]
  <1>1. /\ pools \in [Pool -> PoolRecord] /\ pool \in PoolRecord /\ pool.tasks[i] \in Task
    BY DEF SafetyInv, TypeOK, PoolsInv, GoodPools, GoodPool, GoodTask
  <1>2. ended.tasks = [pool.tasks EXCEPT ![i] = t]
    <2>1. ended = [tasks |-> [pool.tasks EXCEPT ![i] = t], started |-> pool.started,
                   running |-> pool.running - 1, outcome |-> outcomeAfter(pool, i, result)]
      BY <1>1, TaskOfCallEnded, Zenon
    <2> HIDE DEF ended, t, pool
    <2> QED BY <2>1
  <1>3. t.pc = result BY <1>1, TaskFields, ZenonT(60)
  <1>4. pools' = [pools EXCEPT ![p] =
           IF ended.outcome = "given up" /\ ended.running = 0 THEN FreePool ELSE ended]
    BY DEF settle, nextTasks
  <1>5. i \in DOMAIN pool.tasks OBVIOUS
  <1>6. pools[p] = pool OBVIOUS
  <1> HIDE DEF ended, t, pool
  <1>7. NoNewRequest(ended, pool)
    <2>1. /\ DOMAIN ended.tasks = DOMAIN pool.tasks
          /\ \A j \in DOMAIN pool.tasks : ended.tasks[j] = IF j = i THEN t ELSE pool.tasks[j]
      BY <1>2
    <2> QED BY <1>3, <2>1 DEF NoNewRequest
  <1>8. NoNewRequest(FreePool, pool)
    <2>1. DOMAIN FreePool.tasks = {} BY DEF FreePool
    <2> QED BY <2>1 DEF NoNewRequest
  <1>9. ASSUME NEW q \in Pool PROVE NoNewRequest(pools'[q], pools[q])
    <2>1. CASE q = p BY <1>1, <1>4, <1>6, <1>7, <1>8, <2>1
    <2>2. CASE q # p
      <3>1. pools'[q] = pools[q] BY <1>1, <1>4, <2>2
      <3> QED BY <3>1 DEF NoNewRequest
    <2> QED BY <2>1, <2>2
  <1> QED BY <1>9 DEF QuietCalls

LEMMA SameCallsQuiet ==
    ASSUME \A p \in Pool : pools'[p].tasks = pools[p].tasks \/ pools'[p] = FreePool
    PROVE  QuietCalls
  <1>1. DOMAIN FreePool.tasks = {} BY DEF FreePool
  <1> HIDE DEF FreePool
  <1> QED BY <1>1 DEF QuietCalls, NoNewRequest

\* The steps of a chunk of a watcher that is shut down.
LEMMA ChunkStepQuiet ==
    ASSUME SafetyInv, ~active, NEW p \in Pool, NEW i \in DOMAIN pools[p].tasks,
           RangeChunkStep(p, i)
    PROVE  QuietCalls
  <1> DEFINE t == pools[p].tasks[i]
  <1>1. TypeOK /\ t \in Task
    BY DEF SafetyInv, PoolsInv, GoodPools, GoodPool, GoodTask
  <1>2. CASE ReceiveBlocks(p, i)
    <2>1. update(p, i, [t EXCEPT !.pc = "block"]) BY <1>2 DEF ReceiveBlocks
    <2> HIDE DEF t
    <2>2. [t EXCEPT !.pc = "block"].pc = "block" BY <1>1, GoesOnChunk
    <2> DEFINE u == [t EXCEPT !.pc = "block"]
    <2>3. update(p, i, u) /\ u.pc \notin {"request", "txs"} BY <2>1, <2>2
    <2> HIDE DEF u
    <2> QED BY <1>1, <2>3, UpdateQuiet
  <1>3. CASE StartBlock(p, i)
    <2>1. t.pc = "block" BY <1>3 DEF StartBlock
    <2>2. PICK b \in Block : update(p, i, [t EXCEPT !.blocks = @ \ {b}])
      BY <1>3 DEF StartBlock
    <2> HIDE DEF t
    <2> DEFINE u == [t EXCEPT !.blocks = @ \ {b}]
    <2>3. u.pc = t.pc BY <1>1, GoesOnChunk
    <2>4. update(p, i, u) /\ u.pc \notin {"request", "txs"} BY <2>1, <2>2, <2>3
    <2> HIDE DEF u
    <2> QED BY <1>1, <2>4, UpdateQuiet
  <1>4. CASE WriteBlock(p, i)
    <2>1. PICK b \in Block : update(p, i, [t EXCEPT !.pc = "block", !.blocks = @ \ {b}])
      BY <1>4 DEF WriteBlock
    <2> HIDE DEF t
    <2> DEFINE u == [t EXCEPT !.pc = "block", !.blocks = @ \ {b}]
    <2>2. u.pc = "block" BY <1>1, GoesOnChunk
    <2>3. update(p, i, u) /\ u.pc \notin {"request", "txs"} BY <2>1, <2>2
    <2> HIDE DEF u
    <2> QED BY <1>1, <2>3, UpdateQuiet
  <1>5. CASE FinishRangeChunk(p, i)
    <2>1. settle(p, i, "ok") BY <1>5 DEF FinishRangeChunk, settleRange
    <2> QED BY <2>1, SettleQuiet
  <1>6. CASE AbortChunk(p, i)
    <2>1. settle(p, i, "err") BY <1>6 DEF AbortChunk
    <2> QED BY <2>1, SettleQuiet
  <1>7. ~(ReceiveTransactions(p, i) \/ RetryRangeChunk(p, i) \/ FailRangeAttempt(p, i))
    BY DEF ReceiveTransactions, RetryRangeChunk, RetryChunk, FailRangeAttempt
  <1> QED BY <1>2, <1>3, <1>4, <1>5, <1>6, <1>7 DEF RangeChunkStep

\* The steps of the loop of a watcher that is shut down.
LEMMA LoopStepQuiet ==
    ASSUME SafetyInv, ~active, RangeLoopStep
    PROVE  QuietCalls
  <1>1. pools \in [Pool -> PoolRecord] BY DEF SafetyInv, TypeOK
  <1>2. CASE PoolResolves
    <2>1. pools' = [pools EXCEPT ![current] = FreePool]
      BY <1>2 DEF PoolResolves, EnterRange
    <2>2. \A p \in Pool : pools'[p] = pools[p] \/ pools'[p] = FreePool BY <1>1, <2>1
    <2> HIDE DEF FreePool
    <2> QED BY <2>2, SameCallsQuiet
  <1>3. CASE PoolRejects
    <2>1. ASSUME NEW p \in Pool
          PROVE  pools'[p].tasks = pools[p].tasks \/ pools'[p] = FreePool
      <3> DEFINE pool == pools[p]
                 new == [pool EXCEPT !.outcome = "given up"]
      <3>1. pool \in PoolRecord BY <1>1
      <3>2. \/ pools' = [pools EXCEPT ![current] = FreePool]
            \/ pools' = [pools EXCEPT ![current] =
                           [pools[current] EXCEPT !.outcome = "given up"]]
        BY <1>3 DEF PoolRejects
      <3>3. pools'[p] \in {pool, FreePool, new} BY <1>1, <3>2, Zenon
      <3> HIDE DEF pool
      <3>4. new.tasks = pool.tasks BY <3>1 DEF PoolRecord
      <3> HIDE DEF new
      <3>5. pools'[p].tasks = pool.tasks \/ pools'[p] = FreePool BY <3>3, <3>4
      <3> QED BY <3>5 DEF pool
    <2> QED BY <2>1, SameCallsQuiet
  <1>4. CASE ~PoolResolves /\ ~PoolRejects
    <2>1. pools' = pools
      BY <1>4 DEF RangeLoopStep, Start, ReceiveInitialBlock, FailInitialBlock, FailLatest,
                  PoolAborts, EndBackoff, EndSleep, ReceiveLatestInRange, EnterRange
    <2> QED BY <2>1, SameCallsQuiet
  <1> QED BY <1>2, <1>3, <1>4

\* Once shutdown() has aborted them no chunk begins a request again, neither after
\* the wait of retry() nor from the queue of parallel().
THEOREM NothingIsRequestedAfterShutdown == RangeSpec => NoRequestAfterShutdown
  <1>1. RangeInv /\ [RangeNext]_rangeVars =>
          [~active /\ pc' # "down" =>
             \A p \in Pool : \A i \in DOMAIN pools'[p].tasks :
                 pools'[p].tasks[i].pc \in {"request", "txs"} =>
                     /\ i \in DOMAIN pools[p].tasks
                     /\ pools[p].tasks[i].pc = pools'[p].tasks[i].pc]_rangeVars
    <2> SUFFICES ASSUME RangeInv, RangeNext, ~active, pc' # "down"
                 PROVE  QuietCalls
      BY DEF QuietCalls, NoNewRequest
    <2>1. SafetyInv BY DEF RangeInv
    <2>2. CASE RangeLoopStep BY <2>1, <2>2, LoopStepQuiet
    <2>3. CASE \E p \in Pool : \E i \in DOMAIN pools[p].tasks : RangeChunkStep(p, i)
      BY <2>1, <2>3, ChunkStepQuiet
    <2>4. CASE \/ UNCHANGED finished /\ (Shutdown \/ Restart \/ NewBlock)
               \/ SaveRangeAndExit \/ RangeCrash
      <3>1. pools' = pools
        BY <2>4 DEF Shutdown, Restart, NewBlock, SaveRangeAndExit, SaveAndExit, RangeCrash,
                    Crash, ProcessEnds
      <3> QED BY <3>1, SameCallsQuiet
    <2> QED BY <2>2, <2>3, <2>4 DEF RangeNext
  <1> QED BY <1>1, RangeInvariant, PTL DEF RangeSpec, NoRequestAfterShutdown
=============================================================================
