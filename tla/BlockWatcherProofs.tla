-------------------------- MODULE BlockWatcherProofs --------------------------
(***************************************************************************)
(* Safety of the block watcher for every chain, configuration and bound.   *)
(*                                                                         *)
(* None of the safety properties is inductive by itself: that a block has  *)
(* been written follows from the typing of the output, that the file only  *)
(* grows follows from how far the checkpoint in memory is ahead of it, and *)
(* that no block above the head is requested follows from where the chunks *)
(* were cut.  SafetyInv joins these facts; BlockWatcher!Next preserves it. *)
(***************************************************************************)
EXTENDS BlockWatcher, BlockRangeProofs, SequenceTheorems

\* No parallel() call has a live chunk.
AllFree == [p \in Pool |-> FreePool]

\* A chunk between two blocks, its attempts not used up while it is to be retried.
GoodTask(t, low, high) ==
    /\ t \in Task
    /\ low <= t.chunk.from /\ t.chunk.to <= high
    /\ t.blocks \subseteq blockRangeToSet(t.chunk)
    /\ t.pc = "wait" => t.attempt < Attempts

\* A parallel() call whose tasks beyond the started ones are untouched.
GoodPool(pool, low, high) ==
    /\ pool \in PoolRecord
    /\ pool.started <= Len(pool.tasks)
    /\ pool.running <= maxParallelChunks
    /\ \A i \in DOMAIN pool.tasks :
         /\ GoodTask(pool.tasks[i], low, high)
         /\ i > pool.started => pool.tasks[i].pc = "queued" /\ pool.tasks[i].attempt = 0

GoodPools(ps, low, high) ==
    /\ ps \in [Pool -> PoolRecord]
    /\ \A p \in Pool : GoodPool(ps[p], low, high)

PoolsInv == GoodPools(pools, initial, head)

\* The loop has not begun to poll, or the process is not up.
Before == {"init", "initRequest", "down"}

LoopInv ==
    /\ pc # "pool" => todo = {}
    /\ \A r \in todo : initial <= r.from /\ r.to <= head
    /\ pc = "initRequest" => completed = {}
    /\ pc \in Before => pools = AllFree
    /\ initial \notin Nat => /\ completed = {} /\ pools = AllFree
                             /\ pc \in Before \cup {"rejected"}

StoreInv ==
    /\ \A b \in completed : b <= head
    /\ file.completed \subseteq completed
    /\ file.completed # {} => file.initial = initial

SafetyInv == TypeOK /\ PoolsInv /\ LoopInv /\ StoreInv /\ CompletedWereWritten

\* What a step has to say of the variables of the loop and of the calls.
LoopTypes ==
    /\ head \in Block /\ pc \in LoopState /\ active \in BOOLEAN /\ failures \in Nat
    /\ todo \subseteq BlockSpan /\ current \in Pool \cup {NoPool}
    /\ mishaps \in Nat /\ faults \in Nat /\ restarts \in Nat

-----------------------------------------------------------------------------
(* Calls of parallel()                                                     *)

\* A call that is good stays good while the chain grows.
LEMMA GoodPoolMonotone ==
    ASSUME NEW pool, NEW low \in Int, NEW high \in Int, NEW higher \in Int,
           high <= higher, GoodPool(pool, low, high)
    PROVE  GoodPool(pool, low, higher)
  <1>1. ASSUME NEW i \in DOMAIN pool.tasks
        PROVE  GoodTask(pool.tasks[i], low, higher)
    BY <1>1 DEF GoodPool, GoodTask, Task, BlockSpan, Block
  <1> QED BY <1>1 DEF GoodPool

\* A free call is good whatever the bounds.
LEMMA FreePoolGood ==
    ASSUME NEW low \in Int, NEW high \in Int
    PROVE  GoodPool(FreePool, low, high)
  BY ConfigAssumption DEF GoodPool, FreePool, PoolRecord, Outcome

\* What makes a record a call of parallel().
LEMMA PoolRecordOf ==
    ASSUME NEW tasks \in Seq(Task), NEW started \in Nat, NEW running \in Int,
           NEW outcome \in Outcome
    PROVE  [tasks |-> tasks, started |-> started, running |-> running,
            outcome |-> outcome] \in PoolRecord
  BY DEF PoolRecord

\* The types of the fields of a call.
LEMMA PoolRecordTypes ==
    ASSUME NEW pool \in PoolRecord
    PROVE  /\ pool.tasks \in Seq(Task) /\ Len(pool.tasks) \in Nat
           /\ DOMAIN pool.tasks = 1 .. Len(pool.tasks)
           /\ pool.started \in Nat /\ pool.running \in Int
           /\ pool.outcome \in Outcome
  <1>1. /\ pool.tasks \in Seq(Task)
        /\ pool.started \in Nat /\ pool.running \in Int /\ pool.outcome \in Outcome
    BY DEF PoolRecord
  <1> QED BY <1>1

\* A call is its four fields, also after a task of it has been changed.
LEMMA TaskOfCallChanged ==
    ASSUME NEW pool \in PoolRecord, NEW i, NEW t
    PROVE  [pool EXCEPT !.tasks[i] = t]
             = [tasks |-> [pool.tasks EXCEPT ![i] = t], started |-> pool.started,
                running |-> pool.running, outcome |-> pool.outcome]
  <1>1. pool = [tasks |-> pool.tasks, started |-> pool.started,
                running |-> pool.running, outcome |-> pool.outcome]
    BY DEF PoolRecord
  <1>2. ASSUME NEW s
        PROVE  [pool EXCEPT !.tasks = s]
                 = [tasks |-> s, started |-> pool.started,
                    running |-> pool.running, outcome |-> pool.outcome]
    BY <1>1
  <1>3. [pool EXCEPT !.tasks[i] = t] = [pool EXCEPT !.tasks = [pool.tasks EXCEPT ![i] = t]]
    OBVIOUS
  <1> QED BY <1>2, <1>3

\* And after a task of it has ended.
LEMMA TaskOfCallEnded ==
    ASSUME NEW pool \in PoolRecord, NEW i, NEW result
    PROVE  endTask(pool, i, result)
             = [tasks |-> [pool.tasks EXCEPT ![i] =
                            [pool.tasks[i] EXCEPT !.pc = result, !.blocks = {}]],
                started |-> pool.started, running |-> pool.running - 1,
                outcome |-> outcomeAfter(pool, i, result)]
  <1> DEFINE running == pool.running - 1
             outcome == outcomeAfter(pool, i, result)
             t == [pool.tasks[i] EXCEPT !.pc = result, !.blocks = {}]
             counted == [pool EXCEPT !.running = running]
             ended == [counted EXCEPT !.outcome = outcome]
  <1>0. endTask(pool, i, result) = [ended EXCEPT !.tasks[i] = t]
    BY DEF endTask
  <1> HIDE DEF running, outcome, t
  <1>1. pool = [tasks |-> pool.tasks, started |-> pool.started,
                running |-> pool.running, outcome |-> pool.outcome]
    BY DEF PoolRecord
  <1>2. counted = [tasks |-> pool.tasks, started |-> pool.started,
                   running |-> running, outcome |-> pool.outcome]
    BY <1>1
  <1> HIDE DEF counted
  <1>3. ended = [tasks |-> pool.tasks, started |-> pool.started,
                 running |-> running, outcome |-> outcome]
    BY <1>2
  <1> HIDE DEF ended
  <1>4. ASSUME NEW s
        PROVE  [ended EXCEPT !.tasks = s]
                 = [tasks |-> s, started |-> pool.started,
                    running |-> running, outcome |-> outcome]
    BY <1>3
  <1>5. [ended EXCEPT !.tasks[i] = t] = [ended EXCEPT !.tasks = [pool.tasks EXCEPT ![i] = t]]
    BY <1>3
  <1> QED BY <1>0, <1>4, <1>5 DEF running, outcome, t

\* A task is its four fields, also after it has ended.
LEMMA TaskFields ==
    ASSUME NEW t \in Task, NEW result
    PROVE  [t EXCEPT !.pc = result, !.blocks = {}]
             = [chunk |-> t.chunk, attempt |-> t.attempt, blocks |-> {}, pc |-> result]
  <1> DEFINE ended == [t EXCEPT !.pc = result]
  <1>1. ended = [chunk |-> t.chunk, attempt |-> t.attempt, blocks |-> t.blocks, pc |-> result]
    BY DEF Task
  <1> HIDE DEF ended
  <1>2. [ended EXCEPT !.blocks = {}]
          = [chunk |-> t.chunk, attempt |-> t.attempt, blocks |-> {}, pc |-> result]
    BY <1>1
  <1> QED BY <1>2 DEF ended

\* One more attempt keeps a chunk within its range and under the attempts.
LEMMA StartAttemptGood ==
    ASSUME TypeOK, NEW low \in Int, NEW high \in Int,
           NEW t, GoodTask(t, low, high), t.attempt < Attempts
    PROVE  /\ GoodTask(startAttempt(t), low, high)
           /\ startAttempt(t).pc = "request"
  <1>1. t \in Task /\ startAttempt(t).chunk = t.chunk
    BY DEF GoodTask, startAttempt, Task
  <1>2. startAttempt(t) \in Task
    <2>1. t.attempt + 1 \in 0 .. Attempts
      BY <1>1, ConfigAssumption DEF Task
    <2>2. blockRangeToSet(t.chunk) \ completed \subseteq Block
      BY <1>1, BoundAssumption DEF Task, BlockSpan, Block, blockRangeToSet
    <2> QED BY <1>1, <2>1, <2>2 DEF startAttempt, Task, Live
  <1>3. startAttempt(t).blocks \subseteq blockRangeToSet(t.chunk)
    BY <1>1 DEF startAttempt, Task
  <1>4. startAttempt(t).pc = "request"
    BY <1>1 DEF startAttempt, Task
  <1> QED BY <1>1, <1>2, <1>3, <1>4 DEF GoodTask

\* next() of parallel() starts no more tasks than are queued or fit the limit.
LEMMA NextTasksGood ==
    ASSUME TypeOK, NEW low \in Int, NEW high \in Int,
           NEW pool, GoodPool(pool, low, high)
    PROVE  GoodPool(nextTasks(pool), low, high)
  <1> DEFINE n == Min({Len(pool.tasks) - pool.started, maxParallelChunks - pool.running})
             begun == pool.started + 1 .. pool.started + n
             tasks == [i \in DOMAIN pool.tasks |-> IF i \in begun THEN startAttempt(pool.tasks[i])
                                                                 ELSE pool.tasks[i]]
  <1>1. /\ pool \in PoolRecord
        /\ pool.tasks \in Seq(Task) /\ pool.started \in Nat /\ pool.running \in Int
        /\ Len(pool.tasks) \in Nat /\ DOMAIN pool.tasks = 1 .. Len(pool.tasks)
    <2>1. pool \in PoolRecord BY DEF GoodPool
    <2> QED BY <2>1, PoolRecordTypes
  <1>2. /\ n \in Nat
        /\ n <= Len(pool.tasks) - pool.started /\ n <= maxParallelChunks - pool.running
    <2> DEFINE queued == Len(pool.tasks) - pool.started
               slots == maxParallelChunks - pool.running
    <2>1. queued \in Nat /\ slots \in Nat
      BY <1>1, ConfigAssumption DEF GoodPool
    <2> HIDE DEF queued, slots
    <2>2. queued \in Int /\ slots \in Int BY <2>1
    <2>3. /\ Min({queued, slots}) \in {queued, slots}
          /\ Min({queued, slots}) <= queued /\ Min({queued, slots}) <= slots
      BY <2>2, MinOfTwo
    <2>4. Min({queued, slots}) \in Nat BY <2>1, <2>3
    <2> QED BY <2>3, <2>4 DEF queued, slots
  <1>3. CASE ~active
    BY <1>3 DEF nextTasks
  <1>4. CASE active
    <2>1. nextTasks(pool) = [pool EXCEPT !.started = @ + n, !.running = @ + n, !.tasks = tasks]
      BY <1>1, <1>4 DEF nextTasks, PoolRecord
    <2> HIDE DEF n
    <2>2. ASSUME NEW i \in DOMAIN pool.tasks
          PROVE  /\ GoodTask(tasks[i], low, high)
                 /\ i > pool.started + n => tasks[i].pc = "queued" /\ tasks[i].attempt = 0
      <3>1. GoodTask(pool.tasks[i], low, high) BY DEF GoodPool
      <3>2. i > pool.started => pool.tasks[i].pc = "queued" /\ pool.tasks[i].attempt = 0
        BY DEF GoodPool
      <3>3. CASE i \in begun
        <4>1. pool.tasks[i].attempt < Attempts
          BY <1>1, <1>2, <3>2, <3>3, ConfigAssumption, SMTT(30)
        <4> QED BY <1>1, <1>2, <3>1, <3>3, <4>1, StartAttemptGood
      <3>4. CASE i \notin begun
        BY <1>1, <1>2, <3>1, <3>2, <3>4
      <3> QED BY <3>3, <3>4
    <2>3. tasks \in Seq(Task) /\ Len(tasks) = Len(pool.tasks) /\ DOMAIN tasks = DOMAIN pool.tasks
      <3>1. \A i \in 1 .. Len(pool.tasks) : tasks[i] \in Task BY <1>1, <2>2 DEF GoodTask
      <3>2. tasks = [i \in 1 .. Len(pool.tasks) |-> tasks[i]] BY <1>1
      <3> HIDE DEF tasks
      <3>3. tasks \in [1 .. Len(pool.tasks) -> Task] BY <3>1, <3>2
      <3> QED BY <1>1, <3>3
    <2> HIDE DEF tasks
    <2>4. nextTasks(pool) \in PoolRecord
      <3>1. nextTasks(pool) = [tasks |-> tasks, started |-> pool.started + n,
                               running |-> pool.running + n, outcome |-> pool.outcome]
        BY <1>1, <2>1 DEF PoolRecord
      <3>2. pool.started + n \in Nat /\ pool.running + n \in Int
        BY <1>1, <1>2
      <3>3. pool.outcome \in Outcome
        BY <1>1 DEF PoolRecord
      <3> QED BY <2>3, <3>1, <3>2, <3>3, PoolRecordOf
    <2>5. /\ nextTasks(pool).tasks = tasks
          /\ nextTasks(pool).started = pool.started + n
          /\ nextTasks(pool).running = pool.running + n
      BY <1>1, <2>1 DEF PoolRecord
    <2> QED BY <1>1, <1>2, <2>2, <2>3, <2>4, <2>5, ConfigAssumption, SMTT(30) DEF GoodPool
  <1> QED BY <1>3, <1>4

\* A call over a range before its first tasks are started.
CallOver(range) ==
    LET chunks == chunkedBlockRanges(range, blocksMaxChunkSize, chunkQueueMaxSize)
    IN [FreePool EXCEPT !.tasks = [i \in DOMAIN chunks |-> QueuedTask(chunks[i])],
                        !.outcome = "pending"]

\* Over a range between low and high its chunks lie between low and high.
LEMMA CallOverGood ==
    ASSUME NEW low \in Int, NEW high \in Int,
           NEW range \in BlockSpan, low <= range.from, range.to <= high
    PROVE  /\ GoodPool(CallOver(range), low, high)
           /\ CallOver(range).running = 0 /\ CallOver(range).outcome = "pending"
           /\ LET chunks == chunkedBlockRanges(range, blocksMaxChunkSize, chunkQueueMaxSize)
              IN /\ DOMAIN CallOver(range).tasks = 1 .. Len(chunks)
                 /\ \A i \in 1 .. Len(chunks) :
                      CallOver(range).tasks[i] = QueuedTask(chunks[i])
  <1> DEFINE chunks == chunkedBlockRanges(range, blocksMaxChunkSize, chunkQueueMaxSize)
             tasks == [i \in DOMAIN chunks |-> QueuedTask(chunks[i])]
             pool == [FreePool EXCEPT !.tasks = tasks, !.outcome = "pending"]
  <1>1. range \in IntRange /\ range.from <= range.to
    BY DEF BlockSpan, IntRange, Block
  <1>2. /\ chunks \in Seq(IntRange)
        /\ ChunksPartition(range, blocksMaxChunkSize, chunkQueueMaxSize)
    BY <1>1, ConfigAssumption, ChunksPartitionRange
  <1>3. \A i \in 1 .. Len(chunks) : /\ range.from <= chunks[i].from
                                   /\ chunks[i].from <= chunks[i].to
                                   /\ chunks[i].to <= range.to
    <2> SUFFICES ASSUME NEW i \in 1 .. Len(chunks)
                 PROVE  /\ range.from <= chunks[i].from
                        /\ chunks[i].from <= chunks[i].to
                        /\ chunks[i].to <= range.to
      OBVIOUS
    <2>1. chunks[i] \in IntRange BY <1>2
    <2>2. /\ blockRangeSize(chunks[i]) \in 1 .. blocksMaxChunkSize + 3
          /\ range.from <= chunks[i].from /\ chunks[i].to <= range.to
      BY <1>2 DEF ChunksPartition
    <2> QED BY <2>1, <2>2, ConfigAssumption DEF blockRangeSize, IntRange
  <1> HIDE DEF chunks
  <1>4. ASSUME NEW i \in 1 .. Len(chunks)
        PROVE  /\ GoodTask(QueuedTask(chunks[i]), low, high)
               /\ QueuedTask(chunks[i]).pc = "queued" /\ QueuedTask(chunks[i]).attempt = 0
    <2>1. chunks[i] \in IntRange BY <1>2
    <2>2. chunks[i] \in BlockSpan
      BY <1>3, <2>1, BoundAssumption DEF BlockSpan, Block, IntRange
    <2> QED BY <1>3, <2>1, <2>2, ConfigAssumption
            DEF GoodTask, QueuedTask, Task, BlockSpan, Block, IntRange
  <1>5. tasks \in Seq(Task) /\ Len(tasks) = Len(chunks) /\ DOMAIN tasks = 1 .. Len(chunks)
    BY <1>2, <1>4 DEF GoodTask
  <1>6. \A i \in 1 .. Len(chunks) : tasks[i] = QueuedTask(chunks[i])
    BY <1>2
  <1> HIDE DEF tasks
  <1>7. /\ pool \in PoolRecord
        /\ pool.tasks = tasks /\ pool.started = 0 /\ pool.running = 0
        /\ pool.outcome = "pending"
    <2> DEFINE filled == [FreePool EXCEPT !.tasks = tasks]
    <2>1. filled = [tasks |-> tasks, started |-> 0, running |-> 0, outcome |-> "free"]
      BY DEF FreePool
    <2> HIDE DEF filled
    <2>2. [filled EXCEPT !.outcome = "pending"]
             = [tasks |-> tasks, started |-> 0, running |-> 0, outcome |-> "pending"]
      BY <2>1
    <2>3. pool = [tasks |-> tasks, started |-> 0, running |-> 0, outcome |-> "pending"]
      BY <2>2 DEF filled
    <2> HIDE DEF pool
    <2>4. [tasks |-> tasks, started |-> 0, running |-> 0, outcome |-> "pending"] \in PoolRecord
      BY <1>5 DEF PoolRecord, Outcome
    <2> QED BY <2>3, <2>4
  <1> HIDE DEF pool
  <1>8. GoodPool(pool, low, high)
    BY <1>4, <1>5, <1>6, <1>7, ConfigAssumption DEF GoodPool
  <1>9. CallOver(range) = pool BY DEF CallOver, pool, tasks, chunks
  <1>10. DOMAIN pool.tasks = 1 .. Len(chunks)
         /\ \A i \in 1 .. Len(chunks) : pool.tasks[i] = QueuedTask(chunks[i])
    BY <1>5, <1>6, <1>7
  <1> QED BY <1>7, <1>8, <1>9, <1>10 DEF chunks

\* And so they do once it has begun.
LEMMA NewPoolGood ==
    ASSUME TypeOK, NEW low \in Int, NEW high \in Int,
           NEW range \in BlockSpan, low <= range.from, range.to <= high
    PROVE  GoodPool(newPool(range), low, high)
  <1>1. newPool(range) = nextTasks(CallOver(range)) BY DEF newPool, CallOver
  <1>2. GoodPool(CallOver(range), low, high) BY CallOverGood
  <1> QED BY <1>1, <1>2, NextTasksGood

\* Replacing one call by a good one.
LEMMA ReplacePool ==
    ASSUME NEW ps, NEW low, NEW high, GoodPools(ps, low, high),
           NEW p \in Pool, NEW pool, GoodPool(pool, low, high)
    PROVE  GoodPools([ps EXCEPT ![p] = pool], low, high)
  BY DEF GoodPools, GoodPool

\* Replacing a started task of a call by a good one.
LEMMA ReplaceTask ==
    ASSUME NEW low, NEW high, NEW pool, GoodPool(pool, low, high),
           NEW i \in DOMAIN pool.tasks, i <= pool.started,
           NEW t, GoodTask(t, low, high),
           NEW running \in Int, running <= maxParallelChunks,
           NEW outcome \in Outcome
    PROVE  GoodPool([tasks |-> [pool.tasks EXCEPT ![i] = t], started |-> pool.started,
                     running |-> running, outcome |-> outcome], low, high)
  <1> DEFINE tasks == [pool.tasks EXCEPT ![i] = t]
             new == [tasks |-> tasks, started |-> pool.started,
                     running |-> running, outcome |-> outcome]
  <1>1. /\ pool.tasks \in Seq(Task) /\ pool.started \in Nat
        /\ DOMAIN pool.tasks = 1 .. Len(pool.tasks)
    <2>1. pool \in PoolRecord BY DEF GoodPool
    <2> QED BY <2>1, PoolRecordTypes
  <1>2. t \in Task BY DEF GoodTask
  <1>3. /\ tasks \in Seq(Task) /\ Len(tasks) = Len(pool.tasks)
        /\ DOMAIN tasks = DOMAIN pool.tasks
    <2>1. i \in 1 .. Len(pool.tasks) BY <1>1
    <2>2. tasks \in Seq(Task) /\ Len(tasks) = Len(pool.tasks)
      BY <1>1, <1>2, <2>1, ExceptSeq
    <2> QED BY <2>2
  <1>4. \A j \in DOMAIN tasks : tasks[j] = IF j = i THEN t ELSE pool.tasks[j]
    BY <1>1
  <1>9. ~(i > pool.started)
    <2>1. i \in Int /\ pool.started \in Int BY <1>1
    <2> QED BY <2>1
  <1> HIDE DEF tasks
  <1>5. new \in PoolRecord BY <1>1, <1>3, PoolRecordOf
  <1>6. ASSUME NEW j \in DOMAIN tasks
        PROVE  /\ GoodTask(tasks[j], low, high)
               /\ j > pool.started => tasks[j].pc = "queued" /\ tasks[j].attempt = 0
    <2>1. CASE j = i
      <3>1. tasks[j] = t BY <1>4, <2>1
      <3> QED BY <1>9, <2>1, <3>1, Zenon
    <2>2. CASE j # i BY <1>3, <1>4, <2>2 DEF GoodPool
    <2> QED BY <2>1, <2>2
  <1>7. /\ new.tasks = tasks /\ new.started = pool.started /\ new.running = running
    OBVIOUS
  <1> HIDE DEF new
  <1>8. GoodPool(new, low, high)
    BY <1>3, <1>5, <1>6, <1>7 DEF GoodPool
  <1> QED BY <1>8 DEF new, tasks

\* A call whose promise settles is otherwise what it was.
LEMMA OutcomeChanged ==
    ASSUME NEW low, NEW high, NEW pool, GoodPool(pool, low, high), NEW outcome \in Outcome
    PROVE  GoodPool([pool EXCEPT !.outcome = outcome], low, high)
  <1> DEFINE new == [pool EXCEPT !.outcome = outcome]
  <1>1. pool \in PoolRecord BY DEF GoodPool
  <1>2. pool = [tasks |-> pool.tasks, started |-> pool.started,
                running |-> pool.running, outcome |-> pool.outcome]
    BY <1>1 DEF PoolRecord
  <1>3. new = [tasks |-> pool.tasks, started |-> pool.started,
               running |-> pool.running, outcome |-> outcome]
    BY <1>2
  <1>4. new \in PoolRecord
    <2>1. /\ pool.tasks \in Seq(Task) /\ pool.started \in Nat /\ pool.running \in Int
      BY <1>1, PoolRecordTypes
    <2>2. [tasks |-> pool.tasks, started |-> pool.started,
           running |-> pool.running, outcome |-> outcome] \in PoolRecord
      BY <2>1, PoolRecordOf
    <2> QED BY <1>3, <2>2
  <1>5. /\ new.tasks = pool.tasks /\ new.started = pool.started
        /\ new.running = pool.running
    BY <1>3
  <1> HIDE DEF new
  <1>6. GoodPool(new, low, high) BY <1>4, <1>5 DEF GoodPool
  <1> QED BY <1>6 DEF new

\* Only started tasks are ever live.
LEMMA LiveTaskStarted ==
    ASSUME NEW low, NEW high, NEW pool, GoodPool(pool, low, high),
           NEW i \in DOMAIN pool.tasks, pool.tasks[i].pc \in Live
    PROVE  i <= pool.started /\ GoodTask(pool.tasks[i], low, high)
  <1>1. pool.tasks \in Seq(Task) /\ pool.started \in Nat
    <2>1. pool \in PoolRecord BY DEF GoodPool
    <2> QED BY <2>1 DEF PoolRecord
  <1>2. pool.tasks[i].pc # "queued" BY DEF Live
  <1> QED BY <1>1, <1>2 DEF GoodPool

\* A live chunk that goes on leaves good calls behind.
LEMMA UpdateGood ==
    ASSUME TypeOK, PoolsInv, NEW p \in Pool, NEW i \in DOMAIN pools[p].tasks,
           pools[p].tasks[i].pc \in Live,
           NEW t, GoodTask(t, initial, head), update(p, i, t)
    PROVE  GoodPools(pools', initial, head)
  <1> DEFINE pool == pools[p]
             new == [tasks |-> [pool.tasks EXCEPT ![i] = t], started |-> pool.started,
                     running |-> pool.running, outcome |-> pool.outcome]
  <1>1. pool \in PoolRecord /\ GoodPool(pool, initial, head)
    BY DEF PoolsInv, GoodPools
  <1>2. pools' = [pools EXCEPT ![p] = new]
    <2>1. [pool EXCEPT !.tasks[i] = t] = new BY <1>1, TaskOfCallChanged
    <2> QED BY <2>1 DEF update
  <1>3. GoodPool(new, initial, head)
    <2>1. i <= pool.started BY <1>1, LiveTaskStarted
    <2>2. /\ pool.running \in Int /\ pool.running <= maxParallelChunks
          /\ pool.outcome \in Outcome
      <3>1. pool.running <= maxParallelChunks BY <1>1 DEF GoodPool
      <3> QED BY <1>1, <3>1, PoolRecordTypes
    <2> HIDE DEF pool
    <2>3. i \in DOMAIN pool.tasks BY DEF pool
    <2> QED BY <1>1, <2>1, <2>2, <2>3, ReplaceTask
  <1> HIDE DEF new
  <1> QED BY <1>2, <1>3, ReplacePool DEF PoolsInv

\* A live chunk that ends leaves a good call behind.
LEMMA EndedGood ==
    ASSUME NEW low, NEW high, NEW pool, GoodPool(pool, low, high),
           NEW i \in DOMAIN pool.tasks, pool.tasks[i].pc \in Live,
           NEW result \in {"ok", "err"}
    PROVE  GoodPool(endTask(pool, i, result), low, high)
  <1> DEFINE t == [pool.tasks[i] EXCEPT !.pc = result, !.blocks = {}]
             outcome == outcomeAfter(pool, i, result)
             new == [tasks |-> [pool.tasks EXCEPT ![i] = t], started |-> pool.started,
                     running |-> pool.running - 1, outcome |-> outcome]
  <1>1. /\ pool \in PoolRecord
        /\ pool.running \in Int /\ pool.running - 1 <= maxParallelChunks
    <2>1. pool \in PoolRecord BY DEF GoodPool
    <2>2. pool.running \in Int BY <2>1 DEF PoolRecord
    <2> QED BY <2>1, <2>2, ConfigAssumption DEF GoodPool
  <1>2. outcome \in Outcome
    BY <1>1, PoolRecordTypes DEF outcomeAfter, Outcome
  <1>3. i <= pool.started /\ GoodTask(pool.tasks[i], low, high)
    BY <1>1, LiveTaskStarted
  <1>4. GoodTask(t, low, high)
    <2>1. pool.tasks[i] \in Task BY <1>3 DEF GoodTask
    <2>2. t = [chunk |-> pool.tasks[i].chunk, attempt |-> pool.tasks[i].attempt,
               blocks |-> {}, pc |-> result]
      BY <2>1, TaskFields
    <2>3. t \in Task
      BY <2>1, <2>2 DEF Task
    <2> QED BY <1>3, <2>2, <2>3 DEF GoodTask
  <1>5. endTask(pool, i, result) = new
    BY <1>1, TaskOfCallEnded
  <1>6. GoodPool(new, low, high)
    <2> HIDE DEF outcome, t
    <2>1. pool.running - 1 \in Int BY <1>1
    <2> QED BY <1>1, <1>2, <1>3, <1>4, <2>1, ReplaceTask
  <1> QED BY <1>5, <1>6

\* So do the chunks that are started in its place.
LEMMA SettleGood ==
    ASSUME TypeOK, PoolsInv, NEW p \in Pool, NEW i \in DOMAIN pools[p].tasks,
           pools[p].tasks[i].pc \in Live,
           NEW result \in {"ok", "err"}, settle(p, i, result)
    PROVE  GoodPools(pools', initial, head)
  <1> DEFINE ended == endTask(pools[p], i, result)
  <1>1. GoodPool(ended, initial, head)
    <2>1. GoodPool(pools[p], initial, head) BY DEF PoolsInv, GoodPools
    <2> QED BY <2>1, EndedGood
  <1>2. pools' = [pools EXCEPT ![p] =
           IF nextTasks(ended).outcome = "given up" /\ nextTasks(ended).running = 0
             THEN FreePool ELSE nextTasks(ended)]
    BY DEF settle
  <1> HIDE DEF ended
  <1>3. initial \in Int /\ head \in Int
    BY BoundAssumption DEF TypeOK, SavedCheckpoint, Block
  <1>4. GoodPool(nextTasks(ended), initial, head)
    BY <1>1, <1>3, NextTasksGood
  <1>5. GoodPool(FreePool, initial, head)
    BY <1>3, FreePoolGood
  <1> QED BY <1>2, <1>4, <1>5, ReplacePool DEF PoolsInv

-----------------------------------------------------------------------------
(* Steps                                                                   *)

\* The invariant after a step that does not output or complete a block.
LEMMA StoreUntouched ==
    ASSUME SafetyInv, UNCHANGED <<initial, completed, file, writes>>,
           LoopTypes', head <= head',
           GoodPools(pools', initial, head'), LoopInv'
    PROVE  SafetyInv'
  <1>1. PoolsInv' BY DEF PoolsInv
  <1>2. TypeOK'
    <2>1. /\ pools' \in [Pool -> PoolRecord]
          /\ \A p \in Pool : pools'[p].started <= Len(pools'[p].tasks)
      BY DEF GoodPools, GoodPool
    <2>2. /\ [initial |-> initial', completed |-> completed'] \in SavedCheckpoint
          /\ file' \in SavedCheckpoint /\ writes' \in [Block -> Nat]
      BY DEF SafetyInv, TypeOK
    <2> QED BY <2>1, <2>2 DEF LoopTypes, TypeOK
  <1>3. StoreInv'
    <2>1. \A b \in completed' : b <= head'
      <3> SUFFICES ASSUME NEW b \in completed PROVE b <= head'
        OBVIOUS
      <3>1. b \in Int /\ head \in Int /\ head' \in Int /\ b <= head
        BY BoundAssumption DEF SafetyInv, TypeOK, SavedCheckpoint, StoreInv, Block, LoopTypes
      <3> QED BY <3>1
    <2> QED BY <2>1 DEF SafetyInv, StoreInv
  <1>4. CompletedWereWritten' BY DEF SafetyInv, CompletedWereWritten
  <1> QED BY <1>1, <1>2, <1>3, <1>4 DEF SafetyInv

\* While a chunk is live the loop has polled, so the initial block is known.
LEMMA LiveChunkMeansPolling ==
    ASSUME SafetyInv, NEW p \in Pool, NEW i \in DOMAIN pools[p].tasks
    PROVE  pools # AllFree /\ initial \in Nat /\ pc \notin Before
  <1>1. DOMAIN AllFree[p].tasks = {} BY DEF AllFree, FreePool
  <1> QED BY <1>1 DEF SafetyInv, LoopInv

\* A chunk that goes on: its state changes, it drops blocks, it may wait for
\* another attempt if there is one.
LEMMA GoodTaskGoesOn ==
    ASSUME NEW low, NEW high, NEW t, GoodTask(t, low, high),
           NEW state \in Live, NEW blocks, blocks \subseteq t.blocks,
           state = "wait" => t.attempt < Attempts
    PROVE  GoodTask([t EXCEPT !.pc = state, !.blocks = blocks], low, high)
  <1> DEFINE moved == [t EXCEPT !.pc = state]
             new == [moved EXCEPT !.blocks = blocks]
  <1>1. t \in Task BY DEF GoodTask
  <1>2. moved = [chunk |-> t.chunk, attempt |-> t.attempt, blocks |-> t.blocks, pc |-> state]
    BY <1>1 DEF Task
  <1> HIDE DEF moved
  <1>3. new = [chunk |-> t.chunk, attempt |-> t.attempt, blocks |-> blocks, pc |-> state]
    BY <1>2
  <1>4. new \in Task BY <1>1, <1>3 DEF Task
  <1>5. GoodTask(new, low, high) BY <1>3, <1>4 DEF GoodTask
  <1> QED BY <1>5 DEF moved

\* A step of a chunk that neither outputs nor completes a block.
LEMMA ChunkStepFrame ==
    ASSUME SafetyInv, NEW p \in Pool, NEW i \in DOMAIN pools[p].tasks,
           GoodPools(pools', initial, head), faults' \in Nat,
           UNCHANGED <<head, loop, active, store, writes, mishaps, restarts>>
    PROVE  SafetyInv'
  <1>1. initial \in Nat /\ pc \notin Before BY LiveChunkMeansPolling
  <1>2. LoopInv' BY <1>1 DEF SafetyInv, LoopInv, loop, store
  <1>3. LoopTypes' BY DEF SafetyInv, TypeOK, LoopTypes, loop
  <1>4. head <= head' /\ GoodPools(pools', initial, head')
    BY BoundAssumption DEF SafetyInv, TypeOK, Block
  <1> QED BY <1>2, <1>3, <1>4, StoreUntouched DEF store

\* A chunk is through with a block, which is output in the step that completes it.
LEMMA BlockDoneSafe ==
    ASSUME SafetyInv, NEW p \in Pool, NEW i \in DOMAIN pools[p].tasks,
           pools[p].tasks[i].pc = "resume", NEW b \in Block, IsNext(b, pools[p].tasks[i]),
           update(p, i, [pools[p].tasks[i] EXCEPT !.pc = "block", !.blocks = @ \ {b}]),
           UNCHANGED <<head, faults, pc, failures, todo, current, active, initial, file,
                       mishaps, restarts>>,
           \/ UNCHANGED <<writes, completed>>
           \/ writes' = [writes EXCEPT ![b] = @ + 1] /\ completed' = completed \cup {b}
    PROVE  SafetyInv'
  <1> DEFINE t == pools[p].tasks[i]
  <1>1. /\ IsNext(b, t)
        /\ update(p, i, [t EXCEPT !.pc = "block", !.blocks = @ \ {b}])
    OBVIOUS
  <1>2. /\ t.pc = "resume"
        /\ UNCHANGED <<head, faults, pc, failures, todo, current, active, initial, file,
                       mishaps, restarts>>
    OBVIOUS
  <1>3. t.pc \in Live BY <1>2 DEF Live
  <1>4. GoodPool(pools[p], initial, head) BY DEF SafetyInv, PoolsInv, GoodPools
  <1>5. GoodTask(t, initial, head) BY <1>3, <1>4, LiveTaskStarted
  <1>6. initial \in Nat /\ pc \notin Before BY LiveChunkMeansPolling
  <1>7. GoodPools(pools', initial, head)
    <2>1. "block" \in Live /\ "block" # "wait" BY DEF Live
    <2>2. GoodTask([t EXCEPT !.pc = "block", !.blocks = @ \ {b}], initial, head)
      BY <1>5, <2>1, GoodTaskGoesOn
    <2> HIDE DEF t
    <2>3. pools[p].tasks[i].pc \in Live BY <1>3 DEF t
    <2> QED BY <1>1, <2>2, <2>3, UpdateGood DEF SafetyInv
  <1>8. b <= head
    <2>1. b \in t.blocks /\ t.blocks \subseteq blockRangeToSet(t.chunk) /\ t.chunk.to <= head
      BY <1>1, <1>5 DEF IsNext, GoodTask
    <2>2. t.chunk.from \in Int /\ t.chunk.to \in Int
      BY <1>5 DEF GoodTask, Task, BlockSpan, Block
    <2>3. b \in t.chunk.from .. t.chunk.to BY <2>1 DEF blockRangeToSet
    <2>4. head \in Int BY BoundAssumption DEF SafetyInv, TypeOK, Block
    <2> QED BY <2>1, <2>2, <2>3, <2>4
  <1> HIDE DEF t
  <1>9. CASE UNCHANGED <<writes, completed>>
    <2>1. faults' \in Nat BY <1>2 DEF SafetyInv, TypeOK
    <2> QED BY <1>2, <1>7, <1>9, <2>1, ChunkStepFrame DEF loop, store
  <1>10. CASE /\ writes' = [writes EXCEPT ![b] = @ + 1]
              /\ completed' = completed \cup {b}
    <2>1. /\ writes \in [Block -> Nat] /\ completed \subseteq Block
          /\ file \in SavedCheckpoint /\ initial \in Int
      BY DEF SafetyInv, TypeOK, SavedCheckpoint
    <2>2. writes' \in [Block -> Nat] /\ writes'[b] > 0
          /\ \A c \in Block : writes[c] > 0 => writes'[c] > 0
      BY <1>10, <2>1
    <2>3. PoolsInv' BY <1>2, <1>7 DEF PoolsInv
    <2>4. TypeOK'
      <3>1. /\ pools' \in [Pool -> PoolRecord]
            /\ \A q \in Pool : pools'[q].started <= Len(pools'[q].tasks)
        BY <1>7 DEF GoodPools, GoodPool
      <3>2. [initial |-> initial', completed |-> completed'] \in SavedCheckpoint
        BY <1>2, <1>10, <2>1 DEF SavedCheckpoint
      <3> QED BY <1>2, <2>2, <3>1, <3>2 DEF SafetyInv, TypeOK
    <2>5. LoopInv' BY <1>2, <1>6 DEF SafetyInv, LoopInv, Before
    <2>6. StoreInv' BY <1>2, <1>8, <1>10 DEF SafetyInv, StoreInv
    <2>7. CompletedWereWritten'
      <3> SUFFICES ASSUME NEW c \in completed' \cup file'.completed
                   PROVE  writes'[c] > 0
        BY DEF CompletedWereWritten
      <3>1. CASE c = b BY <2>2, <3>1
      <3>2. CASE c # b
        <4>1. c \in completed \cup file.completed BY <1>2, <1>10, <3>2
        <4>2. c \in Block BY <2>1, <4>1 DEF SavedCheckpoint
        <4>3. writes[c] > 0 BY <4>1 DEF SafetyInv, CompletedWereWritten
        <4> QED BY <2>2, <4>2, <4>3
      <3> QED BY <3>1, <3>2
    <2> QED BY <2>3, <2>4, <2>5, <2>6, <2>7 DEF SafetyInv
  <1> QED BY <1>9, <1>10

LEMMA FinishBlockSafe ==
    ASSUME SafetyInv, NEW p \in Pool, NEW i \in DOMAIN pools[p].tasks, FinishBlock(p, i)
    PROVE  SafetyInv'
  <1> DEFINE t == pools[p].tasks[i]
  <1>1. PICK b \in Block :
          /\ IsNext(b, t)
          /\ update(p, i, [t EXCEPT !.pc = "block", !.blocks = @ \ {b}])
          /\ \/ writes' = [writes EXCEPT ![b] = @ + 1] /\ completed' = completed \cup {b}
             \/ UNCHANGED <<writes, completed>>
    BY DEF FinishBlock
  <1>2. /\ t.pc = "resume"
        /\ UNCHANGED <<head, faults, pc, failures, todo, current, active, initial, file,
                       mishaps, restarts>>
    BY DEF FinishBlock, node, loop
  <1> QED BY <1>1, <1>2, BlockDoneSafe

\* Every step of a chunk.
LEMMA ChunkStepSafe ==
    ASSUME SafetyInv, NEW p \in Pool, NEW i \in DOMAIN pools[p].tasks, ChunkStep(p, i)
    PROVE  SafetyInv'
  <1> DEFINE t == pools[p].tasks[i]
  <1>1. GoodPool(pools[p], initial, head) BY DEF SafetyInv, PoolsInv, GoodPools
  <1>2. ASSUME t.pc \in Live
        PROVE  /\ GoodTask(t, initial, head)
               /\ [t EXCEPT !.blocks = @] = t
               /\ \A state \in Live \ {"wait"} :
                    GoodTask([t EXCEPT !.pc = state], initial, head)
    <2>1. GoodTask(t, initial, head) BY <1>1, <1>2, LiveTaskStarted
    <2>2. t \in Task BY <2>1 DEF GoodTask
    <2> HIDE DEF t
    <2>3. [t EXCEPT !.blocks = @] = t BY <2>2 DEF Task
    <2>4. ASSUME NEW state \in Live \ {"wait"}
          PROVE  GoodTask([t EXCEPT !.pc = state], initial, head)
      <3>1. [t EXCEPT !.pc = state] = [t EXCEPT !.pc = state, !.blocks = t.blocks]
        BY <2>2 DEF Task
      <3>2. GoodTask([t EXCEPT !.pc = state, !.blocks = t.blocks], initial, head)
        BY <2>1, GoodTaskGoesOn
      <3> QED BY <3>1, <3>2
    <2> QED BY <2>1, <2>3, <2>4
  <1>3. /\ "request" \in Live /\ "block" \in Live /\ "txs" \in Live
        /\ "resume" \in Live /\ "wait" \in Live
        /\ "block" # "wait" /\ "txs" # "wait" /\ "resume" # "wait"
    BY DEF Live
  <1>4. faults \in Nat /\ faults + 1 \in Nat BY DEF SafetyInv, TypeOK
  <1>5. CASE ReceiveBlocks(p, i)
    <2>1. t.pc \in Live BY <1>3, <1>5 DEF ReceiveBlocks
    <2>2. GoodTask([t EXCEPT !.pc = "block"], initial, head) BY <1>2, <1>3, <2>1
    <2>3. update(p, i, [t EXCEPT !.pc = "block"]) BY <1>5 DEF ReceiveBlocks
    <2>4. /\ faults' = faults
          /\ UNCHANGED <<head, loop, active, store, writes, mishaps, restarts>>
      BY <1>5 DEF ReceiveBlocks, node
    <2> QED BY <1>4, <2>1, <2>2, <2>3, <2>4, UpdateGood, ChunkStepFrame DEF SafetyInv
  <1>6. CASE StartBlock(p, i)
    <2>1. t.pc \in Live BY <1>3, <1>6 DEF StartBlock
    <2>2. PICK b \in Block : \/ update(p, i, [t EXCEPT !.blocks = @ \ {b}])
                            \/ update(p, i, [t EXCEPT !.pc = "txs"])
      BY <1>6 DEF StartBlock
    <2>3. GoodTask([t EXCEPT !.pc = "txs"], initial, head) BY <1>2, <1>3, <2>1
    <2>4. GoodTask([t EXCEPT !.blocks = @ \ {b}], initial, head)
      <3>1. GoodTask(t, initial, head) /\ t \in Task BY <1>2, <2>1 DEF GoodTask
      <3>2. t.pc = "block" BY <1>6 DEF StartBlock
      <3> HIDE DEF t
      <3>3. [t EXCEPT !.blocks = t.blocks \ {b}]
              = [t EXCEPT !.pc = "block", !.blocks = t.blocks \ {b}]
        BY <3>1, <3>2 DEF Task
      <3>4. GoodTask([t EXCEPT !.pc = "block", !.blocks = t.blocks \ {b}], initial, head)
        BY <1>3, <3>1, GoodTaskGoesOn
      <3> QED BY <3>3, <3>4
    <2>5. /\ faults' = faults
          /\ UNCHANGED <<head, loop, active, store, writes, mishaps, restarts>>
      BY <1>6 DEF StartBlock, node
    <2>6. GoodPools(pools', initial, head)
      BY <2>1, <2>2, <2>3, <2>4, UpdateGood DEF SafetyInv
    <2> QED BY <1>4, <2>5, <2>6, ChunkStepFrame
  <1>7. CASE ReceiveTransactions(p, i)
    <2>1. t.pc \in Live BY <1>3, <1>7 DEF ReceiveTransactions
    <2>2. GoodTask([t EXCEPT !.pc = "resume"], initial, head) BY <1>2, <1>3, <2>1
    <2>3. update(p, i, [t EXCEPT !.pc = "resume"]) BY <1>7 DEF ReceiveTransactions
    <2>4. /\ faults' = faults
          /\ UNCHANGED <<head, loop, active, store, writes, mishaps, restarts>>
      BY <1>7 DEF ReceiveTransactions, node
    <2> QED BY <1>4, <2>1, <2>2, <2>3, <2>4, UpdateGood, ChunkStepFrame DEF SafetyInv
  <1>8. CASE FinishBlock(p, i) BY <1>8, FinishBlockSafe
  <1>9. CASE FinishChunk(p, i)
    <2>1. t.pc \in Live BY <1>3, <1>9 DEF FinishChunk
    <2>2. /\ settle(p, i, "ok") /\ faults' = faults
          /\ UNCHANGED <<head, loop, active, store, writes, mishaps, restarts>>
      BY <1>9 DEF FinishChunk, node
    <2> QED BY <1>4, <2>1, <2>2, SettleGood, ChunkStepFrame DEF SafetyInv
  <1>10. CASE FailAttempt(p, i)
    <2>1. t.pc \in Live BY <1>3, <1>10 DEF FailAttempt
    <2>2. /\ faults' = faults + 1
          /\ UNCHANGED <<head, loop, active, store, writes, mishaps, restarts>>
      BY <1>10 DEF FailAttempt
    <2>3. CASE t.attempt < Attempts /\ update(p, i, [t EXCEPT !.pc = "wait", !.blocks = {}])
      <3>1. GoodTask([t EXCEPT !.pc = "wait", !.blocks = {}], initial, head)
        BY <1>2, <1>3, <2>1, <2>3, GoodTaskGoesOn
      <3> QED BY <1>4, <2>1, <2>2, <2>3, <3>1, UpdateGood, ChunkStepFrame DEF SafetyInv
    <2>4. CASE settle(p, i, "err")
      BY <1>4, <2>1, <2>2, <2>4, SettleGood, ChunkStepFrame DEF SafetyInv
    <2> QED BY <1>10, <2>3, <2>4 DEF FailAttempt
  <1>11. CASE RetryChunk(p, i)
    <2>1. t.pc \in Live /\ t.pc = "wait" BY <1>3, <1>11 DEF RetryChunk
    <2>2. /\ update(p, i, startAttempt(t)) /\ faults' = faults
          /\ UNCHANGED <<head, loop, active, store, writes, mishaps, restarts>>
      BY <1>11 DEF RetryChunk, node
    <2>3. GoodTask(t, initial, head) /\ t.attempt < Attempts BY <1>2, <2>1 DEF GoodTask
    <2>4. initial \in Int /\ head \in Int
      BY BoundAssumption DEF SafetyInv, TypeOK, SavedCheckpoint, Block
    <2>5. GoodTask(startAttempt(t), initial, head)
      BY <2>3, <2>4, StartAttemptGood DEF SafetyInv
    <2> QED BY <1>4, <2>1, <2>2, <2>5, UpdateGood, ChunkStepFrame DEF SafetyInv
  <1>12. CASE AbortChunk(p, i)
    <2>1. /\ t.pc \in Live /\ settle(p, i, "err") /\ faults' = faults
          /\ UNCHANGED <<head, loop, active, store, writes, mishaps, restarts>>
      BY <1>12 DEF AbortChunk, node
    <2> QED BY <1>4, <2>1, SettleGood, ChunkStepFrame DEF SafetyInv
  <1> QED BY <1>5, <1>6, <1>7, <1>8, <1>9, <1>10, <1>11, <1>12 DEF ChunkStep

\* A step of the polling loop once the initial block is known.
LEMMA LoopStepFrame ==
    ASSUME SafetyInv, initial \in Nat,
           UNCHANGED <<head, active, store, writes, restarts>>,
           pc' \in LoopState \ Before, pc' # "pool" => todo' = {},
           todo' \subseteq BlockSpan, \A r \in todo' : initial <= r.from /\ r.to <= head,
           current' \in Pool \cup {NoPool}, GoodPools(pools', initial, head),
           failures' \in Nat, mishaps' \in Nat, faults' \in Nat
    PROVE  SafetyInv'
  <1>1. LoopInv' BY DEF LoopInv, Before, store
  <1>2. LoopTypes' BY DEF SafetyInv, TypeOK, LoopTypes
  <1>3. head <= head' /\ GoodPools(pools', initial, head')
    BY BoundAssumption DEF SafetyInv, TypeOK, Block
  <1> QED BY <1>1, <1>2, <1>3, StoreUntouched DEF store

\* The loop goes on, within the ranges it was given, to one more call at most.
LEMMA EnterRangeGood ==
    ASSUME SafetyInv, initial \in Nat,
           NEW ranges, ranges \subseteq BlockSpan,
           \A r \in ranges : initial <= r.from /\ r.to <= head,
           NEW ps, GoodPools(ps, initial, head), EnterRange(ranges, ps)
    PROVE  /\ pc' \in LoopState \ Before /\ (pc' # "pool" => todo' = {})
           /\ todo' \subseteq ranges
           /\ current' \in Pool \cup {NoPool}
           /\ GoodPools(pools', initial, head)
  <1>1. CASE pools' = ps /\ pc' \in {"sleep", "ended"} /\ todo' = {} /\ current' = NoPool
    <2>1. pc' \in LoopState \ Before BY <1>1 DEF LoopState, Before
    <2> QED BY <1>1, <2>1
  <1>2. CASE /\ pc' = "pool"
             /\ \E r \in ranges, p \in Pool :
                  /\ pools' = [ps EXCEPT ![p] = newPool(r)]
                  /\ todo' = ranges \ {r}
                  /\ current' = p
    <2>1. PICK r \in ranges, p \in Pool :
            /\ pools' = [ps EXCEPT ![p] = newPool(r)]
            /\ todo' = ranges \ {r}
            /\ current' = p
      BY <1>2
    <2>2. initial \in Int /\ head \in Int
      BY BoundAssumption DEF SafetyInv, TypeOK, SavedCheckpoint, Block
    <2>3. GoodPool(newPool(r), initial, head)
      BY <2>2, NewPoolGood DEF SafetyInv
    <2>4. GoodPools(pools', initial, head) BY <2>1, <2>3, ReplacePool
    <2>5. pc' \in LoopState \ Before BY <1>2 DEF LoopState, Before
    <2> QED BY <1>2, <2>1, <2>4, <2>5
  <1> QED BY <1>1, <1>2 DEF EnterRange, RoundEnds

\* The catch block leaves the loop outside of any call.
LEMMA CatchErrorLeaves ==
    ASSUME CatchError, failures \in Nat
    PROVE  /\ pc' \in LoopState \ Before /\ pc' # "pool"
           /\ todo' = {} /\ current' = NoPool /\ failures' \in Nat
  BY DEF CatchError, RoundEnds, LoopState, Before

\* The process ends, with the checkpoint in the file as it was or as it is now.
LEMMA ProcessEndsSafe ==
    ASSUME SafetyInv, NEW saved \in {file, [initial |-> initial, completed |-> completed]},
           ProcessEnds(saved), UNCHANGED <<head, writes>>,
           mishaps' \in Nat, faults' \in Nat, restarts' \in Nat
    PROVE  SafetyInv'
  <1>1. /\ file \in SavedCheckpoint /\ completed \subseteq Block
        /\ [initial |-> initial, completed |-> completed] \in SavedCheckpoint
        /\ head \in Int /\ initial \in Int
    BY BoundAssumption DEF SafetyInv, TypeOK, SavedCheckpoint, Block
  <1>2. saved \in SavedCheckpoint /\ saved.completed \subseteq completed
    <2>1. saved \in SavedCheckpoint BY <1>1
    <2>2. CASE saved = file BY <2>1, <2>2 DEF SafetyInv, StoreInv
    <2>3. CASE saved = [initial |-> initial, completed |-> completed] BY <2>1, <2>3
    <2> QED BY <2>1, <2>2, <2>3
  <1>3. saved.initial \notin Nat => saved.completed = {}
    <2>1. CASE saved = file
      BY <2>1 DEF SafetyInv, StoreInv, LoopInv
    <2>2. CASE saved = [initial |-> initial, completed |-> completed]
      BY <2>2 DEF SafetyInv, LoopInv
    <2> QED BY <2>1, <2>2
  <1>4. /\ pc' = "down" /\ active' = TRUE /\ failures' = 0 /\ todo' = {}
        /\ current' = NoPool /\ pools' = AllFree
        /\ file' = saved /\ initial' = saved.initial /\ completed' = saved.completed
        /\ head' = head /\ writes' = writes
    BY DEF ProcessEnds, AllFree
  <1>5. initial' \in Int /\ completed' \subseteq completed
    BY <1>2, <1>4 DEF SavedCheckpoint
  <1>6. GoodPools(AllFree, initial', head')
    <2>1. GoodPool(FreePool, initial', head') BY <1>1, <1>4, <1>5, FreePoolGood
    <2>2. FreePool \in PoolRecord BY <2>1 DEF GoodPool
    <2> QED BY <2>1, <2>2 DEF GoodPools, AllFree
  <1>7. PoolsInv' BY <1>4, <1>6 DEF PoolsInv
  <1>8. TypeOK'
    <2>1. /\ pools' \in [Pool -> PoolRecord]
          /\ \A q \in Pool : pools'[q].started <= Len(pools'[q].tasks)
      BY <1>4, <1>6 DEF GoodPools, GoodPool
    <2>2. "down" \in LoopState BY DEF LoopState
    <2>3. [initial |-> initial', completed |-> completed'] \in SavedCheckpoint
      BY <1>1, <1>5 DEF SavedCheckpoint
    <2> QED BY <1>2, <1>4, <2>1, <2>2, <2>3 DEF SafetyInv, TypeOK
  <1>9. LoopInv' BY <1>3, <1>4 DEF LoopInv, Before
  <1>10. StoreInv' BY <1>4, <1>5 DEF SafetyInv, StoreInv
  <1>11. CompletedWereWritten'
    BY <1>4, <1>5 DEF SafetyInv, CompletedWereWritten
  <1> QED BY <1>7, <1>8, <1>9, <1>10, <1>11 DEF SafetyInv

\* An empty checkpoint takes its initial block.
LEMMA InitialBlockChosen ==
    ASSUME SafetyInv, pc \in Before, completed = {}, initial' \in Nat,
           pc' \in {"poll", "ended"},
           UNCHANGED <<node, active, failures, todo, pools, current, completed,
                       file, writes, mishaps, restarts>>
    PROVE  SafetyInv'
  <1>1. pools' = AllFree /\ todo' = {} /\ file'.completed = {} /\ completed' = {}
    BY DEF SafetyInv, LoopInv, StoreInv, Before
  <1>2. GoodPools(pools', initial', head')
    <2>1. initial' \in Int /\ head' \in Int
      BY BoundAssumption DEF SafetyInv, TypeOK, Block, node
    <2>2. GoodPool(FreePool, initial', head') BY <2>1, FreePoolGood
    <2>3. FreePool \in PoolRecord BY <2>2 DEF GoodPool
    <2> QED BY <1>1, <2>2, <2>3 DEF GoodPools, AllFree
  <1>3. PoolsInv' BY <1>2 DEF PoolsInv
  <1>4. TypeOK'
    <2>1. pc' \in LoopState BY DEF LoopState
    <2>2. [initial |-> initial', completed |-> completed'] \in SavedCheckpoint
      BY <1>1 DEF SavedCheckpoint
    <2> QED BY <2>1, <2>2 DEF SafetyInv, TypeOK, node
  <1>5. LoopInv' BY <1>1 DEF LoopInv, Before
  <1>6. StoreInv' BY <1>1 DEF StoreInv
  <1>7. CompletedWereWritten' BY <1>1 DEF CompletedWereWritten
  <1> QED BY <1>3, <1>4, <1>5, <1>6, <1>7 DEF SafetyInv

\* The blocks a configuration can choose.
LEMMA InitialBlockIsNat ==
    ASSUME NEW latest \in Int
    PROVE  InitialBlockFor(latest) \in Nat
  <1>1. StartAt \in [latest : BOOLEAN, n : Int] /\ (~StartAt.latest => StartAt.n >= 0)
    BY ConfigAssumption
  <1>2. StartAt.n \in Int BY <1>1
  <1>3. CASE StartAt.latest
    <2> DEFINE block == latest + StartAt.n
    <2>1. block \in Int BY <1>2
    <2> HIDE DEF block
    <2>2. Max({0, block}) \in {0, block} /\ Max({0, block}) >= 0
      BY <2>1, MaxOfTwo
    <2>3. Max({0, block}) \in Nat BY <2>1, <2>2
    <2> QED BY <1>3, <2>3 DEF InitialBlockFor, block
  <1>4. CASE ~StartAt.latest
    BY <1>1, <1>2, <1>4 DEF InitialBlockFor
  <1> QED BY <1>3, <1>4

\* The steps before the loop begins to poll.
LEMMA StartSafe ==
    ASSUME SafetyInv, Start \/ ReceiveInitialBlock \/ FailInitialBlock
    PROVE  SafetyInv'
  <1>1. CASE Start
    <2>1. pc \in Before BY <1>1 DEF Start, Before
    <2>2. UNCHANGED <<node, active, failures, todo, pools, current, completed, file,
                      writes, mishaps, restarts>>
      BY <1>1 DEF Start
    <2>3. CASE completed = {} /\ pc' = "initRequest" /\ UNCHANGED initial
      <3>1. LoopInv' BY <2>1, <2>2, <2>3 DEF SafetyInv, LoopInv, Before, node
      <3>2. LoopTypes'
        <4>1. pc' \in LoopState BY <2>3 DEF LoopState
        <4> QED BY <2>2, <4>1 DEF SafetyInv, TypeOK, LoopTypes, node
      <3>3. head <= head' /\ GoodPools(pools', initial, head')
        BY <2>2, BoundAssumption DEF SafetyInv, TypeOK, PoolsInv, Block, node
      <3> QED BY <2>2, <2>3, <3>1, <3>2, <3>3, StoreUntouched
    <2>4. CASE completed = {} /\ initial' = InitialBlockFor(NoBlock) /\ ~StartAt.latest
                /\ pc' \in {"poll", "ended"}
      <3>1. NoBlock \in Int BY DEF NoBlock
      <3>2. initial' \in Nat BY <2>4, <3>1, InitialBlockIsNat
      <3> QED BY <2>1, <2>2, <2>4, <3>2, InitialBlockChosen
    <2>5. CASE completed # {} /\ UNCHANGED initial /\ pc' \in {"poll", "ended"}
      <3>1. initial \in Nat BY <2>5 DEF SafetyInv, LoopInv
      <3>2. LoopInv' BY <2>1, <2>2, <2>5, <3>1 DEF SafetyInv, LoopInv, Before, node
      <3>3. LoopTypes'
        <4>1. pc' \in LoopState BY <2>5 DEF LoopState
        <4> QED BY <2>2, <4>1 DEF SafetyInv, TypeOK, LoopTypes, node
      <3>4. head <= head' /\ GoodPools(pools', initial, head')
        BY <2>2, BoundAssumption DEF SafetyInv, TypeOK, PoolsInv, Block, node
      <3> QED BY <2>2, <2>5, <3>2, <3>3, <3>4, StoreUntouched
    <2> QED BY <1>1, <2>3, <2>4, <2>5 DEF Start
  <1>2. CASE ReceiveInitialBlock
    <2>1. pc \in Before /\ completed = {}
      BY <1>2 DEF ReceiveInitialBlock, Before, SafetyInv, LoopInv
    <2>2. PICK latest \in LatestBlock : initial' = InitialBlockFor(latest)
      BY <1>2 DEF ReceiveInitialBlock
    <2>3. latest \in Int BY BoundAssumption DEF LatestBlock, Block
    <2>4. initial' \in Nat BY <2>2, <2>3, InitialBlockIsNat
    <2>5. pc' \in {"poll", "ended"} BY <1>2 DEF ReceiveInitialBlock
    <2>6. UNCHANGED <<node, active, failures, todo, pools, current, completed, file,
                      writes, mishaps, restarts>>
      BY <1>2 DEF ReceiveInitialBlock
    <2> QED BY <2>1, <2>4, <2>5, <2>6, InitialBlockChosen
  <1>3. CASE FailInitialBlock
    <2>1. /\ mishaps \in Nat /\ faults \in Nat /\ restarts \in Nat
      BY DEF SafetyInv, TypeOK
    <2>2. /\ faults' \in Nat /\ restarts' \in Nat /\ UNCHANGED <<head, writes, restarts>>
      BY <1>3, <2>1 DEF FailInitialBlock
    <2>3. CASE ProcessEnds(file) /\ mishaps' = mishaps + 1
      <3>1. mishaps' \in Nat BY <2>1, <2>3
      <3> QED BY <2>2, <2>3, <3>1, ProcessEndsSafe
    <2>4. CASE /\ pc' = "rejected"
               /\ UNCHANGED <<active, failures, todo, pools, current, store, mishaps>>
      <3>1. LoopInv'
        BY <1>3, <2>2, <2>4 DEF FailInitialBlock, SafetyInv, LoopInv, Before, store
      <3>2. LoopTypes'
        <4>1. pc' \in LoopState BY <2>4 DEF LoopState
        <4> QED BY <2>2, <2>4, <4>1 DEF SafetyInv, TypeOK, LoopTypes
      <3>3. head <= head' /\ GoodPools(pools', initial, head')
        BY <2>2, <2>4, BoundAssumption DEF SafetyInv, TypeOK, PoolsInv, Block
      <3> QED BY <2>2, <2>4, <3>1, <3>2, <3>3, StoreUntouched DEF store
    <2> QED BY <1>3, <2>3, <2>4 DEF FailInitialBlock
  <1> QED BY <1>1, <1>2, <1>3

\* The steps of the loop that polls.
LEMMA LoopStepSafe ==
    ASSUME SafetyInv, LoopStep
    PROVE  SafetyInv'
  <1>1. /\ failures \in Nat /\ mishaps \in Nat /\ faults \in Nat
        /\ 0 \in Nat /\ mishaps + 1 \in Nat /\ faults + 1 \in Nat
    BY DEF SafetyInv, TypeOK
  <1>2. ASSUME pc \in {"poll", "pool", "backoff", "sleep"} PROVE initial \in Nat
    BY <1>2 DEF SafetyInv, LoopInv, Before
  <1>3. GoodPools(pools, initial, head) BY DEF SafetyInv, PoolsInv
  <1>4. {} \subseteq BlockSpan /\ NoPool \in Pool \cup {NoPool} OBVIOUS
  <1>5. /\ todo \subseteq BlockSpan /\ current \in Pool \cup {NoPool}
        /\ \A r \in todo : initial <= r.from /\ r.to <= head
        /\ pc # "pool" => todo = {}
    BY DEF SafetyInv, TypeOK, LoopInv
  <1>6. CASE Start \/ ReceiveInitialBlock \/ FailInitialBlock
    BY <1>6, StartSafe
  <1>7. CASE ReceiveLatest
    <2>1. initial \in Nat BY <1>2, <1>7 DEF ReceiveLatest
    <2>2. PICK latest \in LatestBlock :
            EnterRange(IncompleteRanges(completed, initial, latest), pools)
      BY <1>7 DEF ReceiveLatest
    <2> DEFINE ranges == IncompleteRanges(completed, initial, latest)
    <2>3. /\ head \in Block /\ head \in Int /\ latest \in Int /\ latest <= head
          /\ \A b \in completed : b \in Int /\ b <= head
      BY BoundAssumption DEF SafetyInv, TypeOK, SavedCheckpoint, StoreInv, LatestBlock, Block
    <2>4. ASSUME NEW r \in ranges
          PROVE  r \in BlockSpan /\ initial <= r.from /\ r.to <= head
      <3>1. r \in IntRange /\ initial <= r.from /\ r.from <= r.to /\ r.to <= head
        BY <2>1, <2>3, IncompleteRangesWithin
      <3>2. r \in BlockSpan
        BY <2>1, <2>3, <3>1, BoundAssumption DEF IntRange, BlockSpan, Block
      <3> QED BY <3>1, <3>2
    <2> HIDE DEF ranges
    <2>5. EnterRange(ranges, pools) BY <2>2 DEF ranges
    <2>6. /\ pc' \in LoopState \ Before /\ (pc' # "pool" => todo' = {})
          /\ todo' \subseteq ranges /\ current' \in Pool \cup {NoPool}
          /\ GoodPools(pools', initial, head)
      BY <1>3, <2>1, <2>4, <2>5, EnterRangeGood
    <2>7. UNCHANGED <<head, active, store, writes, restarts, failures, mishaps, faults>>
      BY <1>7 DEF ReceiveLatest, node
    <2> QED BY <1>1, <2>1, <2>4, <2>6, <2>7, LoopStepFrame
  <1>8. CASE FailLatest
    <2>1. initial \in Nat BY <1>2, <1>8 DEF FailLatest
    <2>2. /\ CatchError /\ faults' = faults + 1
          /\ UNCHANGED <<head, active, pools, store, writes, mishaps, restarts>>
      BY <1>8 DEF FailLatest
    <2>3. GoodPools(pools', initial, head) BY <1>3, <2>2
    <2> QED BY <1>1, <1>4, <2>1, <2>2, <2>3, CatchErrorLeaves, LoopStepFrame
  <1>9. CASE PoolResolves
    <2>1. initial \in Nat BY <1>2, <1>9 DEF PoolResolves
    <2>2. /\ failures' = 0
          /\ EnterRange(todo, [pools EXCEPT ![current] = FreePool])
          /\ UNCHANGED <<head, active, store, writes, restarts, mishaps, faults>>
      BY <1>9 DEF PoolResolves, node
    <2>3. GoodPools([pools EXCEPT ![current] = FreePool], initial, head)
      <3>1. CASE current \in Pool
        <4>1. initial \in Int /\ head \in Int
          BY BoundAssumption DEF SafetyInv, TypeOK, SavedCheckpoint, Block
        <4>2. GoodPool(FreePool, initial, head) BY <4>1, FreePoolGood
        <4> QED BY <1>3, <3>1, <4>2, ReplacePool
      <3>2. CASE current \notin Pool
        <4>1. [pools EXCEPT ![current] = FreePool] = pools BY <1>3, <3>2 DEF GoodPools
        <4> QED BY <1>3, <4>1
      <3> QED BY <3>1, <3>2
    <2> DEFINE ps == [pools EXCEPT ![current] = FreePool]
    <2>4. EnterRange(todo, ps) /\ GoodPools(ps, initial, head) BY <2>2, <2>3
    <2> HIDE DEF ps
    <2>5. /\ pc' \in LoopState \ Before /\ (pc' # "pool" => todo' = {})
          /\ todo' \subseteq todo /\ current' \in Pool \cup {NoPool}
          /\ GoodPools(pools', initial, head)
      BY <1>5, <2>1, <2>4, EnterRangeGood
    <2> QED BY <1>1, <1>5, <2>1, <2>2, <2>5, LoopStepFrame
  <1>10. CASE PoolRejects
    <2>1. initial \in Nat BY <1>2, <1>10 DEF PoolRejects
    <2>2. /\ CatchError /\ mishaps' = mishaps + 1
          /\ pools' = [pools EXCEPT ![current] =
               IF @.running = 0 THEN FreePool ELSE [@ EXCEPT !.outcome = "given up"]]
          /\ UNCHANGED <<head, active, store, writes, restarts, faults>>
      BY <1>10 DEF PoolRejects, node
    <2>3. GoodPools(pools', initial, head)
      <3>1. CASE current \in Pool
        <4>1. initial \in Int /\ head \in Int
          BY BoundAssumption DEF SafetyInv, TypeOK, SavedCheckpoint, Block
        <4>2. GoodPool(FreePool, initial, head) BY <4>1, FreePoolGood
        <4> DEFINE pool == pools[current]
        <4>3. GoodPool([pool EXCEPT !.outcome = "given up"], initial, head)
          <5>1. GoodPool(pool, initial, head) BY <1>3, <3>1 DEF GoodPools
          <5>2. "given up" \in Outcome BY DEF Outcome
          <5> HIDE DEF pool
          <5> QED BY <5>1, <5>2, OutcomeChanged
        <4> QED BY <1>3, <2>2, <3>1, <4>2, <4>3, ReplacePool
      <3>2. CASE current \notin Pool
        <4>1. pools' = pools BY <1>3, <2>2, <3>2 DEF GoodPools
        <4> QED BY <1>3, <4>1
      <3> QED BY <3>1, <3>2
    <2> QED BY <1>1, <1>4, <2>1, <2>2, <2>3, CatchErrorLeaves, LoopStepFrame
  <1>11. CASE PoolAborts
    <2>1. initial \in Nat BY <1>2, <1>11 DEF PoolAborts
    <2>2. /\ pc' = "ended" /\ todo' = {} /\ current' = NoPool
          /\ UNCHANGED <<head, active, pools, store, writes, restarts, failures, mishaps, faults>>
      BY <1>11 DEF PoolAborts, LoopEnds, node
    <2>3. pc' \in LoopState \ Before BY <2>2 DEF LoopState, Before
    <2>4. GoodPools(pools', initial, head) BY <1>3, <2>2
    <2> QED BY <1>1, <1>4, <2>1, <2>2, <2>3, <2>4, LoopStepFrame
  <1>12. CASE EndBackoff \/ EndSleep
    <2>1. initial \in Nat BY <1>2, <1>12 DEF EndBackoff, EndSleep
    <2>2. /\ pc # "pool" /\ pc' \in {"sleep", "rejected", "poll", "ended"}
          /\ UNCHANGED <<node, active, failures, todo, pools, current, store, writes,
                         mishaps, restarts>>
      BY <1>12 DEF EndBackoff, EndSleep
    <2>3. pc' \in LoopState \ Before BY <2>2 DEF LoopState, Before
    <2>4. GoodPools(pools', initial, head) BY <1>3, <2>2
    <2> QED BY <1>1, <1>4, <1>5, <2>1, <2>2, <2>3, <2>4, LoopStepFrame DEF node
  <1> QED BY <1>6, <1>7, <1>8, <1>9, <1>10, <1>11, <1>12 DEF LoopStep

\* The signals, exits and restarts of the process, and the growth of the chain.
LEMMA ProcessStepSafe ==
    ASSUME SafetyInv, Shutdown \/ SaveAndExit \/ Crash \/ Restart \/ NewBlock
    PROVE  SafetyInv'
  <1>1. /\ mishaps \in Nat /\ faults \in Nat /\ restarts \in Nat
        /\ mishaps + 1 \in Nat /\ restarts + 1 \in Nat
        /\ initial \in Int /\ head \in Int
    BY BoundAssumption DEF SafetyInv, TypeOK, SavedCheckpoint, Block
  <1>2. GoodPools(pools, initial, head) BY DEF SafetyInv, PoolsInv
  <1>3. CASE Shutdown
    <2>1. /\ active' = FALSE
          /\ pools' = [p \in Pool |->
               IF pools[p].outcome = "pending" THEN [pools[p] EXCEPT !.outcome = "abort"]
                                               ELSE pools[p]]
          /\ UNCHANGED <<head, faults, pc, failures, todo, current, store, writes,
                         mishaps, restarts>>
      BY <1>3 DEF Shutdown, node, loop
    <2>2. GoodPools(pools', initial, head)
      <3>1. ASSUME NEW p \in Pool
            PROVE  GoodPool(pools'[p], initial, head)
        <4> DEFINE pool == pools[p]
        <4>1. GoodPool(pool, initial, head) BY <1>2 DEF GoodPools
        <4>2. "abort" \in Outcome BY DEF Outcome
        <4>3. GoodPool([pool EXCEPT !.outcome = "abort"], initial, head)
          <5> HIDE DEF pool
          <5> QED BY <4>1, <4>2, OutcomeChanged
        <4> QED BY <2>1, <4>1, <4>3
      <3>2. \A p \in Pool : pools'[p] \in PoolRecord BY <3>1 DEF GoodPool
      <3>3. pools' = [p \in Pool |-> pools'[p]] BY <2>1
      <3>4. pools' \in [Pool -> PoolRecord] BY <3>2, <3>3
      <3> QED BY <3>1, <3>4 DEF GoodPools
    <2>3. pools = AllFree => pools' = AllFree
      BY <2>1 DEF AllFree, FreePool
    <2>4. LoopInv' BY <2>1, <2>3 DEF SafetyInv, LoopInv, store
    <2>5. LoopTypes' BY <2>1 DEF SafetyInv, TypeOK, LoopTypes
    <2>6. head <= head' /\ GoodPools(pools', initial, head') BY <1>1, <2>1, <2>2
    <2> QED BY <2>1, <2>4, <2>5, <2>6, StoreUntouched DEF store
  <1>4. CASE SaveAndExit
    BY <1>1, <1>4, ProcessEndsSafe DEF SaveAndExit, node
  <1>5. CASE Crash
    BY <1>1, <1>5, ProcessEndsSafe DEF Crash, node
  <1>6. CASE Restart
    <2>1. /\ pc = "down" /\ pc' = "init" /\ restarts' = restarts + 1
          /\ UNCHANGED <<head, faults, active, failures, todo, pools, current, store,
                         writes, mishaps>>
      BY <1>6 DEF Restart, node
    <2>2. LoopInv' BY <2>1 DEF SafetyInv, LoopInv, Before, store
    <2>3. LoopTypes'
      <3>1. "init" \in LoopState BY DEF LoopState
      <3> QED BY <1>1, <2>1, <3>1 DEF SafetyInv, TypeOK, LoopTypes
    <2>4. head <= head' /\ GoodPools(pools', initial, head') BY <1>1, <1>2, <2>1
    <2> QED BY <2>1, <2>2, <2>3, <2>4, StoreUntouched DEF store
  <1>7. CASE NewBlock
    <2>1. /\ head < MaxBlock /\ head' = head + 1
          /\ UNCHANGED <<loop, active, pools, store, writes, mishaps, faults, restarts>>
      BY <1>7 DEF NewBlock
    <2>2. head' \in Block /\ head' \in Int /\ head <= head'
      BY <1>1, <2>1, BoundAssumption DEF SafetyInv, TypeOK, Block
    <2>3. LoopInv'
      <3>1. \A r \in todo' : initial' <= r.from /\ r.to <= head'
        BY <1>1, <2>1, <2>2 DEF SafetyInv, TypeOK, LoopInv, BlockSpan, Block, loop, store
      <3> QED BY <2>1, <3>1 DEF SafetyInv, LoopInv, loop, store
    <2>4. LoopTypes' BY <2>1, <2>2 DEF SafetyInv, TypeOK, LoopTypes, loop
    <2>5. GoodPools(pools', initial, head')
      BY <1>1, <1>2, <2>1, <2>2, GoodPoolMonotone DEF GoodPools
    <2> QED BY <2>1, <2>2, <2>3, <2>4, <2>5, StoreUntouched DEF store
  <1> QED BY <1>3, <1>4, <1>5, <1>6, <1>7

-----------------------------------------------------------------------------
(* The theorems                                                            *)

LEMMA InitSafe ==
    ASSUME Init
    PROVE  SafetyInv
  <1>1. /\ head \in Block /\ head \in Int /\ NoBlock \in Int /\ initial = NoBlock
        /\ pools = AllFree
    BY BoundAssumption DEF Init, Block, NoBlock, AllFree
  <1>2. GoodPools(pools, initial, head)
    <2>1. GoodPool(FreePool, initial, head) BY <1>1, FreePoolGood
    <2>2. FreePool \in PoolRecord BY <2>1 DEF GoodPool
    <2> QED BY <1>1, <2>1, <2>2 DEF GoodPools, AllFree
  <1>3. TypeOK
    <2>1. /\ pools \in [Pool -> PoolRecord]
          /\ \A p \in Pool : pools[p].started <= Len(pools[p].tasks)
      BY <1>2 DEF GoodPools, GoodPool
    <2>2. "init" \in LoopState BY DEF LoopState
    <2> QED BY <1>1, <2>1, <2>2 DEF Init, TypeOK, SavedCheckpoint
  <1>4. LoopInv BY <1>1 DEF Init, LoopInv, Before
  <1>5. StoreInv BY DEF Init, StoreInv
  <1>6. CompletedWereWritten BY DEF Init, CompletedWereWritten
  <1> QED BY <1>2, <1>3, <1>4, <1>5, <1>6 DEF SafetyInv, PoolsInv

\* SafetyInv holds in every state of every behaviour, whatever is shut down,
\* fails, crashes or is restarted, and in whatever order the chunks proceed.
THEOREM SafetyInvariant == Spec => []SafetyInv
  <1>1. Init => SafetyInv BY InitSafe
  <1>2. SafetyInv /\ [Next]_vars => SafetyInv'
    <2> SUFFICES ASSUME SafetyInv, [Next]_vars PROVE SafetyInv'
      OBVIOUS
    <2>1. CASE LoopStep BY <2>1, LoopStepSafe
    <2>2. CASE \E p \in Pool : \E i \in DOMAIN pools[p].tasks : ChunkStep(p, i)
      BY <2>2, ChunkStepSafe
    <2>3. CASE Shutdown \/ SaveAndExit \/ Crash \/ Restart \/ NewBlock
      BY <2>3, ProcessStepSafe
    <2>4. CASE UNCHANGED vars
      <3>1. SafetyInv' <=> SafetyInv
        BY <2>4 DEF vars, SafetyInv, TypeOK, PoolsInv, LoopInv, StoreInv, CompletedWereWritten
      <3> QED BY <3>1
    <2> QED BY <2>1, <2>2, <2>3, <2>4 DEF Next
  <1> QED BY <1>1, <1>2, PTL DEF Spec

\* The types of the watcher's state: no attempt above the limit, every chunk within
\* the chain, the count of started tasks within the queue of parallel().
THEOREM TypeCorrect == Spec => []TypeOK
  <1>1. SafetyInv => TypeOK BY DEF SafetyInv
  <1> QED BY <1>1, SafetyInvariant, PTL

\* At least once: a block that counts as complete, in memory or in the file, has
\* been written to the output (processBlock, markBlockComplete, State.save).
THEOREM AtLeastOnce == Spec => []CompletedWereWritten
  <1>1. SafetyInv => CompletedWereWritten BY DEF SafetyInv
  <1> QED BY <1>1, SafetyInvariant, PTL

\* No block below the initial block or above the node's head is ever requested
\* (getIncompleteRanges, chunkedBlockRanges and the filter of processChunk).
THEOREM RequestsStayWithinChain == Spec => []RequestsWithinChain
  <1>1. SafetyInv => RequestsWithinChain
    <2> SUFFICES ASSUME SafetyInv, NEW p \in Pool, NEW i \in DOMAIN pools[p].tasks,
                        NEW b \in pools[p].tasks[i].blocks
                 PROVE  b \in initial .. head
      BY DEF RequestsWithinChain
    <2> DEFINE t == pools[p].tasks[i]
    <2>1. GoodTask(t, initial, head) BY DEF SafetyInv, PoolsInv, GoodPools, GoodPool
    <2>2. /\ initial <= t.chunk.from /\ t.chunk.to <= head
          /\ b \in t.chunk.from .. t.chunk.to
          /\ t.chunk.from \in Int /\ t.chunk.to \in Int
      BY <2>1, BoundAssumption DEF GoodTask, blockRangeToSet, Task, BlockSpan, Block
    <2>3. initial \in Int /\ head \in Int
      BY BoundAssumption DEF SafetyInv, TypeOK, SavedCheckpoint, Block
    <2> HIDE DEF t
    <2> QED BY <2>2, <2>3
  <1> QED BY <1>1, SafetyInvariant, PTL

\* Only two kinds of steps touch the output, the checkpoint or its file: a block
\* that is finished while the watcher is active, and the end of the process.
LEMMA WhoTouchesTheStore ==
    ASSUME [Next]_vars
    PROVE  \/ UNCHANGED <<writes, completed, file>>
           \/ active /\ UNCHANGED file
           \/ /\ pc' = "down"
              /\ \/ file' = file
                 \/ file' = [initial |-> initial, completed |-> completed]
  <1>1. CASE UNCHANGED vars BY <1>1 DEF vars
  <1>2. CASE LoopStep
    <2>1. CASE FailInitialBlock
      BY <2>1 DEF FailInitialBlock, ProcessEnds, store
    <2>2. CASE Start \/ ReceiveInitialBlock \/ ReceiveLatest \/ FailLatest \/ PoolResolves
                 \/ PoolRejects \/ PoolAborts \/ EndBackoff \/ EndSleep
      BY <2>2 DEF Start, ReceiveInitialBlock, ReceiveLatest, FailLatest, PoolResolves,
                  PoolRejects, PoolAborts, EndBackoff, EndSleep, store
    <2> QED BY <1>2, <2>1, <2>2 DEF LoopStep
  <1>3. CASE \E p \in Pool : \E i \in DOMAIN pools[p].tasks : ChunkStep(p, i)
    <2>0. PICK p \in Pool : \E i \in DOMAIN pools[p].tasks : ChunkStep(p, i) BY <1>3
    <2>1. PICK i \in DOMAIN pools[p].tasks : ChunkStep(p, i) BY <2>0
    <2>2. CASE FinishBlock(p, i) BY <2>2 DEF FinishBlock
    <2>3. CASE ReceiveBlocks(p, i) \/ StartBlock(p, i) \/ ReceiveTransactions(p, i)
                 \/ FinishChunk(p, i) \/ FailAttempt(p, i) \/ RetryChunk(p, i)
                 \/ AbortChunk(p, i)
      BY <2>3 DEF ReceiveBlocks, StartBlock, ReceiveTransactions, FinishChunk, FailAttempt,
                  RetryChunk, AbortChunk, store
    <2> QED BY <2>1, <2>2, <2>3 DEF ChunkStep
  <1>4. CASE SaveAndExit \/ Crash BY <1>4 DEF SaveAndExit, Crash, ProcessEnds
  <1>5. CASE Shutdown \/ Restart \/ NewBlock
    BY <1>5 DEF Shutdown, Restart, NewBlock, store
  <1> QED BY <1>1, <1>2, <1>3, <1>4, <1>5 DEF Next

\* Once the watcher is shut down nothing is output and nothing is marked complete
\* any more (the active flag that processBlock looks at again after its await).
THEOREM ShutdownIsQuiet == Spec => QuietAfterShutdown
  <1>1. [Next]_vars => [~active /\ pc' # "down" => UNCHANGED <<writes, completed>>]_vars
    BY WhoTouchesTheStore
  <1> QED BY <1>1, PTL DEF Spec, QuietAfterShutdown

\* Completed blocks never leave the checkpoint file, nor does the initial block
\* change under them (State.initialize, start, State.shutdown).
THEOREM ProgressIsKept == Spec => SavedProgressKept
  <1>1. SafetyInv /\ [Next]_vars =>
          [/\ file.completed \subseteq file'.completed
           /\ file.completed # {} => file'.initial = file.initial]_vars
    <2> SUFFICES ASSUME SafetyInv, [Next]_vars
                 PROVE  /\ file.completed \subseteq file'.completed
                        /\ file.completed # {} => file'.initial = file.initial
      OBVIOUS
    <2>1. CASE file' = file BY <2>1
    <2>2. CASE file' = [initial |-> initial, completed |-> completed]
      BY <2>2 DEF SafetyInv, StoreInv
    <2> QED BY <2>1, <2>2, WhoTouchesTheStore
  <1> QED BY <1>1, SafetyInvariant, PTL DEF Spec, SavedProgressKept
=============================================================================
