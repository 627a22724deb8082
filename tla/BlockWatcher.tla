---------------------------- MODULE BlockWatcher ----------------------------
(***************************************************************************)
(* The block watcher (core/blockwatcher.ts) over the helpers it runs on:   *)
(* parallel() of utils/async.ts, retry() of utils/retry.ts and the abort   *)
(* handle of utils/abort.ts.                                               *)
(*                                                                         *)
(* One polling loop asks the node for its latest block, asks the           *)
(* checkpoint for the block ranges still missing, and for each range runs  *)
(* one parallel() call: a queue of chunks of which maxParallelChunks are   *)
(* processed at a time, every chunk under retry().  An action is what runs *)
(* between two awaits.  When a chunk exhausts its attempts the call        *)
(* rejects and the loop goes on to poll again, but nothing stops the other *)
(* chunks of the call: they live on in the background, next to the chunks  *)
(* of later calls.                                                         *)
(*                                                                         *)
(* The checkpoint is the set of completed blocks (Checkpoint shows that    *)
(* the code's list of ranges behaves like this set).  It reaches the file  *)
(* only when a clean shutdown gets as far as State.shutdown.               *)
(***************************************************************************)
EXTENDS BlockRange

CONSTANTS
    StartAt,             \* config startAt: [latest |-> BOOLEAN, n |-> Int]
    blocksMaxChunkSize,  \* config: blocks per chunk
    maxParallelChunks,   \* config: chunks of one parallel() call in progress
    chunkQueueMaxSize,   \* chunks per parallel() call, 1000 in the code
    Attempts,            \* attempts of retry(), 100 in the code
    MinHead,             \* bound: the latest block a behaviour begins with
    MaxBlock,            \* bound: the highest block the chain reaches
    MaxLag,              \* bound: how far a reported latest block is behind
    MaxFaults,           \* bound: failed requests in a behaviour
    MaxRestarts,         \* bound: restarts of the process in a behaviour
    MaxPools             \* bound: parallel() calls with live chunks at a time

ASSUME ConfigAssumption ==
    /\ StartAt \in [latest : BOOLEAN, n : Int]
    /\ StartAt.latest => StartAt.n <= 0
    /\ ~StartAt.latest => StartAt.n >= 0
    /\ blocksMaxChunkSize \in Nat \ {0}
    /\ maxParallelChunks \in Nat \ {0}
    /\ chunkQueueMaxSize \in Nat \ {0}
    /\ Attempts \in Nat \ {0}

ASSUME BoundAssumption ==
    /\ MinHead \in Nat /\ MaxBlock \in Nat /\ MaxLag \in Nat /\ MaxFaults \in Nat
    /\ MaxRestarts \in Nat /\ MaxPools \in Nat
    /\ MaxFaults < Attempts * MaxPools   \* so no call ever finds no free pool

VARIABLES
    head,        \* the node's latest block
    pc,          \* what the polling loop of start() awaits
    active,      \* false, and abortHandle aborted, once shutdown() was called
    failures,    \* consecutive failures of the polling loop
    todo,        \* ranges of this round that no parallel() call has had yet
    pools,       \* the parallel() calls that still have live chunks
    current,     \* the call the loop awaits, NoPool if none
    initial,     \* initialBlockNumber of the checkpoint
    completed,   \* the blocks the checkpoint has as complete
    file,        \* the checkpoint file
    writes,      \* history: how often the messages of a block were output
    mishaps,     \* history: calls given up on, process exits without a save
    faults, restarts   \* what the bounds count

node == <<head, faults>>
loop == <<pc, failures, todo, current>>
store == <<initial, completed, file>>
vars == <<head, pc, active, failures, todo, pools, current, initial,
          completed, file, writes, mishaps, faults, restarts>>

Block == 0 .. MaxBlock
NoPool == 0
Pool == 1 .. MaxPools

FreePool == [tasks |-> <<>>, started |-> 0, running |-> 0, outcome |-> "free"]

\* A chunk in progress: fetching its blocks, between two blocks, awaiting the
\* transactions of a block, back from that await, or waiting to retry.
Live == {"request", "block", "txs", "resume", "wait"}

-----------------------------------------------------------------------------
(* parallel() and retry()                                                  *)

QueuedTask(chunk) ==
    [chunk |-> chunk, pc |-> "queued", attempt |-> 0, blocks |-> {}]

\* processChunk begins: it requests the blocks of its chunk that are not
\* complete at this moment.
startAttempt(task) ==
    [task EXCEPT !.pc = "request", !.attempt = @ + 1,
                 !.blocks = blockRangeToSet(task.chunk) \ completed]

\* A seeded fault: the limit on running tasks is overrun by one.
nextTasksOneMore(pool) ==
    LET n == Min({Len(pool.tasks) - pool.started,
                  maxParallelChunks + 1 - pool.running})
        begun == pool.started + 1 .. pool.started + n
    IN IF ~active THEN pool
       ELSE [pool EXCEPT
               !.started = @ + n,
               !.running = @ + n,
               !.tasks = [i \in DOMAIN @ |-> IF i \in begun THEN startAttempt(@[i])
                                                            ELSE @[i]]]

\* next() of parallel(): unless aborted, start queued tasks in their order
\* while fewer than maxConcurrent are running.
nextTasks(pool) ==
    LET n == Min({Len(pool.tasks) - pool.started,
                  maxParallelChunks - pool.running})
        begun == pool.started + 1 .. pool.started + n
    IN IF ~active THEN pool
       ELSE [pool EXCEPT
               !.started = @ + n,
               !.running = @ + n,
               !.tasks = [i \in DOMAIN @ |-> IF i \in begun THEN startAttempt(@[i])
                                                            ELSE @[i]]]

\* A call of parallel() over the chunks of a range.
newPool(range) ==
    LET chunks == chunkedBlockRanges(range, blocksMaxChunkSize, chunkQueueMaxSize)
    IN nextTasks([FreePool EXCEPT
                    !.tasks = [i \in DOMAIN chunks |-> QueuedTask(chunks[i])],
                    !.outcome = "pending"])

\* What Promise.all over the tasks makes of the i-th one ending with `result`.
outcomeAfter(pool, i, result) ==
    IF pool.outcome # "pending" THEN pool.outcome
    ELSE IF result = "err" THEN "err"
    ELSE IF \A j \in DOMAIN pool.tasks \ {i} : pool.tasks[j].pc = "ok"
      THEN "ok" ELSE "pending"

endTask(pool, i, result) ==
    [pool EXCEPT !.running = @ - 1,
                 !.outcome = outcomeAfter(pool, i, result),
                 !.tasks[i] = [@ EXCEPT !.pc = result, !.blocks = {}]]

\* A task ends: its slot is given to the next one, then its promise settles.
\* A call that nobody awaits any more is forgotten with its last task.
settle(p, i, result) ==
    LET after == nextTasks(endTask(pools[p], i, result))
    IN pools' = [pools EXCEPT ![p] =
         IF after.outcome = "given up" /\ after.running = 0 THEN FreePool ELSE after]

update(p, i, task) == pools' = [pools EXCEPT ![p].tasks[i] = task]

-----------------------------------------------------------------------------
(* The chunks                                                              *)

\* The response of requestBatch arrives: the blocks of the chunk.
ReceiveBlocks(p, i) ==
    LET t == pools[p].tasks[i]
    IN /\ t.pc = "request"
       /\ update(p, i, [t EXCEPT !.pc = "block"])
       /\ UNCHANGED <<node, loop, active, store, writes, mishaps, restarts>>

IsNext(b, t) == b \in t.blocks /\ \A c \in t.blocks : b <= c

\* processBlock begins: it skips a block that has been completed meanwhile,
\* and requests receipts and contract information for the others.
StartBlock(p, i) ==
    LET t == pools[p].tasks[i]
    IN /\ t.pc = "block"
       /\ \E b \in Block :
            /\ IsNext(b, t)
            /\ \/ /\ b \in completed
                  /\ update(p, i, [t EXCEPT !.blocks = @ \ {b}])
               \/ /\ b \notin completed /\ active
                  /\ update(p, i, [t EXCEPT !.pc = "txs"])
       /\ UNCHANGED <<node, loop, active, store, writes, mishaps, restarts>>

\* The race of the transactions against the abort handle is won by the
\* transactions; the code after the await is yet to run.
ReceiveTransactions(p, i) ==
    LET t == pools[p].tasks[i]
    IN /\ t.pc = "txs" /\ active
       /\ update(p, i, [t EXCEPT !.pc = "resume"])
       /\ UNCHANGED <<node, loop, active, store, writes, mishaps, restarts>>

\* A seeded fault: the active flag is not looked at again after the await.
FinishBlockUnguarded(p, i) ==
    LET t == pools[p].tasks[i]
    IN /\ t.pc = "resume"
       /\ \E b \in Block :
            /\ IsNext(b, t)
            /\ update(p, i, [t EXCEPT !.pc = "block", !.blocks = @ \ {b}])
            /\ writes' = [writes EXCEPT ![b] = @ + 1]
            /\ completed' = completed \cup {b}
       /\ UNCHANGED <<node, loop, active, initial, file, mishaps, restarts>>

\* A seeded fault: the first block of a chunk marks the whole chunk complete.
FinishBlockMarksChunk(p, i) ==
    LET t == pools[p].tasks[i]
    IN /\ t.pc = "resume"
       /\ \E b \in Block :
            /\ IsNext(b, t)
            /\ update(p, i, [t EXCEPT !.pc = "block", !.blocks = @ \ {b}])
            /\ \/ /\ active
                  /\ writes' = [writes EXCEPT ![b] = @ + 1]
                  /\ completed' = completed \cup blockRangeToSet(t.chunk)
               \/ /\ ~active
                  /\ UNCHANGED <<writes, completed>>
       /\ UNCHANGED <<node, loop, active, initial, file, mishaps, restarts>>

\* The rest of processBlock: unless the watcher was shut down meanwhile, write
\* the messages of the block to the output and mark the block complete.  The
\* save() that markComplete calls has no effect: it is called as a method of the
\* checkpoint, whose version numbers are undefined, so it never reaches the file.
FinishBlock(p, i) ==
    LET t == pools[p].tasks[i]
    IN /\ t.pc = "resume"
       /\ \E b \in Block :
            /\ IsNext(b, t)
            /\ update(p, i, [t EXCEPT !.pc = "block", !.blocks = @ \ {b}])
            /\ \/ /\ active
                  /\ writes' = [writes EXCEPT ![b] = @ + 1]
                  /\ completed' = completed \cup {b}
               \/ /\ ~active
                  /\ UNCHANGED <<writes, completed>>
       /\ UNCHANGED <<node, loop, active, initial, file, mishaps, restarts>>

\* All blocks of the chunk are done.
FinishChunk(p, i) ==
    LET t == pools[p].tasks[i]
    IN /\ t.pc = "block" /\ t.blocks = {}
       /\ settle(p, i, "ok")
       /\ UNCHANGED <<node, loop, active, store, writes, mishaps, restarts>>

\* A seeded fault: retry() makes one attempt too many.
FailAttemptOneMore(p, i) ==
    LET t == pools[p].tasks[i]
    IN /\ t.pc \in {"request", "txs"} /\ active
       /\ faults < MaxFaults
       /\ faults' = faults + 1
       /\ \/ /\ t.attempt <= Attempts
             /\ update(p, i, [t EXCEPT !.pc = "wait", !.blocks = {}])
          \/ /\ t.attempt > Attempts
             /\ settle(p, i, "err")
       /\ UNCHANGED <<head, loop, active, store, writes, mishaps, restarts>>

\* The request of the blocks or one for a transaction fails.  The attempt ends;
\* retry() waits for the next one, or gives up after the last.
FailAttempt(p, i) ==
    LET t == pools[p].tasks[i]
    IN /\ t.pc \in {"request", "txs"} /\ active
       /\ faults < MaxFaults
       /\ faults' = faults + 1
       /\ \/ /\ t.attempt < Attempts
             /\ update(p, i, [t EXCEPT !.pc = "wait", !.blocks = {}])
          \/ /\ t.attempt >= Attempts
             /\ settle(p, i, "err")
       /\ UNCHANGED <<head, loop, active, store, writes, mishaps, restarts>>

\* The wait is over: processChunk runs again.
RetryChunk(p, i) ==
    LET t == pools[p].tasks[i]
    IN /\ t.pc = "wait" /\ active
       /\ update(p, i, startAttempt(t))
       /\ UNCHANGED <<node, loop, active, store, writes, mishaps, restarts>>

\* The abort handle rejects whatever retry() is waiting for.
AbortChunk(p, i) ==
    /\ ~active
    /\ pools[p].tasks[i].pc \in Live
    /\ settle(p, i, "err")
    /\ UNCHANGED <<node, loop, active, store, writes, mishaps, restarts>>

ChunkStep(p, i) ==
    \/ ReceiveBlocks(p, i)
    \/ StartBlock(p, i)
    \/ ReceiveTransactions(p, i)
    \/ FinishBlock(p, i)
    \/ FinishChunk(p, i)
    \/ FailAttempt(p, i)
    \/ RetryChunk(p, i)
    \/ AbortChunk(p, i)

-----------------------------------------------------------------------------
(* The polling loop                                                        *)

\* What the node may report as its latest block.
LatestBlock == {b \in Block : b <= head /\ b + MaxLag >= head}

\* The process is gone; the next one will start from the checkpoint file.
ProcessEnds(saved) ==
    /\ pc' = "down"
    /\ active' = TRUE
    /\ failures' = 0 /\ todo' = {} /\ current' = NoPool
    /\ pools' = [p \in Pool |-> FreePool]
    /\ file' = saved
    /\ initial' = saved.initial /\ completed' = saved.completed

\* The while loop ends with nothing left to do but the end callbacks.
LoopEnds ==
    /\ pc' = "ended"
    /\ todo' = {} /\ current' = NoPool
    /\ UNCHANGED failures

\* The loop body is left at its end: on to the poll interval, or out of the
\* loop if the watcher is no longer active.
RoundEnds ==
    \/ active /\ pc' = "sleep" /\ todo' = {} /\ current' = NoPool
    \/ ~active /\ pc' = "ended" /\ todo' = {} /\ current' = NoPool

\* The for loop over the ranges that are left, `ps` being the calls so far.
EnterRange(ranges, ps) ==
    \/ ranges = {} /\ RoundEnds /\ pools' = ps
    \/ /\ ranges # {} /\ ~active
       /\ pc' = "ended" /\ todo' = {} /\ current' = NoPool
       /\ pools' = ps
    \/ /\ active
       /\ \E r \in ranges, p \in Pool :
            /\ \A q \in ranges : r.from <= q.from
            /\ ps[p] = FreePool /\ \A q \in Pool : ps[q] = FreePool => p <= q
            /\ pools' = [ps EXCEPT ![p] = newPool(r)]
            /\ todo' = ranges \ {r}
            /\ current' = p
       /\ pc' = "pool"

\* A seeded fault: already the first failure in a row is followed by a wait.
CatchErrorWaitsAtOnce ==
    /\ failures' = failures + 1
    /\ pc' = IF active THEN "backoff" ELSE "rejected"
    /\ todo' = {} /\ current' = NoPool

\* The catch block: with the default back-off, linear from 0, the first
\* failure in a row waits for nothing, later ones wait and can be aborted;
\* nothing catches that abort, so start() rejects with it.
CatchError ==
    /\ failures' = failures + 1
    /\ \/ failures = 0 /\ RoundEnds
       \/ /\ failures > 0
          /\ pc' = IF active THEN "backoff" ELSE "rejected"
          /\ todo' = {} /\ current' = NoPool

InitialBlockFor(latest) ==
    IF StartAt.latest THEN Max({0, latest + StartAt.n}) ELSE StartAt.n

\* start(): an empty checkpoint takes its initial block from the configuration,
\* after a request if that is relative to the latest block.
Start ==
    /\ pc = "init"
    /\ \/ /\ completed = {} /\ StartAt.latest
          /\ pc' = "initRequest"
          /\ UNCHANGED initial
       \/ /\ completed = {} /\ ~StartAt.latest
          /\ initial' = InitialBlockFor(NoBlock)
          /\ pc' = IF active THEN "poll" ELSE "ended"
       \/ /\ completed # {}
          /\ pc' = IF active THEN "poll" ELSE "ended"
          /\ UNCHANGED initial
    /\ UNCHANGED <<node, active, failures, todo, pools, current, completed,
                   file, writes, mishaps, restarts>>

ReceiveInitialBlock ==
    /\ pc = "initRequest"
    /\ \E latest \in LatestBlock : initial' = InitialBlockFor(latest)
    /\ pc' = IF active THEN "poll" ELSE "ended"
    /\ UNCHANGED <<node, active, failures, todo, pools, current, completed,
                   file, writes, mishaps, restarts>>

\* That request fails and start() rejects: the process exits without shutting
\* anything down, unless it is shutting down already.
FailInitialBlock ==
    /\ pc = "initRequest"
    /\ faults < MaxFaults
    /\ faults' = faults + 1
    /\ \/ active /\ ProcessEnds(file) /\ mishaps' = mishaps + 1
       \/ /\ ~active /\ pc' = "rejected"
          /\ UNCHANGED <<active, failures, todo, pools, current, store, mishaps>>
    /\ UNCHANGED <<head, writes, restarts>>

\* A seeded fault: the latest block is taken for the number of blocks.
ReceiveLatestOneMore ==
    /\ pc = "poll"
    /\ \E latest \in LatestBlock :
         EnterRange(IncompleteRanges(completed, initial, latest + 1), pools)
    /\ UNCHANGED <<node, active, failures, store, writes, mishaps, restarts>>

\* The latest block arrives: the round covers the ranges missing up to it.
ReceiveLatest ==
    /\ pc = "poll"
    /\ \E latest \in LatestBlock :
         EnterRange(IncompleteRanges(completed, initial, latest), pools)
    /\ UNCHANGED <<node, active, failures, store, writes, mishaps, restarts>>

FailLatest ==
    /\ pc = "poll"
    /\ faults < MaxFaults
    /\ faults' = faults + 1
    /\ CatchError
    /\ UNCHANGED <<head, active, pools, store, writes, mishaps, restarts>>

\* parallel() resolves: on to the next range of the round.
PoolResolves ==
    /\ pc = "pool" /\ pools[current].outcome = "ok"
    /\ failures' = 0
    /\ EnterRange(todo, [pools EXCEPT ![current] = FreePool])
    /\ UNCHANGED <<node, active, store, writes, mishaps, restarts>>

\* parallel() rejects because a chunk has used up its attempts: the round is
\* over, the other chunks of the call go on.
PoolRejects ==
    /\ pc = "pool" /\ pools[current].outcome = "err"
    /\ pools' = [pools EXCEPT ![current] =
         IF @.running = 0 THEN FreePool ELSE [@ EXCEPT !.outcome = "given up"]]
    /\ mishaps' = mishaps + 1
    /\ CatchError
    /\ UNCHANGED <<node, active, store, writes, restarts>>

\* parallel() rejects with ABORT, which breaks out of the loop.
PoolAborts ==
    /\ pc = "pool" /\ pools[current].outcome = "abort"
    /\ LoopEnds
    /\ UNCHANGED <<node, active, pools, store, writes, mishaps, restarts>>

\* The back-off ends by its timer, or start() rejects with ABORT.
EndBackoff ==
    /\ pc = "backoff"
    /\ pc' = IF active THEN "sleep" ELSE "rejected"
    /\ UNCHANGED <<node, active, failures, todo, pools, current, store, writes,
                   mishaps, restarts>>

\* The poll interval ends by its timer, or ABORT breaks out of the loop.
EndSleep ==
    /\ pc = "sleep"
    /\ pc' = IF active THEN "poll" ELSE "ended"
    /\ UNCHANGED <<node, active, failures, todo, pools, current, store, writes,
                   mishaps, restarts>>

LoopStep ==
    \/ Start \/ ReceiveInitialBlock \/ FailInitialBlock
    \/ ReceiveLatest \/ FailLatest
    \/ PoolResolves \/ PoolRejects \/ PoolAborts
    \/ EndBackoff \/ EndSleep

-----------------------------------------------------------------------------
(* The process and the node                                                *)

\* SIGINT or SIGTERM: shutdownAll calls shutdown(), which clears the active
\* flag, aborts every race in progress and waits for the end callbacks.
Shutdown ==
    /\ active /\ pc # "down"
    /\ active' = FALSE
    /\ pools' = [p \in Pool |->
         IF pools[p].outcome = "pending" THEN [pools[p] EXCEPT !.outcome = "abort"]
                                         ELSE pools[p]]
    /\ UNCHANGED <<node, loop, store, writes, mishaps, restarts>>

\* The end callbacks have run, so shutdown() resolves and shutdownAll gets to
\* State.shutdown, which writes the checkpoint file; then the process exits.
SaveAndExit ==
    /\ pc = "ended"
    /\ ProcessEnds([initial |-> initial, completed |-> completed])
    /\ UNCHANGED <<node, writes, mishaps, restarts>>

\* The process is killed, or ends on an error elsewhere.
Crash ==
    /\ pc # "down" /\ restarts < MaxRestarts
    /\ ProcessEnds(file)
    /\ mishaps' = mishaps + 1
    /\ UNCHANGED <<node, writes, restarts>>

\* A seeded fault: the restarted process does not read the checkpoint file.
RestartEmpty ==
    /\ pc = "down" /\ restarts < MaxRestarts
    /\ restarts' = restarts + 1
    /\ pc' = "init"
    /\ initial' = NoBlock /\ completed' = {}
    /\ UNCHANGED <<node, active, failures, todo, pools, current, file, writes,
                   mishaps>>

\* A new process starts from the checkpoint file (State.initialize).
Restart ==
    /\ pc = "down" /\ restarts < MaxRestarts
    /\ restarts' = restarts + 1
    /\ pc' = "init"
    /\ UNCHANGED <<node, active, failures, todo, pools, current, store, writes,
                   mishaps>>

\* The chain grows.
NewBlock ==
    /\ head < MaxBlock
    /\ head' = head + 1
    /\ UNCHANGED <<loop, active, pools, store, writes, mishaps, faults, restarts>>

Init ==
    /\ head \in MinHead .. MaxBlock
    /\ pc = "init" /\ active = TRUE /\ failures = 0
    /\ todo = {} /\ current = NoPool
    /\ pools = [p \in Pool |-> FreePool]
    /\ initial = NoBlock /\ completed = {}
    /\ file = [initial |-> NoBlock, completed |-> {}]
    /\ writes = [b \in Block |-> 0]
    /\ mishaps = 0 /\ faults = 0 /\ restarts = 0

Next ==
    \/ LoopStep
    \/ \E p \in Pool : \E i \in DOMAIN pools[p].tasks : ChunkStep(p, i)
    \/ Shutdown \/ SaveAndExit \/ Crash \/ Restart \/ NewBlock

Spec == Init /\ [][Next]_vars

-----------------------------------------------------------------------------
(* Safety                                                                  *)

BlockSpan == {r \in [from : Block, to : Block] : r.from <= r.to}

Task == [chunk : BlockSpan, attempt : 0 .. Attempts, blocks : SUBSET Block,
         pc : Live \cup {"queued", "ok", "err"}]

\* The checkpoint as a record, in memory and in the file.
SavedCheckpoint == [initial : Int, completed : SUBSET Block]

\* What has become of the promise of a call.
Outcome == {"free", "pending", "ok", "err", "abort", "given up"}

PoolRecord == [tasks : Seq(Task), started : Nat, running : Int, outcome : Outcome]

\* Where the polling loop is, with the process itself as "down" if it is not up.
LoopState == {"init", "initRequest", "poll", "pool", "backoff", "sleep", "ended",
              "rejected", "down"}

TypeOK ==
    /\ head \in Block
    /\ pc \in LoopState
    /\ active \in BOOLEAN
    /\ failures \in Nat
    /\ todo \subseteq BlockSpan
    /\ pools \in [Pool -> PoolRecord]
    /\ \A p \in Pool : pools[p].started <= Len(pools[p].tasks)
    /\ current \in Pool \cup {NoPool}
    /\ [initial |-> initial, completed |-> completed] \in SavedCheckpoint
    /\ file \in SavedCheckpoint
    /\ writes \in [Block -> Nat]
    /\ mishaps \in Nat /\ faults \in Nat /\ restarts \in Nat

\* At least once: no block counts as complete, in memory or in the file, that
\* has not been written to the output, whatever is shut down, fails or crashes.
CompletedWereWritten ==
    \A b \in completed \cup file.completed : writes[b] > 0

\* A block is output a second time only on account of a round that was given up
\* on or of an exit without a save: chunks of one round never share a block, a
\* retry skips what its failed attempt completed, later rounds skip the rest.
DuplicatesNeedAMishap ==
    \A b \in Block : writes[b] <= 1 + mishaps

\* The tasks of a call that have been started and have not ended.
RunningTasks(pool) == {i \in DOMAIN pool.tasks : pool.tasks[i].pc \in Live}

\* parallel() keeps the count of its running tasks exact and under the limit,
\* through every order of tasks that end, fail, retry and are aborted.
CallWithinLimit ==
    \A p \in Pool :
        /\ Cardinality(RunningTasks(pools[p])) = pools[p].running
        /\ pools[p].running <= maxParallelChunks

\* Every block requested from the node lies between the initial block and the
\* node's head, also in rounds that began at a lagging latest block.
RequestsWithinChain ==
    \A p \in Pool : \A i \in DOMAIN pools[p].tasks :
        pools[p].tasks[i].blocks \subseteq initial .. head

\* Blocks waiting for their transactions when the watcher is shut down are left
\* alone: from then on nothing is output and nothing is marked complete.
QuietAfterShutdown ==
    [][~active /\ pc' # "down" => UNCHANGED <<writes, completed>>]_vars

\* What the file holds is not lost again: its completed blocks stay in it and
\* the initial block stays what it was once there are any.
SavedProgressKept ==
    [][/\ file.completed \subseteq file'.completed
       /\ file.completed # {} => file'.initial = file.initial]_vars

\* config.ts on maxParallelChunks: "Max. number of chunks to process in parallel".
ChunksInParallelLimited ==
    Cardinality(UNION {{p} \X RunningTasks(pools[p]) : p \in Pool}) <= maxParallelChunks

-----------------------------------------------------------------------------
(* Liveness                                                                *)

\* The event loop runs every continuation that is ready, every timer fires and
\* the node answers every request in the end, with a response or an error.
\* Nothing makes signals, crashes, restarts or new blocks happen.  Fairness to
\* the chunks as a whole is enough: each of them takes finitely many steps.
Fairness ==
    /\ WF_vars(LoopStep)
    /\ WF_vars(SaveAndExit)
    /\ WF_vars(\E p \in Pool : \E i \in DOMAIN pools[p].tasks : ChunkStep(p, i))

FairSpec == Spec /\ Fairness

\* The blocks whose output is due: from the initial block to the latest block
\* the node is sure to report, once that is above the initial block.
Backlog ==
    {b \in Block : /\ initial # NoBlock /\ initial + MaxLag < head
                   /\ initial <= b /\ b + MaxLag <= head
                   /\ writes[b] = 0}

\* However its requests fail, a watcher that is left running catches up with the
\* node again and again: no block stays due for ever.
CatchesUp == []<>(Backlog = {} \/ ~active \/ pc = "down")

\* A shutdown that does not follow a failure of the polling loop completes.
ShutdownWithoutFailureCompletes ==
    (~active /\ failures = 0 /\ pc \in {"poll", "pool", "sleep"}) ~> (pc = "down")

\* config.ts on the checkpoint: "This allows it to resume where it left off
\* after being shut down and restarted": every shutdown gets to save it.
EveryShutdownSaves == ~active ~> (pc = "down")

\* config.ts on saveInterval: "Maximum duration before saving updated checkpoint
\* information to disk": what a running watcher completes is saved in the end.
CompletedGetSaved ==
    \A b \in Block :
        b \in completed ~> (b \in file.completed \/ ~active \/ pc = "down")
=============================================================================
