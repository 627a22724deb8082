---------------------------- MODULE RangeWatcher ----------------------------
(***************************************************************************)
(* The balance watcher and the NFT watcher (core/balancewatcher.ts,        *)
(* core/nftwatcher.ts): the polling loop, the chunks and the shutdown of   *)
(* the block watcher, with two differences.                                *)
(*                                                                         *)
(* - With a configured endAt the loop stops by itself: once the node is    *)
(*   past that block and no block up to it is missing, the watcher clears  *)
(*   its active flag and runs its end callbacks.  The abort handle is left *)
(*   alone, and shutdown() comes too late to have a callback run.          *)
(* - processBlock looks at the active flag before it asks for the          *)
(*   transactions of a block, and no longer when they arrive.              *)
(*                                                                         *)
(* The variable active of BlockWatcher stands for the abort handle; the    *)
(* flag of the code is active /\ ~finished.                                *)
(***************************************************************************)
EXTENDS BlockWatcher

CONSTANT EndAt    \* config endAt: the last block to process, NoBlock if undefined

ASSUME EndAssumption == EndAt \in Nat \cup {NoBlock}

VARIABLE finished \* the loop has ended by itself, before any shutdown()

rangeVars == <<head, pc, active, failures, todo, pools, current, initial,
               completed, file, writes, mishaps, faults, restarts, finished>>

-----------------------------------------------------------------------------
(* The chunks                                                              *)

\* A seeded fault: the first block of a chunk marks the whole chunk complete.
WriteBlockMarksChunk(p, i) ==
    LET t == pools[p].tasks[i]
    IN /\ t.pc = "resume"
       /\ \E b \in Block :
            /\ IsNext(b, t)
            /\ update(p, i, [t EXCEPT !.pc = "block", !.blocks = @ \ {b}])
            /\ writes' = [writes EXCEPT ![b] = @ + 1]
            /\ completed' = completed \cup blockRangeToSet(t.chunk)
       /\ UNCHANGED <<node, loop, active, initial, file, mishaps, restarts, finished>>

\* The transactions have arrived: the block is written and marked complete,
\* whether or not the watcher has been shut down meanwhile.
WriteBlock(p, i) ==
    LET t == pools[p].tasks[i]
    IN /\ t.pc = "resume"
       /\ \E b \in Block :
            /\ IsNext(b, t)
            /\ update(p, i, [t EXCEPT !.pc = "block", !.blocks = @ \ {b}])
            /\ writes' = [writes EXCEPT ![b] = @ + 1]
            /\ completed' = completed \cup {b}
       /\ UNCHANGED <<node, loop, active, initial, file, mishaps, restarts, finished>>

\* A task that is started after the end was reached returns at once.
skipQueued(pool) ==
    [pool EXCEPT !.started = Len(pool.tasks),
                 !.tasks = [i \in DOMAIN @ |->
                     IF @[i].pc = "queued" THEN [@[i] EXCEPT !.pc = "ok"] ELSE @[i]]]

\* A task of a call ends.  Only calls that were given up on are left when the
\* end has been reached.
settleRange(p, i, result) ==
    \/ ~(finished /\ active) /\ settle(p, i, result)
    \/ /\ finished /\ active
       /\ LET after == skipQueued(endTask(pools[p], i, result))
          IN pools' = [pools EXCEPT ![p] = IF after.running = 0 THEN FreePool ELSE after]

FinishRangeChunk(p, i) ==
    LET t == pools[p].tasks[i]
    IN /\ t.pc = "block" /\ t.blocks = {}
       /\ settleRange(p, i, "ok")
       /\ UNCHANGED <<node, loop, active, store, writes, mishaps, restarts, finished>>

FailRangeAttempt(p, i) ==
    LET t == pools[p].tasks[i]
    IN /\ t.pc \in {"request", "txs"} /\ active
       /\ faults < MaxFaults
       /\ faults' = faults + 1
       /\ \/ t.attempt < Attempts /\ update(p, i, [t EXCEPT !.pc = "wait", !.blocks = {}])
          \/ t.attempt >= Attempts /\ settleRange(p, i, "err")
       /\ UNCHANGED <<head, loop, active, store, writes, mishaps, restarts, finished>>

\* A seeded fault: the wait of retry() cannot be aborted.
RetryAfterAbort(p, i) ==
    LET t == pools[p].tasks[i]
    IN /\ t.pc = "wait"
       /\ update(p, i, startAttempt(t))
       /\ UNCHANGED <<node, loop, active, store, writes, mishaps, restarts>>

\* The wait is over and retry() runs processChunk again.
RetryRangeChunk(p, i) == RetryChunk(p, i)

RangeChunkStep(p, i) ==
    \/ UNCHANGED finished /\ \/ ReceiveBlocks(p, i)
                             \/ StartBlock(p, i)
                             \/ ReceiveTransactions(p, i)
                             \/ RetryRangeChunk(p, i)
                             \/ pools[p].tasks[i].pc # "resume" /\ AbortChunk(p, i)
    \/ WriteBlock(p, i)
    \/ FinishRangeChunk(p, i)
    \/ FailRangeAttempt(p, i)

-----------------------------------------------------------------------------
(* The polling loop                                                        *)

\* A seeded fault: the end is taken for the number of blocks.
upToExclusive(latest) ==
    IF EndAt # NoBlock /\ latest > EndAt THEN EndAt - 1 ELSE latest

\* A seeded fault: the latest block is not cut at the end.
upToLatest(latest) == latest

reachedEnd(latest) == EndAt # NoBlock /\ latest > EndAt

\* The block up to which a round works.
upTo(latest) == IF reachedEnd(latest) THEN EndAt ELSE latest

\* A seeded fault: the end is reached only with a block after it complete too.
ReceiveLatestNeverEnds ==
    /\ pc = "poll"
    /\ \E latest \in LatestBlock :
         EnterRange(IncompleteRanges(completed, initial, upTo(latest)), pools)
    /\ UNCHANGED <<node, active, failures, store, writes, mishaps, restarts, finished>>

\* The latest block arrives: the round covers the ranges missing up to it or up
\* to the end, or the end is reached and the loop stops.
ReceiveLatestInRange ==
    /\ pc = "poll"
    /\ \E latest \in LatestBlock :
         LET ranges == IncompleteRanges(completed, initial, upTo(latest))
         IN \/ /\ ~(reachedEnd(latest) /\ ranges = {})
               /\ EnterRange(ranges, pools)
               /\ UNCHANGED finished
            \/ /\ reachedEnd(latest) /\ ranges = {}
               /\ LoopEnds /\ finished' = active
               /\ UNCHANGED pools
    /\ UNCHANGED <<node, active, failures, store, writes, mishaps, restarts>>

RangeLoopStep ==
    \/ UNCHANGED finished /\ \/ Start \/ ReceiveInitialBlock \/ FailInitialBlock
                             \/ FailLatest
                             \/ PoolResolves \/ PoolRejects \/ PoolAborts
                             \/ EndBackoff \/ EndSleep
    \/ ReceiveLatestInRange

-----------------------------------------------------------------------------
(* The process                                                             *)

\* shutdown() of a watcher that has finished waits for ever, so State.shutdown
\* behind it in shutdownAll is reached by the others only.
SaveRangeAndExit == ~finished /\ SaveAndExit /\ UNCHANGED finished

RangeCrash == Crash /\ finished' = FALSE

RangeInit == Init /\ finished = FALSE

RangeNext ==
    \/ RangeLoopStep
    \/ \E p \in Pool : \E i \in DOMAIN pools[p].tasks : RangeChunkStep(p, i)
    \/ UNCHANGED finished /\ (Shutdown \/ Restart \/ NewBlock)
    \/ SaveRangeAndExit \/ RangeCrash

RangeFairness ==
    /\ WF_rangeVars(RangeLoopStep)
    /\ WF_rangeVars(SaveRangeAndExit)
    /\ WF_rangeVars(\E p \in Pool : \E i \in DOMAIN pools[p].tasks : RangeChunkStep(p, i))

RangeSpec == RangeInit /\ [][RangeNext]_rangeVars /\ RangeFairness

-----------------------------------------------------------------------------
(* Properties                                                              *)

\* A watcher that stops by itself has completed and output exactly the blocks
\* from its initial block to endAt: the blocks of failed rounds as well, and none
\* beyond the end.  Only where the initial block is relative to the latest one
\* can lower blocks have been output, by a process that ended without saving.
\* (With an initial block at or above endAt it stops with nothing done:
\* getIncompleteRanges has nothing to offer then.)
FinishedExactly ==
    finished /\ initial < EndAt =>
        /\ completed = initial .. EndAt
        /\ \A b \in completed : writes[b] > 0
        /\ \A b \in Block \ completed : writes[b] > 0 => StartAt.latest /\ b < initial

\* While it runs, no chunk asks for a block beyond the end, wherever it began.
NothingPastEnd ==
    EndAt # NoBlock =>
        \A p \in Pool : \A i \in DOMAIN pools[p].tasks :
            \A b \in pools[p].tasks[i].blocks : b <= EndAt

\* Once shutdown() has aborted them, no chunk begins a request again, neither
\* after a wait nor from the queue of a call, although blocks whose transactions
\* have arrived are still written.
NoRequestAfterShutdown ==
    [][~active /\ pc' # "down" =>
          \A p \in Pool : \A i \in DOMAIN pools'[p].tasks :
              pools'[p].tasks[i].pc \in {"request", "txs"} =>
                  /\ i \in DOMAIN pools[p].tasks
                  /\ pools[p].tasks[i].pc = pools'[p].tasks[i].pc]_rangeVars

\* Once the node is sure to report a block past endAt, a watcher that is left
\* running reaches its end, however its requests fail.
EndIsReached ==
    EndAt # NoBlock /\ head > EndAt + MaxLag ~> (finished \/ ~active \/ pc = "down")
=============================================================================
