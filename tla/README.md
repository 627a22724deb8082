# ethereum-bitcoin-surveillance: TLA+ models and proofs

The repository downloads a blockchain: it polls an Ethereum node, hands every
block with its transactions and events to an output (MongoDB, Splunk HEC,
console), and keeps in a checkpoint file which blocks it has done. This
directory models what has to be right whatever fails, from the batching of
requests to the order of shutdown, checks the models with TLC, and proves their
safety properties with TLAPS. Paths below are relative to `src/src/`.

| question | answered by |
| --- | --- |
| Does the checkpoint's list of ranges stand for a growing set of blocks, and are the gaps it offers the missing blocks? | run `checkpoint`, theorems `ListImplementsSet`, `OffersWhatIsMissing` |
| Do the chunks of a range partition it? | run `checkpoint`, theorem `ChunksPartitionRange` |
| Is every completed block in the output, after failures, retries, shutdowns and crashes? | run `watcher_safety`, theorem `AtLeastOnce` |
| When is a block output twice? | run `watcher_safety`, theorem `OutputOnceButForMishaps` |
| Does the watcher catch up, and does shutdown end? | runs `watcher_live`, `watcher_shutdown_hang` |
| Does a watcher with an end block stop at the right point? | run `range_watcher`, theorems `StopsWhenDone`, `NothingIsPastEnd` |
| What becomes of a message once an output has accepted it? | run `output`, theorems `EachInOnePlace`, `OutboxImplemented` |
| Is every request sent once, and answered with its own answer? Does the cache forget failures and keep what is used? | run `eth_client`, theorems `RequestsAreUnderWay`, `ResolvedWithOwnAnswer`, `FailuresAreRemoved`, `RecentOnesAreKept` |
| Is everything saved and in the right order when the process ends? | runs `lifecycle`, `checkpoint_wiped`, `messages_lost`, theorems `CleanExitSavesAll`, `ProgressIsKept`, `SavedBlocksWereAccepted`, `NobodyWritesTooLate` |
| Do checkpoint saves and the limit on parallel chunks do what `config.ts` says? | runs `watcher_autosave`, `watcher_parallel_limit` (they do not) |

## Inventory of the system

The program is a single Node process. Nothing runs in parallel, but every
`await` lets everything else run: interleavings happen between awaits.

| component | state | operations | hard part | correct means |
| --- | --- | --- | --- | --- |
| `core/blockrange.ts` | none | compact, chunk, invert ranges | borders, both ends inclusive | chunks partition, gaps are exact |
| `core/state.ts` `CheckpointImpl` | completed ranges, initial block | mark, query, reload | list stays compact | a set that only grows |
| `core/state.ts` `State` | checkpoints, versions, save promise, file | initialize, save, shutdown | non-atomic write; save called on the wrong object | progress survives restarts |
| `core/blockwatcher.ts` | `active`, failures, calls in flight | start (poll loop), processChunk, processBlock, shutdown | chunks of an abandoned call next to a new round; shutdown at any await | at-least-once output, catch up, clean stop |
| `utils/async.ts`, `retry.ts`, `abort.ts` | task queue, attempts, raced promises | parallel, retry, race, abort | a rejected `parallel()` does not stop its tasks | limit kept, abort reaches every wait |
| `core/balancewatcher.ts`, `nftwatcher.ts` | as the block watcher, and `endAt` | as the block watcher | the loop may end by itself before shutdown | as above, and shutdown still ends |
| `core/index.ts`, `utils/resource.ts` | list of resources | run, shutdownAll | order of shutdown, one hanging resource, error exits | everything is saved and flushed |
| `core/mongo.ts`, `hec.ts`, `output.ts` | queue, timer, flushes in flight, counters | push, flush, send with retries, shutdown | several flushes at once, messages queued during a flush | nothing accepted is lost, queue bounded |
| `eth/client.ts` | queue, flush timer | request, requestBatch, processQueue | size limit and timer race; partial answers | each request sent once and settled once |
| `utils/cache.ts`, `lru.ts` | two maps, a size | cachedAsync, get, set, unset | a failed lookup unsets a newer one | bounded, no failed entry stays |
| `core/nodestats.ts`, `utils/stats.ts`, `core/health.ts` | timers, abort handles, a file | periodic collection, shutdown | abort inside a catch block | stops, and removes its file |
| `abi/*`, `platforms/*`, `core/config.ts`, `format.ts`, `msgs.ts` | tables read at start | lookups, conversions | none of the above: sequential | right data |
| `ethereum/*`, `cache/*`, `p-queue`, `scheduler/*` | job file, queues | older downloader, cron | read-modify-write of one JSON file | no lost update |

How they interact: `index.ts` creates the output, the state, the caches and the
watchers and pushes each to the front of the list of resources. A watcher calls
the client for requests, the output's `write` for messages (not awaited) and
the checkpoint's methods synchronously. A signal makes `run` call `shutdownAll`,
which calls `shutdown` on each resource in turn and waits for it: nftWatchers,
balanceWatchers, blockWatcher, nodeStats, abiRepo, State, internal stats,
output, health. A watcher's `shutdown` aborts its abort handle and waits for a
callback that the end of its polling loop runs.

`PROJECT.json` lists the components with what is modelled of each, the hazards
at the line where they bite, and for every definition the lines it translates.

## Modules

* `BlockRange` translates `core/blockrange.ts`. `compactRanges` is the stable
  sort, as an insertion of one range after the other, followed by a fold of
  `Absorb`; the loop of `chunkedBlockRanges` is described
  by the number of turns it makes (`FullChunks`). The second half says what
  `getIncompleteRanges` means in terms of sets (`IncompleteRanges`).
* `CompletedBlocks` is the abstract checkpoint: a set of blocks that grows.
* `Checkpoint` is `CheckpointImpl`: the list of ranges and the initial block.
  `reload` is `serialize` followed by `initializeFromCheckpointContents`.
* `BlockWatcher` composes the watcher, the async helpers it runs on, the node,
  the checkpoint, the checkpoint file, and the end and restart of the process.
* `RangeWatcher` extends it to the balance and NFT watchers.
* `Outbox` is the abstract output: a message is pending, then stored or lost.
* `OutputQueue` is the queue of the Mongo and HEC clients behind `write()`.
* `EthClient` is the batching client; `ContractInfoCache` composes it with
  `cachedAsync` and the LRU cache as contract lookups use them.
* `Lifecycle` is startup, `shutdownAll` and restart over all resources.
* `MC...` modules and their `.cfg` files give the instances their constants.
* `BlockRangeProofs`, `CheckpointProofs`, `BlockWatcherProofs`,
  `WatcherCallProofs`, `RangeWatcherProofs`, `LifecycleProofs`,
  `ContractInfoCacheProofs` and `OutputQueueProofs` hold the theorems. They
  extend one another where the models do: the proofs of the checkpoint and the
  block watcher rest on the facts about ranges, those about its calls and about
  the watchers with an end on the block watcher's.

Definitions named as seeded faults (`AbsorbOverlapOnly`, `FinishBlockMarksChunk`
and others) are plausible bugs of the code. They are used by nothing but the
mutants of `PROJECT.json`, which put them in place of the right definition to
show that each property can fail.

### How BlockWatcher corresponds to the code

`pc` is the place where the polling loop of `start()` awaits: `initRequest`
and `poll` the two requests for the latest block, `pool` the promise of
`parallel()`, `backoff` the wait in the catch block, `sleep` the poll interval;
`ended` and `rejected` the two ways in which `start()` can end, and `down` that
the process has exited. `pools` holds the calls of `parallel()` with live
chunks: the queue of tasks, how many of them were started, the counter
`running`, and what became of the promise. A chunk's `pc` is its own await:
the batch of blocks (`request`), the transactions of a block (`txs`), the wait
of `retry` (`wait`); `block` and `resume` are the points between awaits where
another continuation can come first. An action is what runs from one await to
the next, all calls included.

* A call that rejects because a chunk has no attempts left is marked "given
  up": the loop goes on, the call's chunks go on too, and it is forgotten with
  its last one. A chunk of a given-up call still takes chunks from its queue.
* `resume` (the transactions won the race, the code after the await is yet to
  run) can meet a shutdown: responses of one JSON-RPC batch settle several
  promises in one turn, and one of them may belong to another watcher whose end
  lets `shutdownAll` move on to this one.
* The first failure of the loop in a row waits `linearBackoff(1) = 0`, so there
  is no await; later ones wait and can be aborted, and nothing catches that.
* `save()` as `CheckpointImpl` calls it does nothing: see the findings.
  The file changes in `SaveAndExit` alone.
* `failures`, `mishaps`, `writes`: `failures` is the code's variable; `writes`
  (how often a block's messages went to the output) and `mishaps` (given-up
  calls, and exits without a save) are history variables for the properties.

What is abstracted: the checkpoint is the set of its blocks, which the theorems
`OffersWhatIsMissing` and `ListImplementsSet` about `Checkpoint` justify.
The requests for receipts, contract code and logs of a block are one await that
succeeds or fails; what a message contains is not modelled, so the swallowed
error of a receipt request is a listed hazard and not a property. Waits have no
length. The node's chain only grows. The watcher is the only one in its
process: `SaveAndExit` stands for the rest of `shutdownAll`; the other
resources are in `Lifecycle`. A node that
answers with an error, does not know a block yet, or cannot be reached is the
same to the loop: the attempt fails.

### RangeWatcher

The code of the two watchers is a copy of the block watcher's with two
differences, and the module states just these over the actions of
`BlockWatcher`. `active` of `BlockWatcher` stands for the abort handle, and the
flag of the code is `active /\ ~finished`: a watcher that reaches `endAt` clears
its flag and leaves the handle alone.

* The end is reached when the latest block is above `endAt` (not at it) and
  nothing up to it is missing. Tasks still queued in a call that was given up
  on then return at once (`skipQueued`); running ones go on.
* A finished watcher has run its end callbacks, so a later `shutdown()` waits
  for ever: `SaveRangeAndExit` needs `~finished`.
* `processBlock` looks at the flag before the await and not after it, so
  `WriteBlock` has no guard, and a chunk in `resume` is not aborted.
* With `startAt` at or above `endAt` the watcher stops with nothing processed.

### Outbox and OutputQueue

`Push` is `write()` up to its first await, `ResumePush` the rest of it once the
flush it waited for is over; any number of pushes can wait, since nobody awaits
`write()`. A flush turns the queue into an entry of `batches`, which is sent
message by message (`SendMessage`), and repeated from its first message when an
attempt throws. The first message is sent in a step of its own, although in the
code it follows the flush without an await. Both clients are in one module: they
differ in the limit that makes a push flush first and in how an attempt goes.

* With the default `maxQueueEntries` of -1 the Mongo client flushes before
  every push, as any count is above -1. The instance has this and a limit of 2.
* The HEC client throws `using hec` in every attempt: its code to send is
  commented out. With a finite `maxRetries` it comes to loop without an await
  (`process = "frozen"`).
* A driver error is logged and the message counts as sent; an event with an
  unknown sourcetype ends the process; a metric without a name throws.
* A rejection nobody handles (a push after shutdown, an aborted flush) is
  reported by Node 14, which `package.json` asks for, and ends the process in
  Node 16, which `.nvmrc` asks for: `RejectsUnhandled` allows both.
* The refinement: pending is what waits in a push, in the queue or in a batch
  that is being sent; a batch that ends or fails takes its messages out.

### EthClient and ContractInfoCache

`SendRequest`, `SendRequestBatch` and `ProcessQueue` are the ways a batch gets
under way; `requestBatch` sends after `sleep(0)`, here at once. `ReceiveResponses`
takes any sequence of up to `MaxResponses` responses, with ids of the batch or
unknown ones, repeated or missing, each a result or an error; `FailBatch` stands
for all failures of `eth/http.ts`. A promise is named by the lookup that made
its request, so that a cached promise of an older lookup can be told from that
of a newer one. `recent` is a history of the addresses used last. Both `cache`
and `old` are functions from addresses to promises; `size` is counted as the
code counts it.

### Lifecycle

`startup` is the await of `startBlockchainETL`, `resources` the array it adds
to, `next` the index of the loop in `shutdownAll`. A signal at any point starts
`shutdownAll` while startup goes on, so the array changes under its loop. The
watcher is reduced to what `BlockWatcher` shows of it (a block is written and
marked, `shutdown()` hangs during the back-off), the output to an outbox, the
node stats to one collector, the internal stats to their timer and the pushes
it starts. `completed`, `saving`, `contents` and `file` are the checkpoint in
memory, being written, as read, and on disk; `writeFile` first empties the file.
`process.once` removes the handler of a signal, so a second SIGINT ends the
process at once: `Kill`.

The range watchers precede the block watcher in the same array and add nothing
new to its order; their stragglers are in `RangeWatcher`. The file holds one
checkpoint. With `config.mongo.internal` set, the internal stats go through a
client of their own, which nothing shuts down; the model has the default.
`write()` of node metrics pushes them one by one, so its later pushes can find
the client closed; this is a refused push in `OutputQueue` and not repeated
here. `early` marks that a signal came before startup was over: the properties
other than the two violated ones exclude this, since a wiped file leaves little
to say.

## Runs

| run | instance | states | shows |
| --- | --- | --- | --- |
| `checkpoint` | blocks 0..7 | 511 | every set of completed blocks, with every latest block, chunk size 1..3 and chunk limit 1..3 |
| `watcher_safety` | blocks 0..3, growing to 0..4; chunk size 1, 2 chunks in parallel, 2 attempts, 2 faults, 1 restart, lag 1 | 666,576 | the safety and action properties |
| `watcher_live` | blocks 0..4, growing to 0..5, `startAt` -4, at most 2 chunks per call, 2 in parallel, 2 attempts, 2 faults, lag 1, no restart | 195,899 | the two liveness properties |
| `range_watcher` | blocks 0..5, growing to 0..6, end at 5; three chunks, one at a time, 2 attempts, 2 faults, 1 restart, no lag | 374,194 | end, limit of a call, quiet after shutdown |
| `output` | 2 ordinary messages, 1 metric without a name, 1 event of unknown sourcetype; HEC with a byte limit of one message, Mongo without a limit and with a limit of 2; 1 retry | 433,666 | safety, the refinement of `Outbox`, and that messages do not wait for ever |
| `eth_client` | 4 lookups of 3 addresses, one `requestBatch` of a block, batches of 2, up to 2 responses, 2 entries per generation | 144,244 | client, cache, and the end of every lookup |
| `lifecycle` | 2 blocks, 2 runs of the process, 1 fault, 1 kill | 1,513,742 | saves, order of shutdown, and its end |
| `watcher_shutdown_hang` | one chunk at a time, 2 faults | stops | shutdown in the back-off never ends |
| `watcher_autosave` | the same | stops | a completed block is never saved while the watcher runs |
| `watcher_parallel_limit` | the same | stops | two chunks run where one is allowed |
| `checkpoint_wiped` | 1 block, 2 runs, no fault | stops | a signal during startup empties the file |
| `messages_lost` | 1 block, 1 run, no fault | stops | blocks saved as complete, their messages dropped |

Why the bounds are enough. Eight blocks give every pattern of up to four
separate completed ranges and every way in which a mark can join, extend or
contain ranges; ranges of eight blocks get two full chunks and a long last one
with `maxChunkSize` 2, and are cut short by `maxChunks`. The block watcher's
chunk size of 1 gives the most chunks: since the loop of `chunkedBlockRanges`
stops early, blocks 0..4 are the chunks {0} and {1..4}, and blocks 0..5 are
three, so chunks of one block and of several occur side by side. In
`watcher_safety` two chunks run at once, and two attempts with two faults let
one of them fail for good while the other lives on next to the call of a later
round, which needs two pools (`MaxFaults < Attempts * MaxPools` means a free
pool is always found). A lag of one block lets the reported latest block go
backwards between rounds; one restart is enough for a crash in any state
followed by a second life that repeats work. In `watcher_live` the limit of two
chunks per call leaves a rest of the range to a later round.

In `range_watcher` blocks 0..5 are three chunks with one slot, so two wait in
the queue and the slot is handed over whichever way a chunk ends, also in a call
that was given up on; block 6 is past the end.

`output` needs four messages for the limit of 2 to be passed: three pushes that
waited for one flush are queued behind each other, and the last one finds the
queue too long. One retry gives a batch two attempts with a wait and the repeat
without one. Batches are at most as many as messages, and each of the three
kinds of message meets each of the others in a batch, in a batch sent next to
it and in the queue. `eth_client` has one address more than a generation holds,
so promises move to the old generation, back, and out; the timer sends a batch
of one, the size limit a batch of two, and a response is missing, repeated or
unknown in each. What four lookups do not reach is that a failing lookup removes
the promise of a newer one after an eviction in between; five lookups do, and
the safety properties were found to hold there too, in a run too long to keep.
`lifecycle` with two runs of the process has a save of the first read by the
second, with a kill or a fault before, between or after.

`CHECK_DEADLOCK FALSE` is set where the system really stops: the process has
exited or hangs, or every message and lookup is dealt with.

Fairness. `Spec` alone is used for safety. `FairSpec` adds weak fairness of the
loop's continuations, of the chunks' as a whole, and of the exit after a
completed shutdown: the event loop runs what is ready, timers fire, and the
node answers in the end with a response or an error. (The HTTP client sets no
timeout, so a node that never answers is outside this assumption.) Signals,
crashes, restarts, faults and new blocks carry no fairness. `RangeFairness` is
the same for the watchers with an end. `OutputQueue`: timers fire, the driver
answers every write, waiting pushes go on; nothing has to push, collect stats
or shut down. `ContractInfoCache`: one weak fairness for all that goes on once
lookups are made; each of these steps can be taken only a bounded number of
times, so none can starve another. It includes that the node answers or the
connection breaks, since `eth/http.ts` passes no timeout on. `Lifecycle`: the
steps of `shutdownAll` and the end of an aborted watcher, nothing else.

The liveness claims are conditional on purpose. `CatchesUp` speaks of blocks
that any admissible report of the latest block covers, once that is above the
initial block: `getInverseBlockRanges` returns nothing while the latest block
is the initial one. `ShutdownWithoutFailureCompletes` covers a shutdown when
the loop has no failure behind it; with one, the run `watcher_shutdown_hang`
shows the hang.

### What the violated statements say

* `watcher_shutdown_hang`: two failed polls in a row, then a signal during the
  back-off. The race rejects with ABORT inside the catch block, `start()`
  rejects, the end callbacks are skipped, `shutdown()` waits for ever, and
  `State.shutdown` behind it never saves.
* `watcher_autosave`: `new CheckpointImpl(id, this.save)` passes the method
  unbound; called as `this.saveCallback()` it increments a `pendingVersion` the
  checkpoint does not have and compares `NaN > undefined`. `saveInterval` has
  no effect, and any exit but a clean shutdown repeats all blocks since start.
* `watcher_parallel_limit`: a call that was given up on keeps running its
  chunks while the next round starts as many again.
* `checkpoint_wiped`: the state is in the array of resources before its
  `initialize()` has read the file. A signal in between makes `State.shutdown`
  serialize a state without checkpoints over it, and the next run starts anew.
* `messages_lost`: `State` is shut down before the output, and the outputs call
  the client's `shutdown()` without a `maxTime`, so it flushes nothing; the
  process exits with messages queued whose blocks the file has as complete. The
  limit of 10 s would not reach them either: `resource.ts:15` subtracts the
  wrong way round.

A comment that no run refutes because a stronger statement holds:
`blockrange.ts:51` promises chunks of up to `maxChunkSize` blocks, while the
last chunk of a range can have three more. `ChunkingSound` and the theorem
`ChunksPartitionRange` state the true bound, which is harmless.

## Proofs

TLAPS checks the theorems for every value of the constants that satisfies the
named assumptions of the modules (`ConfigAssumption`, `BoundAssumption`,
`EndAssumption`, `ClientAssumption`, `CacheAssumption`, `QueueAssumption`: types
and positive sizes, and that the marks for no lookup, no address and the like
are not values themselves). The bounds of the instances (blocks, faults,
restarts, calls, lookups, messages) are constants among them, so the results
hold for each of their values. Of the properties that the passing runs check,
all but the liveness properties are theorems.

### Ranges and checkpoint

`CompactRangesAreRuns` says what `compactRanges` computes for every list of
ranges: the maximal runs of the blocks they cover. The recursive function behind
`FoldLeft` has to be shown to exist (`FoldExists`, over the sets of indices from
which it takes the largest); its values at the sets 1..n are then the steps of
the loop (`SortSteps`, `AbsorbSteps`). Inserting keeps a list ascending and adds
one range (`InsertKeepsOrder`); absorbing a range that begins at or after all
others keeps the list separated and adds its blocks (`AbsorbKeeps`); and a list
of separate ranges is the set of maximal runs of its blocks (`SeparatedAreRuns`).
Each of these inductions over numbers is the choice of a least number at which
the claim fails (`LeastNatural`, from the library's `WFMin`).

`OfferedRangesAreIncomplete` adds that the gaps before, between and after the
completed ranges hold the missing blocks, so the ranges that
`getInverseBlockRanges` returns are the maximal runs of these, and
`RangesHoldTheMissing` that no missing block is left out of such a set of runs.
`ChunksPartitionRange` shows that `FullChunks` is defined (the loop condition
becomes false or the limit is reached), that each cut but the last has
`maxChunkSize` blocks, and that what is left is never empty.

`CheckpointProofs` needs little more: `CheckpointInv` adds to `TypeOK` and
`Compact` that nothing complete lies below the initial block, without which the
first gap would not begin there. `ListImplementsSet` maps a mark to `Complete`,
the initial block to `ChooseStart`, and a reload to a stutter, since compacting
a list again leaves its blocks alone. With it the set of blocks that
`BlockWatcher` has in place of the list, and the set of maximal runs it takes its
work from, stand for the code's list whatever its length.

### Block watcher

`BlockWatcherProofs.SafetyInvariant` shows that `SafetyInv` is inductive. What
each property needs of it:

* `CompletedWereWritten` speaks of memory and file together, since a save and a
  restart copy one to the other; beyond that it needs only types.
* `RequestsWithinChain` needs that the ranges still waiting in `todo` and every
  chunk of every pool, queued ones included, lie between the initial block and
  the head (`LoopInv`, `GoodTask`); that the initial block does not move while
  any of them is alive (`Before`: no pool is in use before the loop starts);
  and that the head never decreases.
* the file of `ProgressIsKept` must be a part of the set in memory
  (`StoreInv`), so that a save cannot drop a block, with the same initial block
  once it holds any.
* `TypeOK` bounds the attempts of a chunk, which needs that a chunk waiting to
  retry has attempts left and that the tasks behind the started ones are
  untouched (`GoodTask`, `GoodPool`).

Each kind of step has its own lemma (`ChunkStepSafe`, `LoopStepSafe`,
`ProcessStepSafe`), with the ones that start chunks resting on a few facts
about `nextTasks` and `settle`. The two action properties follow from the
invariant and from which actions touch the store (`WhoTouchesTheStore`).

`WatcherCallProofs` has the two properties that count.

* `CallsKeepTheirLimit`: a call's `running` is the number of its tasks that
  run (`Exact`). Each step of a chunk is described by what it does to the calls
  (`Follows`: which tasks it adds to the running ones, which it takes away), so
  that the count is followed once for all of them.
* `OutputOnceButForMishaps` is not inductive as it stands, since a chunk that is
  about to write a block has not written it yet. `DuplicatesInv` counts those:
  the calls that may still write a block (`Writers`), except the one the loop
  awaits as long as the block is not complete, and the times it was written
  make up no more than the mishaps, and one more for a complete block. Giving a call up
  makes its chunks writers on account of a mishap; the next round cannot take
  a block that is complete, and its chunks share no block (`Disjoint`, from
  `ChunksPartitionRange` and from ranges that are maximal runs).

### Balance and NFT watcher

`RangeWatcherProofs` takes over the lemmas about the steps that the watchers
share with the block watcher and adds the ones that differ: a block written
after the abort, a call that skips its queue, the loop that stops. `RangeInv`
says besides `SafetyInv` and exact counts that nothing beyond the end is
completed, waiting, in a chunk or written (`BelowEnd`), that nothing before the
initial block is (`AboveStart`), and that the loop stops only when no block up
to the end is missing (`EndedComplete`, which needs `RangesHoldTheMissing`).
`StopsWhenDone` puts the three together. With a start block relative to the
latest one, a process that ended without a save can have written blocks below
the initial block of the next, so `FinishedExactly` allows these and no others.
`NothingIsRequestedAfterShutdown` follows from each task's step: none that is
not waiting for an answer already comes to wait for one.

### Life cycle

The properties depend on the order in which `shutdownAll` walks over the array,
which is an order of insertions made at six awaits of startup. `LifecycleInv`
names the array at each of them (`ArrayInv`), and for a shutdown that began when
startup was over says of each value of the loop's index what has stopped and
been saved (`OrderInv`): past the watcher nothing completes blocks, past the
state the file is what is in memory. `KeptInv` follows a saved block from the
file through what startup reads to the memory of the next process, and
`AcceptedInv` the same for the output's side. A truncated file stops the next
startup, so it never becomes an empty memory.

### Client and cache

`ClientInv` says where an open request is: in the queue, once, or in exactly one
batch; the counts of `OpenRequestsAreUnderWay` follow from it. For the cache,
`PromisesInv` relates a cached promise to the lookup that made it, which has its
answer still to come or one that is no failure, and `RecencyInv` orders the
generations: whatever in `recent` is not in the younger one was used before
everything in the younger one. With `maxSize` addresses remembered and at most
as many in a generation, an address that a swap throws out cannot be
among them.

### Output

`QueueInv` says that no message is in two places (`Apart`), that the next
message of a batch exists and what is stored has been in a batch (`Placed`),
and that a queue that is not empty has its timer. `OutboxImplemented` shows step
by step that a push the client takes is the abstract `Accept`, and that a
message sent, and a push, batch or process that ends, is a `Settle`: of what is
stored, and of what can no longer be. Flushes, timers and waits between attempts
change nothing the outbox sees.

### Only model-checked

Liveness (`CatchesUp`, `ShutdownWithoutFailureCompletes`, `EndIsReached`,
`EveryMessageHandled`, `EveryLookupEnds`, `SignalEndsProcess`) is out of this
prover's reach: it needs fairness, and with it ENABLED. The statements that the
code violates are runs of their own.

## Not modelled

* The contents of messages: formatting, ABI decoding, contract names, token
  metadata, what platform adapters ask. They are sequential conversions; where
  an error in them is swallowed (a receipt, a token's URI) the block counts as
  done, which the list of hazards says.
* Chain reorganisations: the code has no notion of one.
* The keys under which MongoDB stores messages, so which message a later one
  overwrites.
* The heartbeat file of the health monitor and the process that reads it.
* The older block downloader (`ethereum/*`, `cache/*`), `p-queue` and the
  scheduler: their calls are commented out (`ethereum/handler.ts:78-83`,
  `src/index.ts`), and no run of the program reaches them.
* Configuration: values are constants of the modules. `retryWaitTime` of a
  watcher's configuration is never passed on; the default back-off is modelled.
* Generated tables: 40,276 of the repository's 58,139 lines of code are function
  signatures (`smart_contracts/function-signatures.ts`), and most of the rest
  are type declarations, formatting, drivers and the older downloader. The
  modules cover the parts that keep state between awaits, which are a small
  share of the lines.

## Plan

Done: the modules above, with their runs, and the proofs of every safety and
action property and both refinements. What could be added:

1. Actions that are left out of the components marked as partly modelled in
   `PROJECT.json`: several checkpoints in one file, the collectors of the node
   stats, the HEC client's wait for its endpoint.
2. The properties of the hazards that have none yet, where the detail that they
   need (the contents of a message, the keys in MongoDB) can be kept small.
