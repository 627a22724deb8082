---------------------------- MODULE OutputQueue -----------------------------
(***************************************************************************)
(* The output clients (core/mongo.ts, core/hec.ts) behind write() of       *)
(* core/output.ts: a queue of messages, a flush timer, and batches that    *)
(* are sent concurrently, each with its own retries.                       *)
(*                                                                         *)
(* Nobody awaits write(), so any number of pushes are in progress: a push  *)
(* that finds the limit reached first flushes the queue and awaits that    *)
(* batch, and queues its message afterwards.                               *)
(*                                                                         *)
(* The two clients differ in the limit that makes a push flush and in how  *)
(* a batch is sent.  The Mongo client writes message by message; an error  *)
(* of the database is logged and swallowed, an event of an unknown         *)
(* sourcetype ends the process, and a metric without a name throws, which  *)
(* repeats the whole batch.  The HEC client throws in every attempt.       *)
(***************************************************************************)
EXTENDS Integers, Sequences, FiniteSets

CONSTANTS
    Message,          \* the messages that are written, each at most once
    Unnamed,          \* the metrics among them that have no metric_name
    Untyped,          \* the events among them with a sourcetype Mongo does not know
    Configs,          \* the configurations: a client and its maxQueueEntries
    maxQueueSize,     \* config of the HEC client, here in messages of one unit
    maxRetries,       \* config, NoLimit (Infinity) by default
    NoLimit

ASSUME QueueAssumption ==
    /\ Unnamed \subseteq Message /\ Untyped \subseteq Message
    /\ Unnamed \cap Untyped = {}
    /\ NoLimit \notin Nat
    /\ Configs \subseteq {"mongo", "hec"} \X (Nat \cup {NoLimit})
    /\ maxQueueSize \in Nat
    /\ maxRetries \in Nat \cup {NoLimit}

VARIABLES
    client,    \* config output.type: "mongo" or "hec"
    maxQueueEntries,  \* config, NoLimit by default
    process,   \* "up", "frozen" in a loop without an await, or "gone"
    active,    \* FALSE once shutdown() was called
    queue,     \* the messages waiting to be sent
    counter,   \* counters.queuedMessages of the Mongo client; HEC's is not read
    timer,     \* whether flushTimer is set
    batches,   \* every batch taken from the queue so far
    push,      \* where the push of each message stands
    stored     \* the messages in the database

config == <<client, maxQueueEntries>>
vars == <<config, process, active, queue, counter, timer, batches, push, stored>>

\* A push in progress awaits the batch with this number, or Now, a flush that
\* had nothing to send.  Idle: no push has begun, or it has queued the message.
Now == 0
Idle == -1
Refused == -2  \* it threw at once
Failed == -3   \* it threw after its flush was aborted

Live == {"send", "wait"}

NewBatch(ms) ==
    [msgs |-> ms, next |-> 1, attempt |-> 1, cancelled |-> FALSE, pc |-> "send"]

Positions(m, s) == {i \in DOMAIN s : s[i] = m}
InBatches(m) ==
    UNION {{<<k, i>> : i \in Positions(m, batches[k].msgs)} : k \in DOMAIN batches}
Pushed(m) ==
    push[m] # Idle \/ Positions(m, queue) # {} \/ InBatches(m) # {}

-----------------------------------------------------------------------------
(* The queue                                                               *)

\* A seeded fault: the batch is sent without taking it off the queue.
FlushKeepsQueue(q) ==
    /\ queue' = q
    /\ timer' = FALSE
    /\ batches' = IF q = <<>> THEN batches ELSE Append(batches, NewBatch(q))

\* A seeded fault: an empty queue makes a batch too.
FlushEvenEmpty(q) ==
    /\ queue' = <<>>
    /\ timer' = FALSE
    /\ batches' = Append(batches, NewBatch(q))

\* flushInternal: the queue, if there is any, becomes a batch being sent.
flushInternal(q) ==
    /\ queue' = <<>>
    /\ timer' = FALSE
    /\ batches' = IF q = <<>> THEN batches ELSE Append(batches, NewBatch(q))

\* The counter after a flush that found n there, and after another push.
counterAfterFlush(n) == IF queue # <<>> THEN 0 ELSE n
counted == IF client = "mongo" THEN counter + 1 ELSE counter

\* A seeded fault: only a push that had nothing to wait for arms the timer.
EnqueueWithoutTimer(m, n) ==
    /\ queue' = Append(queue, m)
    /\ timer' = (timer \/ push[m] = Idle)
    /\ counter' = n
    /\ UNCHANGED batches

\* The message is queued and scheduleFlush runs: too long a queue is flushed,
\* otherwise the timer sees to it.
Enqueue(m, n) ==
    LET q == Append(queue, m)
        full == maxQueueEntries # NoLimit /\ Len(q) > maxQueueEntries
    IN \/ /\ full
          /\ flushInternal(q)
          /\ counter' = 0
       \/ /\ ~full
          /\ queue' = q /\ timer' = TRUE /\ counter' = n
          /\ UNCHANGED batches

\* Whether a push flushes first.  Without a limit the Mongo client always does,
\* -1 being less than any count; the HEC client counts bytes.
FlushesFirst ==
    IF client = "mongo"
      THEN maxQueueEntries = NoLimit \/ counted + 1 > maxQueueEntries
      ELSE Len(queue) + 1 > maxQueueSize

\* A promise is rejected and nobody handles it: Node 14 (package.json) reports
\* that, Node 16 (.nvmrc) ends the process.
RejectsUnhandled == process' \in {process, "gone"}

\* write() of a message up to its first await.
Push(m) ==
    /\ ~Pushed(m)
    /\ \/ /\ ~active
          /\ RejectsUnhandled
          /\ push' = [push EXCEPT ![m] = Refused]
          /\ UNCHANGED <<queue, counter, timer, batches>>
       \/ /\ active /\ FlushesFirst
          /\ flushInternal(queue)
          /\ counter' = counterAfterFlush(counted)
          /\ push' = [push EXCEPT ![m] =
                IF queue = <<>> THEN Now ELSE Len(batches) + 1]
          /\ UNCHANGED process
       \/ /\ active /\ ~FlushesFirst
          /\ Enqueue(m, counted)
          /\ UNCHANGED <<process, push>>
    /\ UNCHANGED <<config, active, stored>>

Settled(k) == k = Now \/ (k > 0 /\ batches[k].pc = "done")

\* A seeded fault: the message that had to wait is not queued.
ResumePushForgets(m) ==
    /\ Settled(push[m])
    /\ push' = [push EXCEPT ![m] = Idle]
    /\ UNCHANGED <<config, process, active, queue, counter, timer, batches, stored>>

\* A seeded fault: the push that had to wait does not schedule a flush.
ResumePushUnscheduled(m) ==
    /\ Settled(push[m])
    /\ push' = [push EXCEPT ![m] = Idle]
    /\ queue' = Append(queue, m)
    /\ UNCHANGED <<config, process, active, counter, timer, batches, stored>>

\* The flush before the push is over.  The active flag is not looked at again.
ResumePush(m) ==
    /\ Settled(push[m])
    /\ push' = [push EXCEPT ![m] = Idle]
    /\ Enqueue(m, counter)
    /\ UNCHANGED <<config, process, active, stored>>

\* The flush before the push was aborted: write() rejects.
FailPush(m) ==
    /\ push[m] > 0 /\ batches[push[m]].pc = "failed"
    /\ push' = [push EXCEPT ![m] = Failed]
    /\ UNCHANGED <<config, process, active, queue, counter, timer, batches, stored>>

FlushTimer ==
    /\ timer
    /\ flushInternal(queue)
    /\ counter' = counterAfterFlush(counter)
    /\ UNCHANGED <<config, process, active, push, stored>>

\* flushStats, called by the internal stats collector, resets all counters.
FlushStats ==
    /\ counter # 0
    /\ counter' = 0
    /\ UNCHANGED <<config, process, active, queue, timer, batches, push, stored>>

-----------------------------------------------------------------------------
(* Sending a batch: the first message is taken up in the flush itself, here   *)
(* in a step of its own.                                                   *)

Retryable(b) == maxRetries = NoLimit \/ b.attempt <= maxRetries

again(b) ==
    [b EXCEPT !.pc = "send", !.next = 1,
              !.attempt = IF Retryable(b) /\ maxRetries # NoLimit THEN @ + 1 ELSE @]

\* An attempt throws.  A cancelled batch fails: neither write() nor the timer,
\* the two that await a flush, handles that.  Others are repeated, after a
\* wait as long as retries are left and at once when there are none: if the next
\* attempt then throws before it awaits anything, no other code ever runs again.
AttemptThrows(k) ==
    LET b == batches[k]
        throwsAtOnce == client = "hec" \/ b.msgs[1] \in Unnamed
    IN \/ /\ b.cancelled
          /\ batches' = [batches EXCEPT ![k].pc = "failed"]
          /\ RejectsUnhandled
       \/ /\ ~b.cancelled /\ Retryable(b)
          /\ batches' = [batches EXCEPT ![k].pc = "wait"]
          /\ UNCHANGED process
       \/ /\ ~b.cancelled /\ ~Retryable(b)
          /\ batches' = [batches EXCEPT ![k] = again(b)]
          /\ process' = IF throwsAtOnce THEN "frozen" ELSE process

\* The next message of a batch, and with the last one the end of the batch.  What
\* the database refuses is logged and counts as sent.
SendMessage(k) ==
    LET b == batches[k] IN
    /\ b.pc = "send" /\ client = "mongo"
    /\ LET m == b.msgs[b.next] IN
       \/ /\ m \notin Unnamed \cup Untyped
          /\ batches' = [batches EXCEPT ![k] =
                IF b.next = Len(b.msgs) THEN [b EXCEPT !.pc = "done"]
                                        ELSE [b EXCEPT !.next = @ + 1]]
          /\ stored' \in {stored, stored \cup {m}}
          /\ UNCHANGED process
       \/ /\ m \in Untyped
          /\ process' = "gone"
          /\ UNCHANGED <<batches, stored>>
       \/ /\ m \in Unnamed
          /\ AttemptThrows(k)
          /\ UNCHANGED stored
    /\ UNCHANGED <<config, active, queue, counter, timer, push>>

FailHecAttempt(k) ==
    /\ batches[k].pc = "send" /\ client = "hec"
    /\ AttemptThrows(k)
    /\ UNCHANGED <<config, active, queue, counter, timer, push, stored>>

RetryBatch(k) ==
    /\ batches[k].pc = "wait"
    /\ \/ /\ batches[k].cancelled
          /\ batches' = [batches EXCEPT ![k].pc = "failed"]
          /\ RejectsUnhandled
       \/ /\ ~batches[k].cancelled
          /\ batches' = [batches EXCEPT ![k] = again(@)]
          /\ UNCHANGED process
    /\ UNCHANGED <<config, active, queue, counter, timer, push, stored>>

-----------------------------------------------------------------------------
(* The process                                                             *)

\* shutdown() as the outputs call it, without a maxTime: the queue is left as it
\* is, and the batches being sent are cancelled, which only counts once one of
\* their attempts throws.
Shutdown ==
    /\ active
    /\ active' = FALSE
    /\ batches' = [k \in DOMAIN batches |->
         [batches[k] EXCEPT !.cancelled = @ \/ batches[k].pc \in Live]]
    /\ UNCHANGED <<config, process, queue, counter, timer, push, stored>>

\* shutdownAll has come to its end.
Exit ==
    /\ ~active
    /\ process' = "gone"
    /\ UNCHANGED <<config, active, queue, counter, timer, batches, push, stored>>

Init ==
    /\ \E c \in Configs : client = c[1] /\ maxQueueEntries = c[2]
    /\ process = "up" /\ active = TRUE
    /\ queue = <<>> /\ counter = 0 /\ timer = FALSE /\ batches = <<>>
    /\ push = [m \in Message |-> Idle]
    /\ stored = {}

BatchStep(k) == SendMessage(k) \/ FailHecAttempt(k) \/ RetryBatch(k)

Next ==
    /\ process = "up"
    /\ \/ \E m \in Message : Push(m) \/ ResumePush(m) \/ FailPush(m)
       \/ \E k \in DOMAIN batches : BatchStep(k)
       \/ FlushTimer \/ FlushStats \/ Shutdown \/ Exit

\* Timers fire, the driver answers every write and microtasks run; nothing
\* makes the program write, collect statistics or shut down.
Fairness ==
    /\ \A m \in Message : WF_vars(process = "up" /\ (ResumePush(m) \/ FailPush(m)))
    /\ \A k \in 1 .. Cardinality(Message) :
         WF_vars(process = "up" /\ k \in DOMAIN batches /\ BatchStep(k))
    /\ WF_vars(process = "up" /\ FlushTimer)

Spec == Init /\ [][Next]_vars /\ Fairness

-----------------------------------------------------------------------------
(* Properties                                                              *)

BatchState == Live \cup {"done", "failed"}

TypeOK ==
    /\ config \in Configs
    /\ process \in {"up", "frozen", "gone"}
    /\ active \in BOOLEAN /\ timer \in BOOLEAN
    /\ queue \in Seq(Message) /\ counter \in Nat
    /\ batches \in Seq([msgs : Seq(Message) \ {<<>>}, next : Nat \ {0},
                        attempt : Nat \ {0}, cancelled : BOOLEAN, pc : BatchState])
    /\ push \in [Message -> {Idle, Refused, Failed, Now} \cup DOMAIN batches]
    /\ stored \subseteq Message

\* However pushes that wait, timers, limits and flushes interleave, a message is
\* never in two places: its push waits or has thrown, or it is queued once, or it
\* is in one batch, once.
InOnePlace ==
    \A m \in Message :
        Cardinality(Positions(m, queue)) + Cardinality(InBatches(m))
          + (IF push[m] # Idle THEN 1 ELSE 0) <= 1

\* No message is stranded: whenever some are queued, a flush is scheduled, also
\* for those that a waiting push queues after shutdown().
QueuedHasTimer == queue # <<>> => timer

Abandoned(m) == \E p \in InBatches(m) : batches[p[1]].pc = "failed"
Ended(m) == \E p \in InBatches(m) : batches[p[1]].pc = "done"

\* The client implements an outbox: the messages that wait, are queued or are in
\* a batch being sent are pending; a batch that ends or fails, and a push whose
\* flush fails, take their messages out of it.
Sending(m) == \E p \in InBatches(m) : batches[p[1]].pc \in Live
PendingMessages ==
    {m \in Message \ stored : push[m] >= Now \/ Positions(m, queue) # {} \/ Sending(m)}
LostMessages ==
    {m \in Message \ stored : push[m] = Failed \/ (InBatches(m) # {} /\ ~Sending(m))}

O == INSTANCE Outbox WITH pending <- PendingMessages, lost <- LostMessages

ImplementsOutbox == O!OutboxSpec

\* No accepted message of the Mongo client is pending for ever, if the program
\* goes on and no metric without a name has been written.
EveryMessageHandled ==
    \A m \in Message \ Unnamed :
        m \in PendingMessages
          ~> \/ m \notin PendingMessages
             \/ client = "hec" \/ ~active \/ process # "up"
             \/ \E u \in Unnamed : Pushed(u)
=============================================================================
