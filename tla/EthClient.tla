----------------------------- MODULE EthClient ------------------------------
(***************************************************************************)
(* The batching Ethereum client (eth/client.ts).  request() queues a       *)
(* request until maxBatchSize of them wait or the timer fires;             *)
(* requestBatch() sends its requests at once, in a batch of their own.     *)
(* The responses of a batch are matched to its requests by id.             *)
(*                                                                         *)
(* The node may answer a batch with too few, repeated or unknown ids in    *)
(* any order, with an error for a request, or not at all: every failure of *)
(* the transport (eth/http.ts) rejects the whole batch.                    *)
(***************************************************************************)
EXTENDS Integers, Sequences, FiniteSets, FiniteSetsExt

CONSTANTS
    Request,        \* every request, by number, each made at most once
    maxBatchSize,   \* config; the client batches only when it is above 1
    MaxResponses    \* bound on the responses to one batch

ASSUME ClientAssumption ==
    /\ Request \subseteq Nat \ {0}
    /\ maxBatchSize \in Nat \ {0, 1}
    /\ MaxResponses \in Nat

VARIABLES
    queue,    \* the requests that wait for a batch
    timer,    \* whether flushTimer is set
    sent,     \* the batches the node has not answered yet
    answer    \* what each request's promise has become

client == <<queue, timer, sent, answer>>

None == 0       \* not requested
Open == -1      \* neither resolved nor rejected
Failed == -2    \* rejected; a resolved promise is the request it answers
Unknown == -3   \* in a response, an id that belongs to no request

InBatch(r, b) == \E i \in DOMAIN b : b[i] = r
Settled(r) == answer[r] \notin {None, Open}

-----------------------------------------------------------------------------
(* Requests                                                                *)

\* A seeded fault: a full batch is sent and stays in the queue.
ScheduleKeepsQueue(q) ==
    /\ queue' = q
    /\ timer' = (Len(q) < maxBatchSize)
    /\ sent' = IF Len(q) >= maxBatchSize THEN sent \cup {q} ELSE sent

\* scheduleFlush: a full batch is sent, otherwise the timer sees to it.
ScheduleFlush(q) ==
    IF Len(q) >= maxBatchSize
      THEN queue' = <<>> /\ timer' = FALSE /\ sent' = sent \cup {q}
      ELSE queue' = q /\ timer' = TRUE /\ UNCHANGED sent

SendRequest(r) ==
    /\ answer[r] = None
    /\ answer' = [answer EXCEPT ![r] = Open]
    /\ ScheduleFlush(Append(queue, r))

\* requestBatch, with the requests of the sequence b.
SendRequestBatch(b) ==
    /\ \A i \in DOMAIN b : answer[b[i]] = None
    /\ answer' = [r \in Request |-> IF InBatch(r, b) THEN Open ELSE answer[r]]
    /\ sent' = sent \cup {b}
    /\ UNCHANGED <<queue, timer>>

\* processQueue, called by the timer.
ProcessQueue ==
    /\ timer
    /\ timer' = FALSE /\ queue' = <<>>
    /\ sent' = IF queue = <<>> THEN sent ELSE sent \cup {queue}
    /\ UNCHANGED answer

-----------------------------------------------------------------------------
(* Responses                                                               *)

Response == [id : Request \cup {Unknown}, ok : BOOLEAN]
Responses(b) ==
    LET fitting == {x \in Response : x.id = Unknown \/ InBatch(x.id, b)}
    IN UNION {[1 .. n -> fitting] : n \in 0 .. MaxResponses}

\* A seeded fault: the n-th response is taken for the n-th request.
MatchByPosition(b, responses, r) ==
    LET i == CHOOSE j \in DOMAIN b : b[j] = r
    IN IF i \in DOMAIN responses /\ responses[i].ok THEN responses[i].id ELSE Failed

\* A seeded fault: a request that no response answers is left alone.
MatchIgnoresMissing(b, responses, r) ==
    LET hits == {i \in DOMAIN responses : responses[i].id = r}
    IN IF hits = {} THEN Open
       ELSE IF responses[Min(hits)].ok THEN r ELSE Failed

\* What the promise of request r of batch b becomes: the first response with its
\* id counts, and a request without one is rejected.
Match(b, responses, r) ==
    LET hits == {i \in DOMAIN responses : responses[i].id = r}
    IN IF hits # {} /\ responses[Min(hits)].ok THEN r ELSE Failed

ReceiveResponses(b) ==
    \E responses \in Responses(b) :
        /\ answer' = [r \in Request |->
              IF InBatch(r, b) THEN Match(b, responses, r) ELSE answer[r]]
        /\ sent' = sent \ {b}
        /\ UNCHANGED <<queue, timer>>

FailBatch(b) ==
    /\ answer' = [r \in Request |-> IF InBatch(r, b) THEN Failed ELSE answer[r]]
    /\ sent' = sent \ {b}
    /\ UNCHANGED <<queue, timer>>

ClientInit ==
    /\ queue = <<>> /\ timer = FALSE /\ sent = {}
    /\ answer = [r \in Request |-> None]

-----------------------------------------------------------------------------
(* Properties                                                              *)

ClientTypeOK ==
    /\ queue \in Seq(Request) /\ timer \in BOOLEAN
    /\ sent \subseteq Seq(Request)
    /\ answer \in [Request -> {None, Open, Failed} \cup Request]

\* No request is stranded or sent twice: one whose promise is open is either in
\* the queue, once and with the timer running, or in one batch at the node; a
\* settled one is in neither.
OpenRequestsAreUnderWay ==
    \A r \in Request :
        Cardinality({i \in DOMAIN queue : queue[i] = r /\ timer})
          + Cardinality({b \in sent : InBatch(r, b)}) = (IF answer[r] = Open THEN 1 ELSE 0)

\* Whatever the node sends back, a request is resolved with its own response.
OwnAnswer == \A r \in Request : answer[r] \in Request => answer[r] = r
=============================================================================
