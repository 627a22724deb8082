----------------------- MODULE ContractInfoCacheProofs ------------------------
(***************************************************************************)
(* Safety of the batching client and of the cache of contract lookups for  *)
(* every set of requests and addresses, every batch size and cache size.   *)
(*                                                                         *)
(* ClientInv is about the client alone: where an open request is.          *)
(* CacheInv adds what the LRU cache relies on: a promise is cached under   *)
(* the address of the lookup that made it, and every address of the        *)
(* younger generation was used later than any that is not in it.           *)
(***************************************************************************)
EXTENDS ContractInfoCache, FiniteSetTheorems, SequenceTheorems, TLAPS

-----------------------------------------------------------------------------
(* The invariants                                                          *)

Underway(r) == InBatch(r, queue) \/ \E b \in sent : InBatch(r, b)

\* A request is open as long as it waits in the queue, once and with the timer set,
\* or is in one of the batches at the node.
ClientInv ==
    /\ queue # <<>> => timer
    /\ \A i, j \in DOMAIN queue : queue[i] = queue[j] => i = j
    /\ \A r \in Request : answer[r] = Open <=> Underway(r)
    /\ \A r \in Request, b \in sent : InBatch(r, b) => ~InBatch(r, queue)
    /\ \A r \in Request, b, c \in sent : InBatch(r, b) /\ InBatch(r, c) => b = c

Caches(f, a, p) == a \in DOMAIN f /\ f[a] = p
Cached(a, p) == Caches(cache, a, p) \/ Caches(old, a, p)

\* The lookup that made a cached promise has still to see its answer, or has seen
\* that it did not fail.
PromisesInv ==
    \A a \in Address, p \in Lookup : Cached(a, p) =>
        /\ address[p] = a
        /\ promise[p] = p \/ answer[p] \notin {None, Open, Failed}

\* The younger generation was used more recently than anything else.
RecencyInv ==
    /\ Len(recent) <= maxSize
    /\ \A i \in DOMAIN recent :
         recent[i] \notin DOMAIN cache \cup {None} =>
             \A a \in DOMAIN cache : \E j \in 1 .. i - 1 : recent[j] = a

SizesInv ==
    /\ IsFiniteSet(DOMAIN cache) /\ IsFiniteSet(DOMAIN old)
    /\ GenerationsAgree

CacheInv ==
    /\ TypeOK /\ ClientInv /\ OwnAnswer
    /\ PromisesInv /\ SizesInv /\ RecencyInv /\ RecentlyUsedAreKept

-----------------------------------------------------------------------------
(* The client                                                              *)

ClientSafe == ClientTypeOK /\ ClientInv /\ OwnAnswer

\* No request is one of the marks for what a promise may be.
LEMMA Marks ==
    /\ \A r \in Request : r \in Int /\ r > 0
    /\ None = 0 /\ Open = -1 /\ Failed = -2 /\ Unknown = -3
  BY ClientAssumption DEF None, Open, Failed, Unknown

\* A queue with one more request holds that one and those it held before.
LEMMA AppendedRequest ==
    ASSUME NEW q \in Seq(Request), NEW r \in Request
    PROVE  /\ Append(q, r) \in Seq(Request) /\ Append(q, r) # <<>>
           /\ \A x : InBatch(x, Append(q, r)) <=> InBatch(x, q) \/ x = r
           /\ (\A i, j \in DOMAIN q : q[i] = q[j] => i = j) /\ ~InBatch(r, q) =>
                \A i, j \in DOMAIN Append(q, r) :
                   Append(q, r)[i] = Append(q, r)[j] => i = j
  <1> DEFINE all == Append(q, r)
  <1>1. /\ all \in Seq(Request) /\ all # <<>> /\ Len(all) = Len(q) + 1
        /\ \A i \in 1 .. Len(q) : all[i] = q[i]
        /\ all[Len(q) + 1] = r
    BY AppendProperties
  <1>2. /\ DOMAIN q = 1 .. Len(q) /\ Len(q) \in Nat
        /\ DOMAIN all = 1 .. Len(q) + 1
    BY <1>1, LenProperties
  <1> HIDE DEF all
  <1>3. ASSUME NEW x PROVE InBatch(x, all) <=> InBatch(x, q) \/ x = r
    BY <1>1, <1>2 DEF InBatch
  <1>4. ASSUME \A i, j \in DOMAIN q : q[i] = q[j] => i = j, ~InBatch(r, q),
               NEW i \in DOMAIN all, NEW j \in DOMAIN all, all[i] = all[j]
        PROVE  i = j
    BY <1>1, <1>2, <1>4 DEF InBatch
  <1> QED BY <1>1, <1>3, <1>4 DEF all

\* Nothing is in an empty batch.
LEMMA EmptyBatch == \A r : ~InBatch(r, <<>>)
  BY DEF InBatch

\* request(): the new request waits, or goes to the node with all that waited.
LEMMA SendRequestSafe ==
    ASSUME ClientSafe, NEW r \in Request, SendRequest(r)
    PROVE  ClientSafe'
  <1> DEFINE q == Append(queue, r)
  <1>1. /\ q \in Seq(Request) /\ q # <<>>
        /\ \A x : InBatch(x, q) <=> InBatch(x, queue) \/ x = r
    BY AppendedRequest DEF ClientSafe, ClientTypeOK
  <1>2. answer[r] = None /\ answer' = [answer EXCEPT ![r] = Open] /\ ScheduleFlush(q)
    BY DEF SendRequest
  <1>3. answer[r] # Open /\ ~Underway(r)
    BY <1>2, Marks DEF ClientSafe, ClientInv
  <1>4. \A i, j \in DOMAIN q : q[i] = q[j] => i = j
    BY <1>3, AppendedRequest DEF ClientSafe, ClientInv, ClientTypeOK, Underway
  <1> HIDE DEF q
  <1>5. answer' \in [Request -> {None, Open, Failed} \cup Request] /\ OwnAnswer'
    BY <1>2, Marks DEF ClientSafe, ClientTypeOK, OwnAnswer
  <1>6. \A x \in Request : answer'[x] = Open <=> x = r \/ Underway(x)
    BY <1>2, Marks DEF ClientSafe, ClientTypeOK, ClientInv
  <1>7. CASE queue' = q /\ timer' = TRUE /\ sent' = sent
    <2>1. ClientTypeOK' BY <1>1, <1>5, <1>7 DEF ClientSafe, ClientTypeOK
    <2>2. \A x : Underway(x)' <=> Underway(x) \/ x = r
      BY <1>1, <1>7 DEF Underway
    <2>3. ClientInv'
      BY <1>1, <1>3, <1>4, <1>6, <1>7, <2>2 DEF ClientSafe, ClientInv, Underway
    <2> QED BY <1>5, <2>1, <2>3 DEF ClientSafe
  <1>8. CASE queue' = <<>> /\ timer' = FALSE /\ sent' = sent \cup {q}
    <2>0. <<>> \in Seq(Request) BY EmptySeq
    <2>1. ClientTypeOK' BY <1>1, <1>5, <1>8, <2>0 DEF ClientSafe, ClientTypeOK
    <2>2. \A x : Underway(x)' <=> Underway(x) \/ x = r
      BY <1>1, <1>8, EmptyBatch DEF Underway
    <2>3. \A x \in Request, b \in sent' : InBatch(x, b) => ~InBatch(x, queue')
      BY <1>8, EmptyBatch
    <2>4. \A x \in Request, b \in sent : InBatch(x, b) => ~InBatch(x, q)
      BY <1>1, <1>3 DEF ClientSafe, ClientInv, Underway
    <2>5. \A x \in Request, b, c \in sent' : InBatch(x, b) /\ InBatch(x, c) => b = c
      BY <1>8, <2>4 DEF ClientSafe, ClientInv
    <2>6. ClientInv'
      BY <1>6, <1>8, <2>2, <2>3, <2>5 DEF ClientInv
    <2> QED BY <1>5, <2>1, <2>6 DEF ClientSafe
  <1> QED BY <1>2, <1>7, <1>8 DEF ScheduleFlush

\* requestBatch(): its requests go to the node in a batch of their own.
LEMMA SendRequestBatchSafe ==
    ASSUME ClientSafe, NEW b \in Seq(Request), SendRequestBatch(b)
    PROVE  ClientSafe'
  <1>1. /\ \A i \in DOMAIN b : b[i] \in Request /\ answer[b[i]] = None
        /\ answer' = [r \in Request |-> IF InBatch(r, b) THEN Open ELSE answer[r]]
        /\ sent' = sent \cup {b} /\ queue' = queue /\ timer' = timer
    BY LenProperties DEF SendRequestBatch
  <1>2. \A r : InBatch(r, b) => r \in Request /\ answer[r] # Open /\ ~Underway(r)
    BY <1>1, Marks DEF InBatch, ClientSafe, ClientInv
  <1>3. ClientTypeOK' /\ OwnAnswer'
    BY <1>1, Marks DEF ClientSafe, ClientTypeOK, OwnAnswer
  <1>4. \A x : Underway(x)' <=> Underway(x) \/ InBatch(x, b)
    BY <1>1 DEF Underway
  <1>5. \A r \in Request : answer'[r] = Open <=> Underway(r)'
    BY <1>1, <1>4 DEF ClientSafe, ClientInv
  <1>6. /\ \A r \in Request, c \in sent' : InBatch(r, c) => ~InBatch(r, queue')
        /\ \A r \in Request, c, d \in sent' : InBatch(r, c) /\ InBatch(r, d) => c = d
    BY <1>1, <1>2 DEF ClientSafe, ClientInv, Underway
  <1> QED BY <1>1, <1>3, <1>5, <1>6 DEF ClientSafe, ClientInv

\* processQueue(): what waited goes to the node.
LEMMA ProcessQueueSafe ==
    ASSUME ClientSafe, ProcessQueue
    PROVE  ClientSafe'
  <1>1. /\ timer' = FALSE /\ queue' = <<>> /\ answer' = answer
        /\ sent' = IF queue = <<>> THEN sent ELSE sent \cup {queue}
    BY DEF ProcessQueue
  <1>2. ClientTypeOK' /\ OwnAnswer'
    BY <1>1, EmptySeq DEF ClientSafe, ClientTypeOK, OwnAnswer
  <1>3. \A x : Underway(x)' <=> Underway(x)
    BY <1>1, EmptyBatch DEF Underway
  <1>4. /\ \A r \in Request, c \in sent' : InBatch(r, c) => ~InBatch(r, queue')
        /\ \A r \in Request, c, d \in sent' : InBatch(r, c) /\ InBatch(r, d) => c = d
    BY <1>1, EmptyBatch DEF ClientSafe, ClientInv
  <1> QED BY <1>1, <1>2, <1>3, <1>4 DEF ClientSafe, ClientInv

\* The end of a batch: each of its requests is resolved with its own response or
\* rejected, and is then nowhere any more.
LEMMA EndOfBatchSafe ==
    ASSUME ClientSafe, NEW b \in sent, ReceiveResponses(b) \/ FailBatch(b)
    PROVE  /\ ClientSafe'
           /\ \A r \in Request : answer'[r] # answer[r] => answer[r] = Open
  <1>1. /\ \A r \in Request : IF InBatch(r, b) THEN answer'[r] \in {r, Failed}
                                               ELSE answer'[r] = answer[r]
        /\ answer' = [r \in Request |-> answer'[r]]
        /\ sent' = sent \ {b} /\ queue' = queue /\ timer' = timer
    <2>1. CASE FailBatch(b) BY <2>1 DEF FailBatch
    <2>2. CASE ReceiveResponses(b)
      <3>1. PICK responses \in Responses(b) :
              /\ answer' = [r \in Request |->
                    IF InBatch(r, b) THEN Match(b, responses, r) ELSE answer[r]]
              /\ sent' = sent \ {b}
              /\ UNCHANGED <<queue, timer>>
        BY <2>2 DEF ReceiveResponses
      <3>2. \A r : Match(b, responses, r) \in {r, Failed}
        BY DEF Match
      <3> QED BY <3>1, <3>2
    <2> QED BY <2>1, <2>2
  <1>2. \A r \in Request : InBatch(r, b) => answer[r] = Open
    BY DEF ClientSafe, ClientInv, Underway
  <1>3. ClientTypeOK' /\ OwnAnswer'
    <2>1. OwnAnswer' BY <1>1, Marks DEF ClientSafe, OwnAnswer
    <2>2. answer' \in [Request -> {None, Open, Failed} \cup Request]
      <3>1. \A r \in Request : answer'[r] \in {None, Open, Failed} \cup Request
        BY <1>1 DEF ClientSafe, ClientTypeOK
      <3> QED BY <1>1, <3>1
    <2> QED BY <1>1, <2>1, <2>2 DEF ClientSafe, ClientTypeOK
  <1>4. \A r \in Request : Underway(r)' <=> Underway(r) /\ ~InBatch(r, b)
    BY <1>1 DEF Underway, ClientSafe, ClientInv
  <1>5. \A r \in Request : answer'[r] = Open <=> Underway(r)'
    BY <1>1, <1>4, Marks DEF ClientSafe, ClientInv
  <1>6. /\ \A r \in Request, c \in sent' : InBatch(r, c) => ~InBatch(r, queue')
        /\ \A r \in Request, c, d \in sent' : InBatch(r, c) /\ InBatch(r, d) => c = d
    BY <1>1 DEF ClientSafe, ClientInv
  <1> QED BY <1>1, <1>2, <1>3, <1>5, <1>6 DEF ClientSafe, ClientInv

\* Where an open request is, counted: once in the queue or in one batch.
LEMMA UnderwayOnce ==
    ASSUME ClientSafe
    PROVE  OpenRequestsAreUnderWay
  <1> SUFFICES ASSUME NEW r \in Request
               PROVE  Cardinality({i \in DOMAIN queue : queue[i] = r /\ timer})
                        + Cardinality({b \in sent : InBatch(r, b)})
                        = (IF answer[r] = Open THEN 1 ELSE 0)
    BY DEF OpenRequestsAreUnderWay
  <1> DEFINE waiting == {i \in DOMAIN queue : queue[i] = r /\ timer}
             batches == {b \in sent : InBatch(r, b)}
  <1>0. /\ Cardinality({}) = 0 /\ \A x : Cardinality({x}) = 1
    BY FS_EmptySet, FS_Singleton
  <1>1. CASE InBatch(r, queue)
    <2>1. PICK i \in DOMAIN queue : queue[i] = r BY <1>1 DEF InBatch
    <2>2. timer BY <2>1 DEF ClientSafe, ClientInv, ClientTypeOK
    <2>3. waiting = {i} BY <2>1, <2>2 DEF ClientSafe, ClientInv
    <2>4. batches = {} BY <1>1 DEF ClientSafe, ClientInv
    <2>5. answer[r] = Open BY <1>1 DEF ClientSafe, ClientInv, Underway
    <2> HIDE DEF waiting, batches
    <2> QED BY <1>0, <2>3, <2>4, <2>5 DEF waiting, batches
  <1>2. CASE ~InBatch(r, queue) /\ \E b \in sent : InBatch(r, b)
    <2>1. PICK b \in sent : InBatch(r, b) BY <1>2
    <2>2. waiting = {} BY <1>2 DEF InBatch
    <2>3. batches = {b} BY <2>1 DEF ClientSafe, ClientInv
    <2>4. answer[r] = Open BY <1>2 DEF ClientSafe, ClientInv, Underway
    <2> QED BY <1>0, <2>2, <2>3, <2>4, SMTT(30)
  <1>3. CASE ~InBatch(r, queue) /\ ~\E b \in sent : InBatch(r, b)
    <2>1. waiting = {} BY <1>3 DEF InBatch
    <2>2. batches = {} BY <1>3
    <2>3. answer[r] # Open BY <1>3 DEF ClientSafe, ClientInv, Underway
    <2> QED BY <1>0, <2>1, <2>2, <2>3
  <1> QED BY <1>1, <1>2, <1>3

-----------------------------------------------------------------------------
(* The LRU cache                                                           *)

\* The younger generation with one more promise, and what there was before.
LEMMA WithEntry ==
    ASSUME NEW f \in Generation, NEW a \in Address, NEW p \in Lookup
    PROVE  /\ With(f, a, p) \in Generation
           /\ DOMAIN With(f, a, p) = DOMAIN f \cup {a}
           /\ With(f, a, p)[a] = p
           /\ \A x \in DOMAIN f : x # a => With(f, a, p)[x] = f[x]
  <1>1. PICK as \in SUBSET Address : f \in [as -> Lookup] BY DEF Generation
  <1>2. With(f, a, p) \in [as \cup {a} -> Lookup] BY <1>1 DEF With
  <1> QED BY <1>1, <1>2 DEF With, Generation

LEMMA WithoutEntry ==
    ASSUME NEW f \in Generation, NEW a
    PROVE  /\ Without(f, a) \in Generation
           /\ DOMAIN Without(f, a) = DOMAIN f \ {a}
           /\ \A x \in DOMAIN f \ {a} : Without(f, a)[x] = f[x]
  <1>1. PICK as \in SUBSET Address : f \in [as -> Lookup] BY DEF Generation
  <1>2. Without(f, a) \in [as \ {a} -> Lookup] BY <1>1 DEF Without
  <1> QED BY <1>1, <1>2 DEF Without, Generation

LEMMA NoEntries == <<>> \in Generation /\ DOMAIN <<>> = {}
  <1>1. <<>> \in [{} -> Lookup] /\ DOMAIN <<>> = {} OBVIOUS
  <1>2. {} \in SUBSET Address OBVIOUS
  <1> QED BY <1>1, <1>2 DEF Generation

LEMMA EntriesTyped ==
    ASSUME NEW f \in Generation, NEW a \in DOMAIN f
    PROVE  a \in Address /\ f[a] \in Lookup
  BY DEF Generation

\* What the cache holds after _set was there before or is what was set.
LEMMA SetEntries ==
    ASSUME cache \in Generation, old \in Generation, size \in Nat,
           NEW a \in Address, NEW p \in Lookup, Set(a, p)
    PROVE  /\ cache' \in Generation /\ old' \in Generation /\ size' \in Nat
           /\ \A x, q : Cached(x, q)' => Cached(x, q) \/ (x = a /\ q = p)
  <1> DEFINE more == With(cache, a, p)
  <1>0. /\ more \in Generation /\ DOMAIN more = DOMAIN cache \cup {a} /\ more[a] = p
        /\ \A x \in DOMAIN cache : x # a => more[x] = cache[x]
    BY WithEntry, ZenonT(30)
  <1> HIDE DEF more
  <1>1. \A x, q : Caches(more, x, q) => Caches(cache, x, q) \/ (x = a /\ q = p)
    BY <1>0 DEF Caches
  <1>2. CASE cache' = <<>> /\ old' = more /\ size' = 0
    BY <1>0, <1>1, <1>2, NoEntries DEF Cached, Caches
  <1>3. CASE cache' = more /\ size' = size + 1 /\ old' = old
    BY <1>0, <1>1, <1>3 DEF Cached
  <1> QED BY <1>2, <1>3 DEF Set, more

LEMMA LargerOfTwo ==
    ASSUME NEW m \in Nat
    PROVE  Max({m, 1}) = IF m > 1 THEN m ELSE 1
  <1>1. PICK n \in {m, 1} : \A y \in {m, 1} : n >= y
    <2>1. CASE m > 1 BY <2>1
    <2>2. CASE ~(m > 1) BY <2>2
    <2> QED BY <2>1, <2>2
  <1>2. Max({m, 1}) \in {m, 1} /\ \A y \in {m, 1} : Max({m, 1}) >= y
    BY <1>1 DEF Max
  <1> QED BY <1>2

\* The count stays the size of the younger generation, through a swap as well.
LEMMA SetSizes ==
    ASSUME cache \in Generation, old \in Generation, size \in Nat, SizesInv,
           NEW a \in Address, NEW p \in Lookup, Set(a, p),
           a \notin DOMAIN cache, a \in DOMAIN old => p = old[a]
    PROVE  SizesInv'
  <1> DEFINE more == With(cache, a, p)
  <1>0. /\ more \in Generation /\ DOMAIN more = DOMAIN cache \cup {a} /\ more[a] = p
        /\ \A x \in DOMAIN cache : x # a => more[x] = cache[x]
    BY WithEntry, ZenonT(30)
  <1> HIDE DEF more
  <1>1. /\ IsFiniteSet(DOMAIN cache) /\ IsFiniteSet(DOMAIN old)
        /\ size = Cardinality(DOMAIN cache) /\ maxSize \in Nat
        /\ size < IF maxSize > 1 THEN maxSize ELSE 1
        /\ Cardinality(DOMAIN old) <= Max({maxSize, 1})
        /\ \A x \in DOMAIN cache \cap DOMAIN old : cache[x] = old[x]
    BY LargerOfTwo, CacheAssumption DEF SizesInv, GenerationsAgree
  <1>2. /\ IsFiniteSet(DOMAIN more)
        /\ Cardinality(DOMAIN more) = size + 1
    BY <1>0, <1>1, FS_AddElement
  <1>3. CASE size + 1 >= maxSize
    <2>1. cache' = <<>> /\ old' = more /\ size' = 0
      BY <1>3 DEF Set, more
    <2>2. DOMAIN cache' = {} /\ IsFiniteSet(DOMAIN cache') /\ Cardinality(DOMAIN cache') = 0
      BY <2>1, NoEntries, FS_EmptySet
    <2>3. size + 1 <= Max({maxSize, 1}) /\ 0 < Max({maxSize, 1})
      BY <1>1, LargerOfTwo
    <2> QED BY <1>2, <2>1, <2>2, <2>3 DEF SizesInv, GenerationsAgree
  <1>4. CASE ~(size + 1 >= maxSize)
    <2>1. cache' = more /\ size' = size + 1 /\ old' = old
      BY <1>4 DEF Set, more
    <2>2. size + 1 < Max({maxSize, 1})
      BY <1>1, <1>4, LargerOfTwo
    <2>3. \A x \in DOMAIN cache' \cap DOMAIN old' : cache'[x] = old'[x]
      BY <1>0, <1>1, <2>1
    <2> QED BY <1>1, <1>2, <2>1, <2>2, <2>3 DEF SizesInv, GenerationsAgree
  <1> QED BY <1>3, <1>4

\* unset() takes the address out of both generations and keeps the count.
LEMMA UnsetSizes ==
    ASSUME cache \in Generation, old \in Generation, size \in Nat, SizesInv,
           NEW a, Unset(a)
    PROVE  SizesInv' /\ size' \in Nat
  <1>1. /\ IsFiniteSet(DOMAIN cache) /\ IsFiniteSet(DOMAIN old)
        /\ size = Cardinality(DOMAIN cache) /\ maxSize \in Nat
        /\ size < Max({maxSize, 1}) /\ Max({maxSize, 1}) \in Nat
        /\ Cardinality(DOMAIN old) <= Max({maxSize, 1})
        /\ \A x \in DOMAIN cache \cap DOMAIN old : cache[x] = old[x]
    BY LargerOfTwo, CacheAssumption DEF SizesInv, GenerationsAgree
  <1>2. /\ cache' = Without(cache, a) /\ old' = Without(old, a)
        /\ size' = IF a \in DOMAIN cache THEN size - 1 ELSE size
    BY DEF Unset
  <1>3. /\ DOMAIN cache' = DOMAIN cache \ {a} /\ DOMAIN old' = DOMAIN old \ {a}
        /\ \A x \in DOMAIN cache' \cap DOMAIN old' : cache'[x] = old'[x]
    <2>1. /\ DOMAIN cache' = DOMAIN cache \ {a}
          /\ \A x \in DOMAIN cache \ {a} : cache'[x] = cache[x]
      BY <1>2, WithoutEntry
    <2>2. /\ DOMAIN old' = DOMAIN old \ {a}
          /\ \A x \in DOMAIN old \ {a} : old'[x] = old[x]
      BY <1>2, WithoutEntry
    <2> QED BY <1>1, <2>1, <2>2
  <1>4. /\ IsFiniteSet(DOMAIN cache') /\ size' = Cardinality(DOMAIN cache')
    BY <1>1, <1>2, <1>3, FS_RemoveElement
  <1>5. /\ IsFiniteSet(DOMAIN old') /\ Cardinality(DOMAIN old') <= Max({maxSize, 1})
    <2>1. Cardinality(DOMAIN old') <= Cardinality(DOMAIN old)
          /\ IsFiniteSet(DOMAIN old')
      BY <1>1, <1>3, FS_Subset
    <2>2. Cardinality(DOMAIN old') \in Nat /\ Cardinality(DOMAIN old) \in Nat
      BY <1>1, <2>1, FS_CardinalityType
    <2> QED BY <1>1, <2>1, <2>2
  <1>6. size' \in Nat /\ size' <= size
    BY <1>1, <1>2, <1>4, FS_CardinalityType
  <1> QED BY <1>1, <1>3, <1>4, <1>5, <1>6 DEF SizesInv, GenerationsAgree

-----------------------------------------------------------------------------
(* Which addresses were used last                                          *)

\* An address that is used comes first; the others keep their order behind it.
LEMMA UsedOrder ==
    ASSUME recent \in Seq(Address \cup {None}), Len(recent) <= maxSize,
           NEW a \in Address, Used(a)
    PROVE  /\ recent' \in Seq(Address \cup {None}) /\ Len(recent') <= maxSize
           /\ \A i \in DOMAIN recent' : recent'[i] # a =>
                \E k \in DOMAIN recent :
                   /\ recent[k] = recent'[i]
                   /\ \E m \in 1 .. i - 1 : recent'[m] = a
                   /\ \A j \in 1 .. k - 1 :
                        recent[j] = a \/ \E m \in 1 .. i - 1 : recent'[m] = recent[j]
  <1> DEFINE n == Len(recent)
             found == \E i \in DOMAIN recent : recent[i] = a
             place == IF found THEN CHOOSE i \in DOMAIN recent : recent[i] = a
                      ELSE IF n < maxSize THEN n + 1 ELSE maxSize
  <1>1. /\ n \in Nat /\ maxSize \in Nat /\ n <= maxSize
        /\ DOMAIN recent = 1 .. n
        /\ \A i \in 1 .. n : recent[i] \in Address \cup {None}
    BY LenProperties, CacheAssumption
  <1>2. /\ place \in 0 .. maxSize
        /\ place <= n + 1
        /\ found => place \in 1 .. n /\ recent[place] = a
        /\ ~found => place = n + 1 \/ (n = maxSize /\ place = maxSize)
    <2>1. CASE found
      <3>1. place = CHOOSE i \in DOMAIN recent : recent[i] = a BY <2>1
      <3>2. place \in DOMAIN recent /\ recent[place] = a BY <2>1, <3>1
      <3> HIDE DEF n, place
      <3> QED BY <1>1, <2>1, <3>2
    <2>2. CASE ~found
      <3>1. place = IF n < maxSize THEN n + 1 ELSE maxSize BY <2>2
      <3> HIDE DEF n, found, place
      <3> QED BY <1>1, <2>2, <3>1
    <2> QED BY <2>1, <2>2
  <1>3. recent' = [i \in DOMAIN recent \cup 1 .. place |->
                     IF i = 1 THEN a ELSE IF i <= place THEN recent[i - 1] ELSE recent[i]]
    BY DEF Used
  <1> DEFINE larger == IF place = n + 1 THEN n + 1 ELSE n
  <1> HIDE DEF n, found, place
  <1>4. /\ DOMAIN recent \cup 1 .. place = 1 .. larger
        /\ larger \in Nat /\ larger <= maxSize
        /\ place # n + 1 => larger = n
    BY <1>1, <1>2
  <1> HIDE DEF larger
  <1>5. /\ \A i \in 1 .. larger : recent'[i] =
             IF i = 1 THEN a ELSE IF i <= place THEN recent[i - 1] ELSE recent[i]
        /\ DOMAIN recent' = 1 .. larger
    BY <1>3, <1>4
  <1>6. \A i \in 1 .. larger : recent'[i] \in Address \cup {None}
    BY <1>1, <1>2, <1>4, <1>5, SMTT(30)
  <1>7. recent' \in Seq(Address \cup {None}) /\ Len(recent') = larger
    <2>1. recent' = [i \in 1 .. larger |-> recent'[i]] BY <1>3, <1>4, <1>5
    <2> QED BY <1>4, <1>6, <2>1
  <1>8. ASSUME NEW i \in DOMAIN recent', recent'[i] # a
        PROVE  \E k \in DOMAIN recent :
                   /\ recent[k] = recent'[i]
                   /\ \E m \in 1 .. i - 1 : recent'[m] = a
                   /\ \A j \in 1 .. k - 1 :
                        recent[j] = a \/ \E m \in 1 .. i - 1 : recent'[m] = recent[j]
    <2>1. i \in 2 .. larger /\ recent'[1] = a
      BY <1>4, <1>5, <1>8
    <2>2. CASE i <= place
      <3>1. i - 1 \in 1 .. n /\ recent[i - 1] = recent'[i]
        BY <1>1, <1>2, <1>4, <1>5, <2>1, <2>2
      <3>2. ASSUME NEW j \in 1 .. i - 2
            PROVE  j + 1 \in 1 .. i - 1 /\ recent'[j + 1] = recent[j]
        BY <1>1, <1>2, <1>4, <1>5, <2>1, <2>2
      <3> QED BY <1>1, <2>1, <3>1, <3>2
    <2>3. CASE ~(i <= place)
      <3>1. found /\ place \in 1 .. n /\ recent[place] = a
        BY <1>1, <1>2, <1>4, <2>1, <2>3
      <3>2. i \in 1 .. n /\ recent'[i] = recent[i]
        BY <1>1, <1>2, <1>4, <1>5, <2>1, <2>3, <3>1
      <3>3. ASSUME NEW j \in 1 .. i - 1, recent[j] # a
            PROVE  \E m \in 1 .. i - 1 : recent'[m] = recent[j]
        <4>1. CASE j < place
          <5>1. j + 1 \in 1 .. i - 1 /\ recent'[j + 1] = recent[j]
            BY <1>1, <1>4, <1>5, <2>1, <2>3, <3>1, <3>2, <4>1
          <5> QED BY <5>1
        <4>2. CASE j > place
          <5>1. recent'[j] = recent[j] BY <1>1, <1>4, <1>5, <2>1, <2>3, <3>1, <3>2, <4>2
          <5> QED BY <5>1
        <4> QED BY <3>1, <3>3, <4>1, <4>2
      <3> QED BY <1>1, <2>1, <3>2, <3>3
    <2> QED BY <2>2, <2>3
  <1> QED BY <1>4, <1>7, <1>8

\* As many places come before an entry as there are addresses in them.
LEMMA PlacesBefore ==
    ASSUME NEW seq, NEW n \in Nat, NEW S,
           \A x \in S : \E j \in 1 .. n : seq[j] = x
    PROVE  IsFiniteSet(S) /\ Cardinality(S) <= n
  <1> DEFINE places == {j \in 1 .. n : seq[j] \in S}
             f == [j \in places |-> seq[j]]
  <1>1. IsFiniteSet(1 .. n) /\ Cardinality(1 .. n) = n BY FS_Interval
  <1>2. IsFiniteSet(places) /\ Cardinality(places) <= n
    BY <1>1, FS_Subset
  <1>3. f \in Surjection(places, S)
    BY DEF Surjection
  <1>4. IsFiniteSet(S) /\ Cardinality(S) <= Cardinality(places)
    BY <1>2, <1>3, FS_Surjection
  <1>5. Cardinality(S) \in Nat /\ Cardinality(places) \in Nat
    BY <1>2, <1>4, FS_CardinalityType
  <1> QED BY <1>2, <1>4, <1>5

\* A hit in the younger generation, or a promise that is put there: the addresses
\* used last are kept, and the younger generation stays the more recent one.
LEMMA RecencyKept ==
    ASSUME TypeOK, SizesInv, RecencyInv, RecentlyUsedAreKept,
           NEW a \in Address, NEW p \in Lookup, Used(a),
           \/ a \in DOMAIN cache /\ UNCHANGED lru
           \/ a \notin DOMAIN cache /\ Set(a, p)
    PROVE  RecencyInv' /\ RecentlyUsedAreKept'
  <1> DEFINE more == With(cache, a, p)
             used == DOMAIN cache \cup {a}
  <1>1. /\ cache \in Generation /\ old \in Generation /\ size \in Nat /\ maxSize \in Nat
        /\ recent \in Seq(Address \cup {None}) /\ Len(recent) <= maxSize
    BY CacheAssumption DEF TypeOK, RecencyInv
  <1>2. /\ recent' \in Seq(Address \cup {None}) /\ Len(recent') <= maxSize
        /\ Len(recent') \in Nat /\ DOMAIN recent' = 1 .. Len(recent')
    BY <1>1, UsedOrder, LenProperties
  <1>3. ASSUME NEW i \in DOMAIN recent', recent'[i] \notin used \cup {None}
        PROVE  \A c \in used : \E m \in 1 .. i - 1 : recent'[m] = c
    <2>1. PICK k \in DOMAIN recent :
                   /\ recent[k] = recent'[i]
                   /\ \E m \in 1 .. i - 1 : recent'[m] = a
                   /\ \A j \in 1 .. k - 1 :
                        recent[j] = a \/ \E m \in 1 .. i - 1 : recent'[m] = recent[j]
      BY <1>1, <1>3, UsedOrder
    <2>2. \A c \in DOMAIN cache : \E j \in 1 .. k - 1 : recent[j] = c
      BY <1>3, <2>1 DEF RecencyInv
    <2> QED BY <2>1, <2>2
  <1>4. ASSUME NEW i \in DOMAIN recent'
        PROVE  recent'[i] \in DOMAIN cache \cup DOMAIN old \cup {a, None}
    <2>1. CASE recent'[i] = a BY <2>1
    <2>2. CASE recent'[i] # a
      <3>1. \E k \in DOMAIN recent : recent[k] = recent'[i]
        BY <1>1, <2>2, UsedOrder
      <3> QED BY <3>1 DEF RecentlyUsedAreKept
    <2> QED BY <2>1, <2>2
  <1>5. CASE a \in DOMAIN cache /\ UNCHANGED lru
    <2>1. cache' = cache /\ old' = old /\ used = DOMAIN cache BY <1>5 DEF lru
    <2>2. RecencyInv' BY <1>2, <1>3, <2>1 DEF RecencyInv
    <2>3. RecentlyUsedAreKept' BY <1>4, <1>5, <2>1 DEF RecentlyUsedAreKept
    <2> QED BY <2>2, <2>3
  <1>6. DOMAIN more = used
    BY <1>1, WithEntry
  <1> HIDE DEF used
  <1>7. CASE a \notin DOMAIN cache /\ Set(a, p) /\ size + 1 < maxSize
    <2>1. cache' = more /\ old' = old BY <1>1, <1>7 DEF Set
    <2> HIDE DEF more
    <2>2. RecencyInv' BY <1>2, <1>3, <1>6, <2>1 DEF RecencyInv
    <2>3. RecentlyUsedAreKept' BY <1>4, <1>6, <2>1 DEF RecentlyUsedAreKept, used
    <2> QED BY <2>2, <2>3
  <1>8. CASE a \notin DOMAIN cache /\ Set(a, p) /\ size + 1 >= maxSize
    <2>1. cache' = <<>> /\ old' = more BY <1>1, <1>8 DEF Set
    <2>2. DOMAIN cache' = {} /\ DOMAIN old' = used BY <1>6, <2>1, NoEntries
    <2>3. RecencyInv'
      BY <1>2, <2>2 DEF RecencyInv
    <2>4. Cardinality(used) = size + 1
      BY <1>8, FS_AddElement DEF SizesInv, GenerationsAgree, used
    <2>5. ASSUME NEW i \in DOMAIN recent', recent'[i] \notin used \cup {None}
          PROVE  FALSE
      <3>1. i - 1 \in Nat /\ i - 1 < maxSize BY <1>1, <1>2
      <3>2. Cardinality(used) <= i - 1
        <4>1. \A c \in used : \E m \in 1 .. i - 1 : recent'[m] = c
          BY <1>3, <2>5
        <4> QED BY <3>1, <4>1, PlacesBefore
      <3> QED BY <1>1, <1>8, <2>4, <3>1, <3>2
    <2> QED BY <2>2, <2>3, <2>5 DEF RecentlyUsedAreKept
  <1> QED BY <1>1, <1>5, <1>7, <1>8

-----------------------------------------------------------------------------
(* The steps of the composition                                            *)

LEMMA ClientIdle ==
    ASSUME ClientSafe, UNCHANGED client
    PROVE  ClientSafe'
  BY DEF client, ClientSafe, ClientTypeOK, ClientInv, OwnAnswer, Underway

\* Steps of the client alone change no answer that a lookup has already had.
LEMMA ClientStepSafe ==
    ASSUME CacheInv, ClientSafe', UNCHANGED lookups,
           \A q \in Lookup : answer[q] \notin {None, Open, Failed} => answer'[q] = answer[q]
    PROVE  CacheInv'
  <1> USE DEF lookups
  <1>1. TypeOK' BY DEF CacheInv, TypeOK, ClientSafe
  <1>2. PromisesInv'
    BY DEF CacheInv, PromisesInv, Cached, Caches
  <1>3. SizesInv' /\ RecencyInv' /\ RecentlyUsedAreKept'
    BY DEF CacheInv, SizesInv, GenerationsAgree, RecencyInv, RecentlyUsedAreKept
  <1> QED BY <1>1, <1>2, <1>3 DEF CacheInv, ClientSafe

\* A lookup shares the promise it finds, or requests the code and caches its own.
LEMMA StartLookupSafe ==
    ASSUME CacheInv, NEW l \in Lookup, NEW a \in Address, StartLookup(l, a)
    PROVE  CacheInv'
  <1>0. /\ ClientSafe /\ TypeOK /\ PromisesInv /\ SizesInv /\ RecencyInv /\ RecentlyUsedAreKept
        /\ cache \in Generation /\ old \in Generation /\ size \in Nat
        /\ l \in Request /\ None \notin Address
    BY CacheAssumption DEF CacheInv, TypeOK, ClientSafe
  <1>1. address[l] = None /\ address' = [address EXCEPT ![l] = a] /\ Used(a)
    BY DEF StartLookup
  <1>2. \E p \in Lookup :
          /\ \/ a \in DOMAIN cache /\ UNCHANGED lru
             \/ /\ a \notin DOMAIN cache /\ Set(a, p)
                /\ a \in DOMAIN old => p = old[a]
          /\ promise' = [promise EXCEPT ![l] = p]
          /\ Cached(a, p) \/ p = l
          /\ ClientSafe'
          /\ \A q \in Lookup : q # l => answer'[q] = answer[q]
    <2>1. CASE a \in DOMAIN cache \cup DOMAIN old
      <3> DEFINE p == IF a \in DOMAIN cache THEN cache[a] ELSE old[a]
      <3>1. /\ Get(a) /\ promise' = [promise EXCEPT ![l] = p] /\ UNCHANGED client
        BY <2>1 DEF StartLookup
      <3>2. p \in Lookup /\ Cached(a, p)
        BY <1>0, <2>1, EntriesTyped DEF Cached, Caches
      <3>3. ClientSafe' /\ answer' = answer
        BY <1>0, <3>1, ClientIdle DEF client
      <3>4. \/ a \in DOMAIN cache /\ UNCHANGED lru
            \/ a \notin DOMAIN cache /\ Set(a, p) /\ p = old[a]
        BY <3>1 DEF Get
      <3> HIDE DEF p
      <3> QED BY <3>1, <3>2, <3>3, <3>4
    <2>2. CASE a \notin DOMAIN cache \cup DOMAIN old
      <3>1. SendRequest(l) /\ Set(a, l) /\ promise' = [promise EXCEPT ![l] = l]
        BY <2>2 DEF StartLookup
      <3>2. ClientSafe' BY <1>0, <3>1, SendRequestSafe
      <3>3. \A q \in Lookup : q # l => answer'[q] = answer[q]
        BY <1>0, <3>1, CacheAssumption DEF SendRequest, ClientSafe, ClientTypeOK
      <3> QED BY <2>2, <3>1, <3>2, <3>3
    <2> QED BY <2>1, <2>2
  <1>3. PICK p \in Lookup :
          /\ \/ a \in DOMAIN cache /\ UNCHANGED lru
             \/ /\ a \notin DOMAIN cache /\ Set(a, p)
                /\ a \in DOMAIN old => p = old[a]
          /\ promise' = [promise EXCEPT ![l] = p]
          /\ Cached(a, p) \/ p = l
          /\ ClientSafe'
          /\ \A q \in Lookup : q # l => answer'[q] = answer[q]
    BY <1>2
  <1>4. RecencyInv' /\ RecentlyUsedAreKept'
    BY <1>0, <1>1, <1>3, RecencyKept
  <1>5. recent' \in Seq(Address \cup {None})
    BY <1>0, <1>1, UsedOrder DEF TypeOK, RecencyInv
  <1>6. /\ cache' \in Generation /\ old' \in Generation /\ size' \in Nat
        /\ \A x, q : Cached(x, q)' => Cached(x, q) \/ (x = a /\ q = p)
        /\ SizesInv'
    <2>1. CASE a \in DOMAIN cache /\ UNCHANGED lru
      BY <1>0, <2>1 DEF lru, Cached, SizesInv, GenerationsAgree
    <2>2. CASE a \notin DOMAIN cache /\ Set(a, p) /\ (a \in DOMAIN old => p = old[a])
      BY <1>0, <2>2, SetEntries, SetSizes
    <2> QED BY <1>3, <2>1, <2>2
  <1>7. TypeOK'
    BY <1>0, <1>1, <1>3, <1>5, <1>6 DEF TypeOK, ClientSafe
  <1>8. PromisesInv'
    <2> SUFFICES ASSUME NEW x \in Address, NEW q \in Lookup, Cached(x, q)'
                 PROVE  /\ address'[q] = x
                        /\ promise'[q] = q \/ answer'[q] \notin {None, Open, Failed}
      BY DEF PromisesInv
    <2>1. CASE Cached(x, q)
      <3>1. address[q] = x /\ (promise[q] = q \/ answer[q] \notin {None, Open, Failed})
        BY <1>0, <2>1 DEF PromisesInv
      <3>2. q # l BY <1>0, <1>1, <3>1
      <3> QED BY <1>0, <1>1, <1>3, <3>1, <3>2 DEF TypeOK
    <2>2. CASE ~Cached(x, q)
      <3>1. x = a /\ q = l BY <1>3, <1>6, <2>2
      <3>2. p = l BY <1>3, <1>6, <2>2, <3>1
      <3> QED BY <1>0, <1>1, <1>3, <3>1, <3>2 DEF TypeOK
    <2> QED BY <2>1, <2>2
  <1> QED BY <1>3, <1>4, <1>6, <1>7, <1>8 DEF CacheInv, ClientSafe

\* A lookup ends; the one that made a request that failed takes its promise out of
\* both generations.
LEMMA FinishLookupSafe ==
    ASSUME CacheInv, NEW l \in Lookup, FinishLookup(l)
    PROVE  CacheInv'
  <1>0. /\ TypeOK /\ PromisesInv /\ SizesInv /\ RecencyInv /\ RecentlyUsedAreKept
        /\ cache \in Generation /\ old \in Generation /\ size \in Nat
        /\ recent \in Seq(Address \cup {None})
    BY DEF CacheInv, TypeOK
  <1>1. /\ Settled(promise[l]) /\ promise' = [promise EXCEPT ![l] = None]
        /\ UNCHANGED <<client, address>>
    BY DEF FinishLookup
  <1>2. ClientSafe'
    BY <1>1, ClientIdle DEF CacheInv, TypeOK, ClientSafe
  <1>3. promise' \in [Lookup -> Lookup \cup {None}]
    BY <1>0, <1>1 DEF TypeOK
  <1>4. CASE /\ promise[l] = l /\ answer[l] = Failed /\ Unset(address[l])
             /\ recent' = [i \in DOMAIN recent |->
                   IF recent[i] = address[l] THEN None ELSE recent[i]]
    <2> DEFINE a == address[l]
    <2>1. SizesInv' /\ size' \in Nat BY <1>0, <1>4, UnsetSizes
    <2>2. /\ cache' \in Generation /\ DOMAIN cache' = DOMAIN cache \ {a}
          /\ \A x \in DOMAIN cache \ {a} : cache'[x] = cache[x]
      BY <1>0, <1>4, WithoutEntry, ZenonT(60) DEF Unset
    <2>3. /\ old' \in Generation /\ DOMAIN old' = DOMAIN old \ {a}
          /\ \A x \in DOMAIN old \ {a} : old'[x] = old[x]
      BY <1>0, <1>4, WithoutEntry DEF Unset
    <2>4. /\ DOMAIN recent = 1 .. Len(recent) /\ Len(recent) \in Nat
          /\ recent' \in Seq(Address \cup {None}) /\ Len(recent') = Len(recent)
          /\ DOMAIN recent' = DOMAIN recent
          /\ \A i \in DOMAIN recent : recent'[i] = IF recent[i] = a THEN None ELSE recent[i]
      <3>1. DOMAIN recent = 1 .. Len(recent) /\ Len(recent) \in Nat
            /\ \A i \in 1 .. Len(recent) : recent[i] \in Address \cup {None}
        BY <1>0, LenProperties
      <3> QED BY <1>4, <3>1
    <2> HIDE DEF a
    <2>5. RecencyInv'
      <3>1. ASSUME NEW i \in DOMAIN recent', recent'[i] \notin DOMAIN cache' \cup {None},
                   NEW c \in DOMAIN cache'
            PROVE  \E j \in 1 .. i - 1 : recent'[j] = c
        <4>1. recent[i] \notin DOMAIN cache \cup {None} /\ c \in DOMAIN cache /\ c # a
          BY <2>2, <2>4, <3>1
        <4>2. PICK j \in 1 .. i - 1 : recent[j] = c
          BY <1>0, <2>4, <4>1 DEF RecencyInv
        <4>3. recent'[j] = c BY <2>4, <4>1, <4>2
        <4> QED BY <4>3
      <3> QED BY <1>0, <2>4, <3>1 DEF RecencyInv
    <2>6. RecentlyUsedAreKept'
      BY <1>0, <2>2, <2>3, <2>4 DEF RecentlyUsedAreKept
    <2>7. TypeOK'
      BY <1>0, <1>1, <1>2, <1>3, <2>1, <2>2, <2>3, <2>4 DEF TypeOK, ClientSafe
    <2>8. PromisesInv'
      <3> SUFFICES ASSUME NEW x \in Address, NEW q \in Lookup, Cached(x, q)'
                   PROVE  /\ address'[q] = x
                          /\ promise'[q] = q \/ answer'[q] \notin {None, Open, Failed}
        BY DEF PromisesInv
      <3>1. Cached(x, q) /\ x # a BY <2>2, <2>3 DEF Cached, Caches
      <3>2. address[q] = x /\ (promise[q] = q \/ answer[q] \notin {None, Open, Failed})
        BY <1>0, <3>1 DEF PromisesInv
      <3>3. q # l BY <3>1, <3>2 DEF a
      <3> QED BY <1>0, <1>1, <3>2, <3>3 DEF TypeOK, client
    <2> QED BY <1>2, <2>1, <2>5, <2>6, <2>7, <2>8 DEF CacheInv, ClientSafe
  <1>5. CASE (promise[l] # l \/ answer[l] # Failed) /\ UNCHANGED <<lru, recent>>
    <2>1. TypeOK' BY <1>0, <1>1, <1>2, <1>3, <1>5 DEF TypeOK, ClientSafe, lru
    <2>2. SizesInv' /\ RecencyInv' /\ RecentlyUsedAreKept'
      BY <1>0, <1>5 DEF lru, SizesInv, GenerationsAgree, RecencyInv, RecentlyUsedAreKept
    <2>3. PromisesInv'
      <3> SUFFICES ASSUME NEW x \in Address, NEW q \in Lookup, Cached(x, q)'
                   PROVE  /\ address'[q] = x
                          /\ promise'[q] = q \/ answer'[q] \notin {None, Open, Failed}
        BY DEF PromisesInv
      <3>1. Cached(x, q) BY <1>5 DEF Cached, lru
      <3>2. address[q] = x /\ (promise[q] = q \/ answer[q] \notin {None, Open, Failed})
        BY <1>0, <3>1 DEF PromisesInv
      <3>3. CASE q # l BY <1>0, <1>1, <3>2, <3>3 DEF TypeOK, client
      <3>4. CASE q = l
        <4>1. answer[l] \notin {None, Open, Failed}
          BY <1>1, <1>5, <3>2, <3>4 DEF Settled
        <4> QED BY <1>1, <3>2, <3>4, <4>1 DEF client
      <3> QED BY <3>3, <3>4
    <2> QED BY <1>2, <2>1, <2>2, <2>3 DEF CacheInv, ClientSafe
  <1> QED BY <1>4, <1>5 DEF FinishLookup

-----------------------------------------------------------------------------
(* The theorems                                                            *)

\* CacheInv holds in every state, whatever the node answers and in whatever order
\* lookups, batches, timers and answers follow each other.
THEOREM CacheInvariant == Spec => []CacheInv
  <1>1. Init => CacheInv
    <2> SUFFICES ASSUME Init PROVE CacheInv
      OBVIOUS
    <2>1. /\ queue = <<>> /\ timer = FALSE /\ sent = {}
          /\ answer = [r \in Request |-> None]
          /\ cache = <<>> /\ old = <<>> /\ size = 0 /\ recent = <<>>
          /\ address = [l \in Lookup |-> None] /\ promise = [l \in Lookup |-> None]
      BY DEF Init, ClientInit
    <2>2. <<>> \in Seq(Request) /\ <<>> \in Seq(Address \cup {None}) /\ Len(<<>>) = 0
      BY EmptySeq
    <2>3. DOMAIN <<>> = {} BY NoEntries
    <2>4. TypeOK /\ OwnAnswer
      <3>1. ClientTypeOK BY <2>1, <2>2 DEF ClientTypeOK
      <3>2. OwnAnswer BY <2>1, Marks DEF OwnAnswer
      <3>3. cache \in Generation /\ old \in Generation BY <2>1, NoEntries
      <3> QED BY <2>1, <2>2, <3>1, <3>2, <3>3 DEF TypeOK
    <2>5. ClientInv
      <3>1. \A r \in Request : answer[r] = None /\ ~Underway(r)
        BY <2>1, EmptyBatch DEF Underway
      <3> QED BY <2>1, <2>3, <3>1, Marks DEF ClientInv
    <2>6. PromisesInv BY <2>1, <2>3 DEF PromisesInv, Cached, Caches
    <2>7. SizesInv
      <3>1. 0 < Max({maxSize, 1}) BY CacheAssumption, LargerOfTwo
      <3>2. DOMAIN cache = {} /\ DOMAIN old = {} BY <2>1, <2>3
      <3>3. IsFiniteSet({}) /\ Cardinality({}) = 0 BY FS_EmptySet
      <3>4. 0 <= Max({maxSize, 1}) BY CacheAssumption, LargerOfTwo
      <3> QED BY <2>1, <3>1, <3>2, <3>3, <3>4 DEF SizesInv, GenerationsAgree
    <2>8. RecencyInv /\ RecentlyUsedAreKept
      BY <2>1, <2>2, <2>3, CacheAssumption DEF RecencyInv, RecentlyUsedAreKept
    <2> QED BY <2>4, <2>5, <2>6, <2>7, <2>8 DEF CacheInv
  <1>2. CacheInv /\ [Next]_vars => CacheInv'
    <2> SUFFICES ASSUME CacheInv, [Next]_vars PROVE CacheInv'
      OBVIOUS
    <2>0. ClientSafe BY DEF CacheInv, TypeOK, ClientSafe
    <2>1. CASE \E l \in Lookup, a \in Address : StartLookup(l, a)
      BY <2>1, StartLookupSafe
    <2>2. CASE \E l \in Lookup : FinishLookup(l)
      BY <2>2, FinishLookupSafe
    <2>3. ASSUME NEW b \in BatchCalls, SendRequestBatch(b), UNCHANGED lookups
          PROVE  CacheInv'
      <3>1. b \in Seq(Request) /\ \A i \in DOMAIN b : b[i] \notin Lookup
        <4>1. b \in Seq(Request \ Lookup) BY CacheAssumption
        <4> QED BY <4>1, SeqMonotonic, LenProperties
      <3>2. ClientSafe' BY <2>0, <2>3, <3>1, SendRequestBatchSafe
      <3>3. \A q \in Lookup : answer'[q] = answer[q]
        BY <2>3, <3>1, CacheAssumption DEF SendRequestBatch, InBatch
      <3> QED BY <2>3, <3>2, <3>3, ClientStepSafe
    <2>4. CASE ProcessQueue /\ UNCHANGED lookups
      <3>1. ClientSafe' /\ answer' = answer
        BY <2>0, <2>4, ProcessQueueSafe DEF ProcessQueue
      <3> QED BY <2>4, <3>1, ClientStepSafe
    <2>5. ASSUME NEW b \in sent, ReceiveResponses(b) \/ FailBatch(b), UNCHANGED lookups
          PROVE  CacheInv'
      <3>1. /\ ClientSafe'
            /\ \A r \in Request : answer'[r] # answer[r] => answer[r] = Open
        BY <2>0, <2>5, EndOfBatchSafe
      <3> QED BY <2>5, <3>1, CacheAssumption, ClientStepSafe
    <2>6. CASE UNCHANGED vars
      <3>1. ClientSafe'
        BY <2>0, <2>6, ClientIdle DEF vars, client
      <3> QED BY <2>6, <3>1, ClientStepSafe DEF vars, lookups
    <2> QED BY <2>1, <2>2, <2>3, <2>4, <2>5, <2>6 DEF Next, Call, Progress
  <1> QED BY <1>1, <1>2, PTL DEF Spec

\* The types of the client and of the cache.
THEOREM TypeCorrect == Spec => []TypeOK
  <1>1. CacheInv => TypeOK BY DEF CacheInv
  <1> QED BY <1>1, CacheInvariant, PTL

\* No request is stranded or sent twice (scheduleFlush, processQueue).
THEOREM RequestsAreUnderWay == Spec => []OpenRequestsAreUnderWay
  <1>1. CacheInv => OpenRequestsAreUnderWay
    BY UnderwayOnce DEF CacheInv, TypeOK, ClientSafe
  <1> QED BY <1>1, CacheInvariant, PTL

\* A request is resolved with its own response, whatever responses come in whatever
\* order (the matching by id of the client).
THEOREM ResolvedWithOwnAnswer == Spec => []OwnAnswer
  <1>1. CacheInv => OwnAnswer BY DEF CacheInv
  <1> QED BY <1>1, CacheInvariant, PTL

\* The size counter of the LRU cache is right and its generations agree (_set, unset,
\* get).
THEOREM CountsAreRight == Spec => []GenerationsAgree
  <1>1. CacheInv => GenerationsAgree BY DEF CacheInv, SizesInv
  <1> QED BY <1>1, CacheInvariant, PTL

\* The maxSize addresses used last are not evicted (the swap of the generations).
THEOREM RecentOnesAreKept == Spec => []RecentlyUsedAreKept
  <1>1. CacheInv => RecentlyUsedAreKept BY DEF CacheInv
  <1> QED BY <1>1, CacheInvariant, PTL

\* A failed request does not stay in the cache (the catch of cachedAsync).
THEOREM FailuresAreRemoved == Spec => []FailureNotKept
  <1>1. CacheInv => FailureNotKept
    <2> SUFFICES ASSUME CacheInv, NEW f \in {cache, old}, NEW a \in DOMAIN f,
                        answer[f[a]] = Failed
                 PROVE  promise[f[a]] = f[a]
      BY DEF FailureNotKept
    <2>1. f \in Generation BY DEF CacheInv, TypeOK
    <2>2. a \in Address /\ f[a] \in Lookup BY <2>1, EntriesTyped
    <2>3. Cached(a, f[a]) BY DEF Cached, Caches
    <2> QED BY <2>2, <2>3 DEF CacheInv, PromisesInv
  <1> QED BY <1>1, CacheInvariant, PTL
=============================================================================
