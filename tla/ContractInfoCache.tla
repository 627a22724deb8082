-------------------------- MODULE ContractInfoCache -------------------------
(***************************************************************************)
(* Contract lookups (lookupContractInfo of core/blockwatcher.ts) through   *)
(* cachedAsync (utils/cache.ts) and the two-generation LRU cache of        *)
(* promises (utils/lru.ts), over the batching Ethereum client.             *)
(*                                                                         *)
(* A lookup that finds no promise for its address requests the code of the *)
(* contract and caches the promise; other lookups of the address share it. *)
(* The lookup that made the request removes the address again when the     *)
(* request fails.  A promise is named by the lookup that made it.          *)
(***************************************************************************)
EXTENDS EthClient, Functions

CONSTANTS
    Address,
    Lookup,       \* the lookups in the order they are made, each a request if it
                  \* finds nothing cached
    BatchCalls,   \* the calls of requestBatch by the watchers, as sequences
    maxSize       \* config contractInfo.maxCacheEntries

ASSUME CacheAssumption ==
    /\ Lookup \subseteq Request
    /\ BatchCalls \subseteq Seq(Request \ Lookup)
    /\ maxSize \in Nat
    /\ None \notin Address

VARIABLES
    cache, old,   \* the two generations, functions from some addresses to promises
    size,         \* what the cache counts as the size of the younger one
    address,      \* the address of each lookup
    promise,      \* the promise each lookup awaits, None before and after
    recent        \* history: the last maxSize addresses used, the latest first;
                  \* None in the place of one that has been removed since

lru == <<cache, old, size>>
vars == <<queue, timer, sent, answer, cache, old, size, address, promise, recent>>

With(f, a, p) == [x \in DOMAIN f \cup {a} |-> IF x = a THEN p ELSE f[x]]
Without(f, a) == [x \in DOMAIN f \ {a} |-> f[x]]

-----------------------------------------------------------------------------
(* The LRU cache                                                           *)

\* A seeded fault: the younger generation is dropped, not kept, when it is full.
SetDropsYounger(a, p) ==
    IF size + 1 >= maxSize
      THEN cache' = <<>> /\ old' = old /\ size' = 0
      ELSE cache' = With(cache, a, p) /\ size' = size + 1 /\ UNCHANGED old

\* A seeded fault: the generations are swapped one entry late.
SetOneTooMany(a, p) ==
    IF size >= maxSize
      THEN cache' = <<>> /\ old' = With(cache, a, p) /\ size' = 0
      ELSE cache' = With(cache, a, p) /\ size' = size + 1 /\ UNCHANGED old

\* _set, for an address that is not in the younger generation.
Set(a, p) ==
    IF size + 1 >= maxSize
      THEN cache' = <<>> /\ old' = With(cache, a, p) /\ size' = 0
      ELSE cache' = With(cache, a, p) /\ size' = size + 1 /\ UNCHANGED old

\* A seeded fault: an address is removed from the younger generation only.
UnsetYounger(a) ==
    /\ cache' = Without(cache, a)
    /\ size' = IF a \in DOMAIN cache THEN size - 1 ELSE size
    /\ UNCHANGED old

Unset(a) ==
    /\ cache' = Without(cache, a)
    /\ size' = IF a \in DOMAIN cache THEN size - 1 ELSE size
    /\ old' = Without(old, a)

\* get, of an address that is in one of the generations.
Get(a) == IF a \in DOMAIN cache THEN UNCHANGED lru ELSE Set(a, old[a])

-----------------------------------------------------------------------------
(* Lookups                                                                 *)

\* The address moves to the front; those before its place, or all of them, move up.
Used(a) ==
    LET place == IF \E i \in DOMAIN recent : recent[i] = a
                   THEN CHOOSE i \in DOMAIN recent : recent[i] = a
                 ELSE IF Len(recent) < maxSize THEN Len(recent) + 1 ELSE maxSize
    IN recent' = [i \in DOMAIN recent \cup 1 .. place |->
                    IF i = 1 THEN a ELSE IF i <= place THEN recent[i - 1] ELSE recent[i]]

\* cachedAsync up to its first await.
StartLookup(l, a) ==
    /\ address[l] = None
    /\ \A k \in Lookup : k < l => address[k] # None
    /\ address' = [address EXCEPT ![l] = a]
    /\ Used(a)
    /\ \/ /\ a \in DOMAIN cache \cup DOMAIN old
          /\ Get(a)
          /\ promise' = [promise EXCEPT ![l] = IF a \in DOMAIN cache THEN cache[a] ELSE old[a]]
          /\ UNCHANGED client
       \/ /\ a \notin DOMAIN cache \cup DOMAIN old
          /\ SendRequest(l)
          /\ Set(a, l)
          /\ promise' = [promise EXCEPT ![l] = l]

\* The await is over: the lookup that made the request removes a failure.
FinishLookup(l) ==
    /\ promise[l] # None
    /\ Settled(promise[l])
    /\ promise' = [promise EXCEPT ![l] = None]
    /\ \/ /\ promise[l] = l /\ answer[l] = Failed
          /\ Unset(address[l])
          /\ recent' = [i \in DOMAIN recent |->
                IF recent[i] = address[l] THEN None ELSE recent[i]]
       \/ /\ promise[l] # l \/ answer[l] # Failed
          /\ UNCHANGED <<lru, recent>>
    /\ UNCHANGED <<client, address>>

lookups == <<cache, old, size, address, promise, recent>>

Init ==
    /\ ClientInit
    /\ cache = <<>> /\ old = <<>> /\ size = 0 /\ recent = <<>>
    /\ address = [l \in Lookup |-> None] /\ promise = [l \in Lookup |-> None]

Call ==
    \/ \E l \in Lookup, a \in Address : StartLookup(l, a)
    \/ \E b \in BatchCalls : SendRequestBatch(b) /\ UNCHANGED lookups

Progress ==
    \/ \E l \in Lookup : FinishLookup(l)
    \/ ProcessQueue /\ UNCHANGED lookups
    \/ \E b \in sent : (ReceiveResponses(b) \/ FailBatch(b)) /\ UNCHANGED lookups

Next == Call \/ Progress

\* Timers fire, microtasks run, and the node answers or the connection breaks:
\* the client sets no timeout of its own.  Each of these steps is taken a bounded
\* number of times, so fairness to them together is fairness to each.
Fairness == WF_vars(Progress)

Spec == Init /\ [][Next]_vars /\ Fairness

-----------------------------------------------------------------------------
(* Properties                                                              *)

Generation == UNION {[as -> Lookup] : as \in SUBSET Address}

TypeOK ==
    /\ ClientTypeOK
    /\ cache \in Generation /\ old \in Generation /\ size \in Nat
    /\ address \in [Lookup -> Address \cup {None}]
    /\ promise \in [Lookup -> Lookup \cup {None}]
    /\ recent \in Seq(Address \cup {None})

\* Through promotions, swaps and removals the count is the size of the younger
\* generation, each generation keeps to maxSize, and an address in both has the
\* same promise in both.
GenerationsAgree ==
    /\ size = Cardinality(DOMAIN cache)
    /\ size < Max({maxSize, 1})
    /\ Cardinality(DOMAIN old) <= Max({maxSize, 1})
    /\ \A a \in DOMAIN cache \cap DOMAIN old : cache[a] = old[a]

\* The maxSize addresses used last are never evicted, only removed when their
\* request has failed.
RecentlyUsedAreKept ==
    \A i \in DOMAIN recent : recent[i] \in DOMAIN cache \cup DOMAIN old \cup {None}

\* A failed request is found by later lookups only until the lookup that made it
\* has seen it fail, in whichever generation it is by then.
FailureNotKept ==
    \A f \in {cache, old} : \A a \in DOMAIN f :
        answer[f[a]] = Failed => promise[f[a]] = f[a]

\* Every lookup comes to an end.
EveryLookupEnds == \A l \in Lookup : promise[l] # None ~> promise[l] = None
=============================================================================
