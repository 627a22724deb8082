------------------------- MODULE OutputQueueProofs -------------------------
(***************************************************************************)
(* Proofs about the output clients (OutputQueue): no message is ever in    *)
(* two places, none is stranded without a timer, and the client implements *)
(* the outbox, for any messages, limits and numbers of retries.            *)
(***************************************************************************)
EXTENDS OutputQueue, FiniteSetTheorems, SequenceTheorems, TLAPS

Batch == [msgs : Seq(Message) \ {<<>>}, next : Nat \ {0}, attempt : Nat \ {0},
          cancelled : BOOLEAN, pc : BatchState]

-----------------------------------------------------------------------------
(* The invariant.  Its parts speak of a queue q, batches bs and pushes pu,  *)
(* so that they can be applied to the state before and after a step.       *)

Holds(s, m) == \E i \in 1 .. Len(s) : s[i] = m
Distinct(s) == \A i, j \in 1 .. Len(s) : s[i] = s[j] => i = j
InSome(bs, m) == \E k \in 1 .. Len(bs) : Holds(bs[k].msgs, m)
SendingIn(bs, m) == \E k \in 1 .. Len(bs) : Holds(bs[k].msgs, m) /\ bs[k].pc \in Live

\* A message is in the queue once, or in one batch once, or with its push.
Apart(q, bs, pu) ==
    /\ Distinct(q)
    /\ \A k \in 1 .. Len(bs) : Distinct(bs[k].msgs)
    /\ \A k, l \in 1 .. Len(bs) : \A m \in Message :
         Holds(bs[k].msgs, m) /\ Holds(bs[l].msgs, m) => k = l
    /\ \A m \in Message : Holds(q, m) => ~InSome(bs, m)
    /\ \A m \in Message : pu[m] # Idle => ~Holds(q, m) /\ ~InSome(bs, m)

\* The next message of a batch exists, and what is stored has been in a batch.
Placed(bs, st) ==
    /\ \A k \in 1 .. Len(bs) : bs[k].next <= Len(bs[k].msgs)
    /\ \A m \in st : InSome(bs, m)

QueueInv ==
    /\ TypeOK
    /\ Apart(queue, batches, push)
    /\ Placed(batches, stored)
    /\ QueuedHasTimer

Flushed(q, bs) == IF q = <<>> THEN bs ELSE Append(bs, NewBatch(q))

-----------------------------------------------------------------------------
(* Where a message is                                                      *)

\* The sets of positions of the model, as questions.
LEMMA PlacesOf ==
    ASSUME NEW m, queue \in Seq(Message), batches \in Seq(Batch)
    PROVE  /\ Positions(m, queue) # {} <=> Holds(queue, m)
           /\ InBatches(m) # {} <=> InSome(batches, m)
           /\ Sending(m) <=> SendingIn(batches, m)
           /\ Pushed(m) <=> push[m] # Idle \/ Holds(queue, m) \/ InSome(batches, m)
           /\ \A p \in InBatches(m) :
                /\ p[1] \in 1 .. Len(batches)
                /\ p[2] \in 1 .. Len(batches[p[1]].msgs)
                /\ batches[p[1]].msgs[p[2]] = m /\ p = <<p[1], p[2]>>
  <1>1. DOMAIN queue = 1 .. Len(queue) /\ DOMAIN batches = 1 .. Len(batches)
    OBVIOUS
  <1>2. \A k \in 1 .. Len(batches) : DOMAIN batches[k].msgs = 1 .. Len(batches[k].msgs)
    BY DEF Batch
  <1>3. Positions(m, queue) # {} <=> Holds(queue, m) BY <1>1 DEF Positions, Holds
  <1>4. \A p \in InBatches(m) :
           /\ p[1] \in 1 .. Len(batches)
           /\ p[2] \in 1 .. Len(batches[p[1]].msgs)
           /\ batches[p[1]].msgs[p[2]] = m /\ p = <<p[1], p[2]>>
    BY <1>1, <1>2 DEF InBatches, Positions
  <1>5. \A k \in 1 .. Len(batches) : \A i \in 1 .. Len(batches[k].msgs) :
           batches[k].msgs[i] = m => <<k, i>> \in InBatches(m)
    BY <1>1, <1>2 DEF InBatches, Positions
  <1>6. InBatches(m) # {} <=> InSome(batches, m)
    BY <1>4, <1>5 DEF InSome, Holds
  <1>7. Sending(m) <=> SendingIn(batches, m)
    <2>1. ASSUME Sending(m) PROVE SendingIn(batches, m)
      <3>1. PICK p \in InBatches(m) : batches[p[1]].pc \in Live BY <2>1 DEF Sending
      <3> QED BY <1>4, <3>1 DEF SendingIn, Holds
    <2>2. ASSUME SendingIn(batches, m) PROVE Sending(m)
      <3>1. PICK k \in 1 .. Len(batches) :
              Holds(batches[k].msgs, m) /\ batches[k].pc \in Live
        BY <2>2 DEF SendingIn
      <3>2. PICK i \in 1 .. Len(batches[k].msgs) : batches[k].msgs[i] = m
        BY <3>1 DEF Holds
      <3>3. <<k, i>> \in InBatches(m) BY <1>5, <3>2
      <3> QED BY <3>1, <3>3 DEF Sending
    <2> QED BY <2>1, <2>2
  <1> QED BY <1>3, <1>4, <1>6, <1>7 DEF Pushed

LEMMA HoldsMembers ==
    ASSUME NEW q \in Seq(Message), NEW m, Holds(q, m)
    PROVE  m \in Message
  BY DEF Holds

-----------------------------------------------------------------------------
(* What moves messages: a message is queued, the queue becomes a batch, a   *)
(* push takes hold of its message or lets it go, a batch goes on.           *)

LEMMA EmptyQueue ==
    /\ <<>> \in Seq(Message)
    /\ \A m : ~Holds(<<>>, m)
    /\ Distinct(<<>>)
  <1>1. <<>> \in Seq(Message) /\ Len(<<>>) = 0 BY EmptySeq
  <1> QED BY <1>1 DEF Holds, Distinct

LEMMA Appended ==
    ASSUME NEW q \in Seq(Message), NEW m \in Message
    PROVE  /\ Append(q, m) \in Seq(Message) /\ Append(q, m) # <<>>
           /\ \A x : Holds(Append(q, m), x) <=> Holds(q, x) \/ x = m
  <1> DEFINE a == Append(q, m)
  <1>1. /\ a \in Seq(Message) /\ Len(a) = Len(q) + 1 /\ a[Len(q) + 1] = m
        /\ \A i \in 1 .. Len(q) : a[i] = q[i]
        /\ Len(q) \in Nat
    OBVIOUS
  <1>2. 1 .. Len(a) = (1 .. Len(q)) \cup {Len(q) + 1} BY <1>1
  <1>3. a # <<>> BY <1>1
  <1> HIDE DEF a
  <1>4. \A x : Holds(a, x) <=> Holds(q, x) \/ x = m
    BY <1>1, <1>2 DEF Holds
  <1> QED BY <1>1, <1>3, <1>4 DEF a

LEMMA AppendApart ==
    ASSUME NEW q \in Seq(Message), NEW bs, NEW pu, NEW m \in Message,
           Apart(q, bs, pu), ~Holds(q, m), ~InSome(bs, m), pu[m] = Idle
    PROVE  Apart(Append(q, m), bs, pu)
  <1> DEFINE a == Append(q, m)
  <1>1. /\ Len(a) = Len(q) + 1 /\ a[Len(q) + 1] = m /\ Len(q) \in Nat
        /\ \A i \in 1 .. Len(q) : a[i] = q[i]
    OBVIOUS
  <1>2. \A x : Holds(a, x) <=> Holds(q, x) \/ x = m BY Appended
  <1> HIDE DEF a
  <1>3. \A i \in 1 .. Len(q) : q[i] # m BY DEF Holds
  <1>4. Distinct(a)
    BY <1>1, <1>3 DEF Apart, Distinct
  <1>5. \A x \in Message : Holds(a, x) => ~InSome(bs, x) BY <1>2 DEF Apart
  <1>6. \A x \in Message : pu[x] # Idle => ~Holds(a, x) /\ ~InSome(bs, x)
    BY <1>2 DEF Apart
  <1> QED BY <1>4, <1>5, <1>6 DEF Apart, a

\* A flush: the new batch is the last one, the others stay as they are.
LEMMA FlushBatches ==
    ASSUME NEW q \in Seq(Message), NEW bs \in Seq(Batch), q # <<>>
    PROVE  /\ Flushed(q, bs) \in Seq(Batch)
           /\ Len(Flushed(q, bs)) = Len(bs) + 1
           /\ Flushed(q, bs)[Len(bs) + 1] = NewBatch(q)
           /\ \A k \in 1 .. Len(bs) : Flushed(q, bs)[k] = bs[k]
           /\ 1 .. Len(Flushed(q, bs)) = (1 .. Len(bs)) \cup {Len(bs) + 1}
           /\ Len(bs) \in Nat
  <1>1. "send" \in BatchState BY DEF BatchState, Live
  <1>2. NewBatch(q) \in Batch BY <1>1 DEF NewBatch, Batch
  <1>3. Flushed(q, bs) = Append(bs, NewBatch(q)) BY DEF Flushed
  <1> QED BY <1>2, <1>3

LEMMA FlushPlaces ==
    ASSUME NEW q \in Seq(Message), NEW bs \in Seq(Batch), NEW m
    PROVE  /\ InSome(Flushed(q, bs), m) <=> InSome(bs, m) \/ Holds(q, m)
           /\ SendingIn(Flushed(q, bs), m) <=> SendingIn(bs, m) \/ Holds(q, m)
  <1>1. CASE q = <<>> BY <1>1, EmptyQueue DEF Flushed
  <1>2. CASE q # <<>>
    <2>1. /\ Flushed(q, bs)[Len(bs) + 1] = NewBatch(q)
          /\ \A k \in 1 .. Len(bs) : Flushed(q, bs)[k] = bs[k]
          /\ 1 .. Len(Flushed(q, bs)) = (1 .. Len(bs)) \cup {Len(bs) + 1}
      BY <1>2, FlushBatches
    <2>2. NewBatch(q).msgs = q /\ NewBatch(q).pc \in Live BY DEF NewBatch, Live
    <2> QED BY <2>1, <2>2 DEF InSome, SendingIn
  <1> QED BY <1>1, <1>2

LEMMA FlushApart ==
    ASSUME NEW q \in Seq(Message), NEW bs \in Seq(Batch), NEW pu, Apart(q, bs, pu)
    PROVE  Apart(<<>>, Flushed(q, bs), pu)
  <1> DEFINE f == Flushed(q, bs)
  <1>1. CASE q = <<>> BY <1>1 DEF Flushed
  <1>2. CASE q # <<>>
    <2>1. /\ f[Len(bs) + 1] = NewBatch(q) /\ Len(bs) \in Nat
          /\ \A k \in 1 .. Len(bs) : f[k] = bs[k]
          /\ 1 .. Len(f) = (1 .. Len(bs)) \cup {Len(bs) + 1}
      BY <1>2, FlushBatches
    <2>2. \A m : InSome(f, m) <=> InSome(bs, m) \/ Holds(q, m) BY FlushPlaces
    <2>3. NewBatch(q).msgs = q BY DEF NewBatch
    <2> HIDE DEF f
    <2>4. \A k \in 1 .. Len(f) : Distinct(f[k].msgs) BY <2>1, <2>3 DEF Apart
    <2>5. ASSUME NEW k \in 1 .. Len(f), NEW l \in 1 .. Len(f), NEW m \in Message,
                 Holds(f[k].msgs, m), Holds(f[l].msgs, m)
          PROVE  k = l
      <3>1. CASE k \in 1 .. Len(bs) /\ l \in 1 .. Len(bs) BY <2>1, <2>5, <3>1 DEF Apart
      <3>2. CASE k = Len(bs) + 1 /\ l \in 1 .. Len(bs)
        BY <2>1, <2>3, <2>5, <3>2 DEF Apart, InSome
      <3>3. CASE l = Len(bs) + 1 /\ k \in 1 .. Len(bs)
        BY <2>1, <2>3, <2>5, <3>3 DEF Apart, InSome
      <3> QED BY <2>1, <3>1, <3>2, <3>3
    <2>6. \A m \in Message : pu[m] # Idle => ~Holds(<<>>, m) /\ ~InSome(f, m)
      BY <2>2, EmptyQueue DEF Apart
    <2>7. Apart(<<>>, f, pu) BY <2>4, <2>5, <2>6, EmptyQueue DEF Apart
    <2> QED BY <2>7 DEF f
  <1> QED BY <1>1, <1>2

LEMMA PushTakesHold ==
    ASSUME NEW q, NEW bs, NEW pu \in [Message -> Int], NEW m \in Message, NEW v,
           Apart(q, bs, pu), ~Holds(q, m), ~InSome(bs, m)
    PROVE  Apart(q, bs, [pu EXCEPT ![m] = v])
  BY DEF Apart

LEMMA SameMessages ==
    ASSUME NEW bs, NEW cs, NEW q, NEW pu, Len(cs) = Len(bs),
           \A k \in 1 .. Len(bs) : cs[k].msgs = bs[k].msgs
    PROVE  /\ \A m : InSome(cs, m) <=> InSome(bs, m)
           /\ Apart(q, bs, pu) => Apart(q, cs, pu)
  <1>1. \A m : InSome(cs, m) <=> InSome(bs, m) BY DEF InSome
  <1>2. Apart(q, bs, pu) => Apart(q, cs, pu)
    <2> SUFFICES ASSUME Apart(q, bs, pu) PROVE Apart(q, cs, pu) OBVIOUS
    <2>1. \A k \in 1 .. Len(cs) : Distinct(cs[k].msgs) BY DEF Apart
    <2>2. \A k, l \in 1 .. Len(cs) : \A m \in Message :
            Holds(cs[k].msgs, m) /\ Holds(cs[l].msgs, m) => k = l
      BY DEF Apart
    <2> QED BY <1>1, <2>1, <2>2 DEF Apart
  <1> QED BY <1>1, <1>2

-----------------------------------------------------------------------------
(* What the outbox sees                                                    *)

Waiting(q, bs, pu, m) == pu[m] >= Now \/ Holds(q, m) \/ SendingIn(bs, m)
Dropped(bs, pu, m) == pu[m] = Failed \/ (InSome(bs, m) /\ ~SendingIn(bs, m))

OutboxView ==
    /\ PendingMessages = {m \in Message \ stored : Waiting(queue, batches, push, m)}
    /\ LostMessages = {m \in Message \ stored : Dropped(batches, push, m)}

LEMMA ViewOf == TypeOK => OutboxView
  <1> SUFFICES ASSUME TypeOK PROVE OutboxView OBVIOUS
  <1>1. queue \in Seq(Message) /\ batches \in Seq(Batch) BY DEF TypeOK, Batch
  <1>2. \A m : /\ Positions(m, queue) # {} <=> Holds(queue, m)
               /\ InBatches(m) # {} <=> InSome(batches, m)
               /\ Sending(m) <=> SendingIn(batches, m)
    BY <1>1, PlacesOf
  <1> QED BY <1>2 DEF OutboxView, PendingMessages, LostMessages, Waiting, Dropped

LEMMA ViewAfter == TypeOK' => OutboxView'
  BY ViewOf, PTL

Simulated == O!OutboxNext \/ UNCHANGED O!outbox

\* Nothing changes for the outbox.
LEMMA OutboxStutters ==
    ASSUME TypeOK, TypeOK', stored' = stored,
           \A m \in Message \ stored :
             /\ Waiting(queue, batches, push, m)' <=> Waiting(queue, batches, push, m)
             /\ Dropped(batches, push, m)' <=> Dropped(batches, push, m)
    PROVE  Simulated
  <1>1. OutboxView /\ OutboxView' BY ViewOf, ViewAfter
  <1>2. PendingMessages' = PendingMessages /\ LostMessages' = LostMessages
    BY <1>1 DEF OutboxView
  <1> QED BY <1>2 DEF Simulated, O!outbox

\* One message is new to it.
LEMMA OutboxAccepts ==
    ASSUME TypeOK, TypeOK', stored' = stored, NEW m \in Message \ stored,
           ~Waiting(queue, batches, push, m), ~Dropped(batches, push, m),
           Waiting(queue, batches, push, m)', ~Dropped(batches, push, m)',
           \A x \in Message \ (stored \cup {m}) :
             /\ Waiting(queue, batches, push, x)' <=> Waiting(queue, batches, push, x)
             /\ Dropped(batches, push, x)' <=> Dropped(batches, push, x)
    PROVE  Simulated
  <1>1. OutboxView /\ OutboxView' BY ViewOf, ViewAfter
  <1>2. PendingMessages' = PendingMessages \cup {m} BY <1>1 DEF OutboxView
  <1>3. LostMessages' = LostMessages BY <1>1 DEF OutboxView
  <1>4. m \notin PendingMessages \cup stored \cup LostMessages BY <1>1 DEF OutboxView
  <1>5. O!Accept(m) BY <1>2, <1>3, <1>4 DEF O!Accept
  <1> QED BY <1>5 DEF Simulated, O!OutboxNext

\* Some of its messages, maybe none, are stored or lost.
LEMMA OutboxSettles ==
    ASSUME TypeOK, TypeOK', NEW kept, NEW dropped,
           stored' = stored \cup kept, kept \cap dropped = {},
           \A m \in kept \cup dropped :
             m \in Message \ stored /\ Waiting(queue, batches, push, m),
           \A m \in Message \ (stored \cup kept) :
             /\ Waiting(queue, batches, push, m)'
                  <=> m \notin dropped /\ Waiting(queue, batches, push, m)
             /\ Dropped(batches, push, m)' <=> m \in dropped \/ Dropped(batches, push, m),
           \A m \in kept : ~Dropped(batches, push, m)
    PROVE  Simulated
  <1>1. OutboxView /\ OutboxView' BY ViewOf, ViewAfter
  <1>2. kept \in SUBSET PendingMessages /\ dropped \in SUBSET PendingMessages
    BY <1>1 DEF OutboxView
  <1>3. PendingMessages' = PendingMessages \ (kept \cup dropped)
    BY <1>1 DEF OutboxView
  <1>4. LostMessages' = LostMessages \cup dropped
    <2>1. ASSUME NEW m \in LostMessages' PROVE m \in LostMessages \cup dropped
      <3>1. m \in Message \ (stored \cup kept) /\ Dropped(batches, push, m)'
        BY <1>1 DEF OutboxView
      <3>2. m \in dropped \/ Dropped(batches, push, m) BY <3>1
      <3> QED BY <1>1, <3>1, <3>2 DEF OutboxView
    <2>2. ASSUME NEW m \in LostMessages \cup dropped PROVE m \in LostMessages'
      <3>1. m \in Message \ stored /\ (m \in dropped \/ Dropped(batches, push, m))
        BY <1>1 DEF OutboxView
      <3>2. m \notin kept BY <3>1
      <3>3. m \in Message \ (stored \cup kept) BY <3>1, <3>2
      <3>4. Dropped(batches, push, m)' BY <3>1, <3>3
      <3> QED BY <1>1, <3>3, <3>4 DEF OutboxView
    <2> QED BY <2>1, <2>2
  <1>5. O!Settle(kept, dropped) BY <1>2, <1>3, <1>4 DEF O!Settle
  <1> QED BY <1>2, <1>5 DEF Simulated, O!OutboxNext

-----------------------------------------------------------------------------
(* The parts of the steps                                                  *)

\* What queueing and flushing leave in order, whatever becomes of the pushes.
InOrder ==
    /\ queue \in Seq(Message) /\ batches \in Seq(Batch)
    /\ \A k \in 1 .. Len(batches) : batches[k].next <= Len(batches[k].msgs)
    /\ QueuedHasTimer

LEMMA FlushInOrder ==
    ASSUME InOrder, NEW q \in Seq(Message), flushInternal(q)
    PROVE  /\ InOrder' /\ batches' = Flushed(q, batches) /\ queue' = <<>> /\ timer' = FALSE
           /\ Len(batches) <= Len(batches')
           /\ q # <<>> => Len(batches') = Len(batches) + 1
  <1>1. queue' = <<>> /\ timer' = FALSE /\ batches' = Flushed(q, batches)
    BY DEF flushInternal, Flushed
  <1>2. CASE q = <<>>
    <2>1. batches' = batches BY <1>1, <1>2 DEF Flushed
    <2>2. Len(batches) \in Nat BY DEF InOrder
    <2> QED BY <1>1, <1>2, <2>1, <2>2, EmptyQueue DEF InOrder, QueuedHasTimer
  <1>3. CASE q # <<>>
    <2>1. /\ batches' \in Seq(Batch)
          /\ Len(batches') = Len(batches) + 1 /\ Len(batches) \in Nat
          /\ batches'[Len(batches) + 1] = NewBatch(q)
          /\ \A k \in 1 .. Len(batches) : batches'[k] = batches[k]
          /\ 1 .. Len(batches') = (1 .. Len(batches)) \cup {Len(batches) + 1}
      BY <1>1, <1>3, FlushBatches DEF InOrder
    <2>2. NewBatch(q).next <= Len(NewBatch(q).msgs)
      <3>1. Len(q) \in Nat /\ Len(q) # 0 BY <1>3, EmptySeq
      <3>2. NewBatch(q).next = 1 /\ NewBatch(q).msgs = q BY DEF NewBatch
      <3> QED BY <3>1, <3>2
    <2>3. \A k \in 1 .. Len(batches') : batches'[k].next <= Len(batches'[k].msgs)
      BY <2>1, <2>2 DEF InOrder
    <2> QED BY <1>1, <1>3, <2>1, <2>3, EmptyQueue DEF InOrder, QueuedHasTimer
  <1> QED BY <1>2, <1>3

\* A message in no place is queued.
LEMMA EnqueueInOrder ==
    ASSUME InOrder, NEW pu, NEW m \in Message, NEW n \in Nat, Enqueue(m, n),
           Apart(queue, batches, pu), pu[m] = Idle,
           ~Holds(queue, m), ~InSome(batches, m)
    PROVE  /\ InOrder' /\ Apart(queue', batches', pu)
           /\ counter' \in Nat /\ timer' \in BOOLEAN /\ Len(batches) <= Len(batches')
           /\ \A x : /\ InSome(batches, x) => InSome(batches', x)
                     /\ Waiting(queue', batches', pu, x)
                          <=> x = m \/ Waiting(queue, batches, pu, x)
                     /\ x # m => (Dropped(batches', pu, x) <=> Dropped(batches, pu, x))
           /\ ~Dropped(batches', pu, m)
  <1> DEFINE a == Append(queue, m)
  <1>1. /\ a \in Seq(Message) /\ a # <<>>
        /\ \A x : Holds(a, x) <=> Holds(queue, x) \/ x = m
    BY Appended DEF InOrder
  <1>2. Apart(a, batches, pu) BY AppendApart DEF InOrder
  <1>3. \/ flushInternal(a) /\ counter' = 0
        \/ /\ queue' = a /\ timer' = TRUE /\ counter' = n
           /\ UNCHANGED batches
    BY DEF Enqueue
  <1>4. \A x : Holds(queue, x) => x \in Message BY HoldsMembers DEF InOrder
  <1>5. \A x : Holds(queue, x) => ~InSome(batches, x) BY <1>4 DEF Apart
  <1>6. Idle # Failed BY DEF Idle, Failed
  <1>7. \A x : Holds(queue, x) => pu[x] # Failed BY <1>4, <1>6 DEF Apart
  <1> HIDE DEF a
  <1>8. CASE flushInternal(a) /\ counter' = 0
    <2>1. /\ InOrder' /\ batches' = Flushed(a, batches) /\ queue' = <<>> /\ timer' = FALSE
          /\ Len(batches) <= Len(batches')
      BY <1>1, <1>8, FlushInOrder
    <2>2. Apart(queue', batches', pu) BY <1>1, <1>2, <2>1, FlushApart DEF InOrder
    <2>3. \A x : /\ InSome(batches', x) <=> InSome(batches, x) \/ Holds(a, x)
                 /\ SendingIn(batches', x) <=> SendingIn(batches, x) \/ Holds(a, x)
                 /\ ~Holds(queue', x)
      BY <1>1, <2>1, FlushPlaces, EmptyQueue DEF InOrder
    <2> QED BY <1>1, <1>5, <1>6, <1>7, <1>8, <2>1, <2>2, <2>3 DEF Waiting, Dropped
  <1>9. CASE queue' = a /\ timer' = TRUE /\ counter' = n /\ UNCHANGED batches
    <2>1. InOrder' BY <1>1, <1>9 DEF InOrder, QueuedHasTimer
    <2>2. Apart(queue', batches', pu) BY <1>2, <1>9
    <2>3. Len(batches) <= Len(batches') BY <1>9 DEF InOrder
    <2>4. \A x : /\ InSome(batches, x) <=> InSome(batches', x)
                 /\ SendingIn(batches', x) <=> SendingIn(batches, x)
      BY <1>9
    <2>5. \A x : Waiting(queue', batches', pu, x) <=> x = m \/ Waiting(queue, batches, pu, x)
      BY <1>1, <1>9, <2>4 DEF Waiting
    <2>6. /\ \A x : Dropped(batches', pu, x) <=> Dropped(batches, pu, x)
          /\ ~Dropped(batches', pu, m)
      BY <1>6, <2>4 DEF Dropped
    <2> QED BY <1>9, <2>1, <2>2, <2>3, <2>4, <2>5, <2>6
  <1> QED BY <1>3, <1>8, <1>9

-----------------------------------------------------------------------------
(* The steps: each keeps the invariant and is a step of the outbox or none  *)

StillTyped ==
    /\ UNCHANGED config /\ process' \in {"up", "frozen", "gone"} /\ active' \in BOOLEAN

LEMMA PartsOfInv ==
    ASSUME QueueInv
    PROVE  /\ InOrder /\ queue \in Seq(Message) /\ batches \in Seq(Batch)
           /\ Len(batches) \in Nat /\ DOMAIN batches = 1 .. Len(batches)
           /\ counter \in Nat /\ counter + 1 \in Nat /\ timer \in BOOLEAN
           /\ push \in [Message -> {Idle, Refused, Failed, Now} \cup 1 .. Len(batches)]
           /\ push \in [Message -> Int]
           /\ Apart(queue, batches, push) /\ Placed(batches, stored)
           /\ stored \subseteq Message
           /\ process \in {"up", "frozen", "gone"} /\ active \in BOOLEAN
           /\ counted \in Nat
           /\ \A n \in Nat : counterAfterFlush(n) \in Nat
  <1>1. queue \in Seq(Message) /\ batches \in Seq(Batch) BY DEF QueueInv, TypeOK, Batch
  <1>2. Len(batches) \in Nat /\ DOMAIN batches = 1 .. Len(batches) BY <1>1
  <1>3. push \in [Message -> {Idle, Refused, Failed, Now} \cup 1 .. Len(batches)]
    BY <1>2 DEF QueueInv, TypeOK
  <1>4. \A v \in {Idle, Refused, Failed, Now} \cup 1 .. Len(batches) : v \in Int
    BY <1>2 DEF Idle, Refused, Failed, Now
  <1>5. push \in [Message -> Int] BY <1>3, <1>4
  <1>6. counter \in Nat /\ counter + 1 \in Nat BY DEF QueueInv, TypeOK
  <1> QED
    BY <1>1, <1>2, <1>3, <1>5, <1>6
    DEF QueueInv, TypeOK, InOrder, Placed, counted, counterAfterFlush

\* The invariant of the next state from what the steps are known to do.
LEMMA InvFromParts ==
    ASSUME QueueInv, StillTyped, InOrder', counter' \in Nat, timer' \in BOOLEAN,
           push' \in [Message -> {Idle, Refused, Failed, Now} \cup 1 .. Len(batches')],
           Apart(queue', batches', push'), stored' \subseteq Message,
           \A m \in stored' : InSome(batches', m)
    PROVE  QueueInv' /\ TypeOK'
  <1>1. batches' \in Seq(Batch) BY DEF InOrder
  <1>2. DOMAIN batches' = 1 .. Len(batches') BY <1>1
  <1>3. config' \in Configs BY DEF QueueInv, TypeOK, StillTyped
  <1>4. TypeOK'
    BY <1>1, <1>2, <1>3 DEF InOrder, StillTyped, TypeOK, Batch
  <1> QED BY <1>4 DEF QueueInv, Placed, InOrder

\* A push that is given a number of a batch, or one of the marks.
LEMMA PushTyped ==
    ASSUME NEW n \in Nat, NEW l \in Nat, n <= l, NEW m \in Message,
           NEW pu \in [Message -> {Idle, Refused, Failed, Now} \cup 1 .. n],
           NEW v \in {Idle, Refused, Failed, Now} \cup 1 .. l
    PROVE  [pu EXCEPT ![m] = v] \in [Message -> {Idle, Refused, Failed, Now} \cup 1 .. l]
  <1>1. \A x \in 1 .. n : x \in 1 .. l OBVIOUS
  <1> QED BY <1>1

LEMMA PushSteps ==
    ASSUME QueueInv, NEW m \in Message, Push(m), process = "up"
    PROVE  QueueInv' /\ Simulated
  <1>1. /\ InOrder /\ queue \in Seq(Message) /\ batches \in Seq(Batch)
        /\ Len(batches) \in Nat
        /\ push \in [Message -> {Idle, Refused, Failed, Now} \cup 1 .. Len(batches)]
        /\ push \in [Message -> Int] /\ Apart(queue, batches, push)
        /\ Placed(batches, stored) /\ stored \subseteq Message
        /\ counted \in Nat /\ counterAfterFlush(counted) \in Nat
        /\ counter \in Nat /\ timer \in BOOLEAN
    BY PartsOfInv
  <1>2. push[m] = Idle /\ ~Holds(queue, m) /\ ~InSome(batches, m)
    BY <1>1, PlacesOf DEF Push
  <1>3. m \in Message \ stored BY <1>1, <1>2 DEF Placed
  <1>4. /\ Idle # Failed /\ Refused # Failed /\ ~(Idle >= Now) /\ ~(Refused >= Now)
        /\ Idle # Refused
    BY DEF Idle, Failed, Refused, Now
  <1>5. ~Waiting(queue, batches, push, m) /\ ~Dropped(batches, push, m)
    BY <1>2, <1>4 DEF Waiting, Dropped, SendingIn, InSome
  <1>6. TypeOK /\ StillTyped /\ stored' = stored
    BY DEF QueueInv, TypeOK, Push, StillTyped, RejectsUnhandled
  <1>7. CASE ~active
    <2>1. /\ push' = [push EXCEPT ![m] = Refused]
          /\ UNCHANGED <<queue, counter, timer, batches>>
      BY <1>7 DEF Push
    <2>2. InOrder' BY <1>1, <2>1 DEF InOrder, QueuedHasTimer
    <2>3. Apart(queue', batches', push') BY <1>1, <1>2, <2>1, PushTakesHold
    <2>4. push' \in [Message -> {Idle, Refused, Failed, Now} \cup 1 .. Len(batches')]
      BY <1>1, <2>1, PushTyped
    <2>5. QueueInv' /\ TypeOK'
      BY <1>1, <1>6, <2>1, <2>2, <2>3, <2>4, InvFromParts DEF Placed
    <2>6. \A x \in Message :
            /\ Waiting(queue, batches, push, x)' <=> Waiting(queue, batches, push, x)
            /\ Dropped(batches, push, x)' <=> Dropped(batches, push, x)
      <3>1. push'[m] = Refused /\ \A x \in Message \ {m} : push'[x] = push[x]
        BY <1>1, <2>1
      <3>2. \A x \in Message : (push'[x] >= Now <=> push[x] >= Now)
                                 /\ (push'[x] = Failed <=> push[x] = Failed)
        BY <1>2, <1>4, <3>1
      <3> QED BY <2>1, <3>2 DEF Waiting, Dropped
    <2> QED BY <1>6, <2>5, <2>6, OutboxStutters
  <1>8. CASE active /\ FlushesFirst
    <2>1. /\ flushInternal(queue) /\ counter' = counterAfterFlush(counted)
          /\ push' = [push EXCEPT ![m] = IF queue = <<>> THEN Now ELSE Len(batches) + 1]
      BY <1>8 DEF Push
    <2>2. /\ InOrder' /\ batches' = Flushed(queue, batches) /\ queue' = <<>>
          /\ timer' = FALSE /\ Len(batches) <= Len(batches')
          /\ queue # <<>> => Len(batches') = Len(batches) + 1
      BY <1>1, <2>1, FlushInOrder
    <2>3. Apart(queue, batches, push') BY <1>1, <1>2, <2>1, PushTakesHold
    <2>4. Apart(queue', batches', push') BY <1>1, <2>2, <2>3, FlushApart
    <2>5. Len(batches') \in Nat BY <2>2 DEF InOrder
    <2> DEFINE v == IF queue = <<>> THEN Now ELSE Len(batches) + 1
    <2>6. v \in {Idle, Refused, Failed, Now} \cup 1 .. Len(batches') /\ v >= Now /\ v # Failed
      BY <1>1, <2>2, <2>5 DEF Now, Failed
    <2>7. push' = [push EXCEPT ![m] = v] BY <2>1
    <2> HIDE DEF v
    <2>8. push' \in [Message -> {Idle, Refused, Failed, Now} \cup 1 .. Len(batches')]
      BY <1>1, <2>2, <2>5, <2>6, <2>7, PushTyped
    <2>9. \A x : /\ InSome(batches', x) <=> InSome(batches, x) \/ Holds(queue, x)
                 /\ SendingIn(batches', x) <=> SendingIn(batches, x) \/ Holds(queue, x)
                 /\ ~Holds(queue', x)
      BY <1>1, <2>2, FlushPlaces, EmptyQueue
    <2>10. QueueInv' /\ TypeOK'
      BY <1>1, <1>6, <2>1, <2>2, <2>4, <2>8, <2>9, InvFromParts DEF Placed
    <2>11. push'[m] = v /\ \A x \in Message \ {m} : push'[x] = push[x]
      BY <1>1, <2>7
    <2>12. Waiting(queue, batches, push, m)' /\ ~Dropped(batches, push, m)'
      BY <1>2, <2>6, <2>9, <2>11 DEF Waiting, Dropped
    <2>13. \A x \in Message \ {m} :
            /\ Waiting(queue, batches, push, x)' <=> Waiting(queue, batches, push, x)
            /\ Dropped(batches, push, x)' <=> Dropped(batches, push, x)
      <3>1. \A x \in Message : Holds(queue, x) => ~InSome(batches, x) BY <1>1 DEF Apart
      <3> QED BY <2>9, <2>11, <3>1 DEF Waiting, Dropped
    <2> QED BY <1>3, <1>5, <1>6, <2>10, <2>12, <2>13, OutboxAccepts
  <1>9. CASE active /\ ~FlushesFirst
    <2>1. Enqueue(m, counted) /\ push' = push BY <1>9 DEF Push
    <2>2. /\ InOrder' /\ Apart(queue', batches', push)
          /\ counter' \in Nat /\ timer' \in BOOLEAN /\ Len(batches) <= Len(batches')
          /\ \A x : /\ InSome(batches, x) => InSome(batches', x)
                    /\ Waiting(queue', batches', push, x)
                         <=> x = m \/ Waiting(queue, batches, push, x)
                    /\ x # m => (Dropped(batches', push, x) <=> Dropped(batches, push, x))
          /\ ~Dropped(batches', push, m)
      BY <1>1, <1>2, <2>1, EnqueueInOrder
    <2>3. Len(batches') \in Nat BY <2>2 DEF InOrder
    <2>4. push' \in [Message -> {Idle, Refused, Failed, Now} \cup 1 .. Len(batches')]
      BY <1>1, <2>1, <2>2, <2>3
    <2>5. QueueInv' /\ TypeOK'
      BY <1>1, <1>6, <2>1, <2>2, <2>4, InvFromParts DEF Placed
    <2>6. Waiting(queue, batches, push, m)' /\ ~Dropped(batches, push, m)'
      BY <2>1, <2>2
    <2>7. \A x \in Message \ {m} :
            /\ Waiting(queue, batches, push, x)' <=> Waiting(queue, batches, push, x)
            /\ Dropped(batches, push, x)' <=> Dropped(batches, push, x)
      BY <2>1, <2>2
    <2> QED BY <1>3, <1>5, <1>6, <2>5, <2>6, <2>7, OutboxAccepts
  <1> QED BY <1>7, <1>8, <1>9 DEF Push

LEMMA ResumePushSteps ==
    ASSUME QueueInv, NEW m \in Message, ResumePush(m), process = "up"
    PROVE  QueueInv' /\ Simulated
  <1>1. /\ InOrder /\ queue \in Seq(Message) /\ batches \in Seq(Batch)
        /\ Len(batches) \in Nat /\ DOMAIN batches = 1 .. Len(batches)
        /\ push \in [Message -> {Idle, Refused, Failed, Now} \cup 1 .. Len(batches)]
        /\ push \in [Message -> Int] /\ Apart(queue, batches, push)
        /\ Placed(batches, stored) /\ stored \subseteq Message /\ counter \in Nat
    BY PartsOfInv
  <1>2. /\ push[m] >= Now /\ push[m] # Idle /\ push[m] # Failed
    BY <1>1 DEF ResumePush, Settled, Now, Idle, Failed
  <1>3. ~Holds(queue, m) /\ ~InSome(batches, m) BY <1>1, <1>2 DEF Apart
  <1>4. TypeOK /\ StillTyped /\ stored' = stored
    BY DEF QueueInv, TypeOK, ResumePush, StillTyped
  <1>5. push' = [push EXCEPT ![m] = Idle] /\ Enqueue(m, counter) BY DEF ResumePush
  <1>6. Apart(queue, batches, push') BY <1>1, <1>3, <1>5, PushTakesHold
  <1>7. push'[m] = Idle /\ \A x \in Message \ {m} : push'[x] = push[x] BY <1>1, <1>5
  <1>8. /\ InOrder' /\ Apart(queue', batches', push')
        /\ counter' \in Nat /\ timer' \in BOOLEAN /\ Len(batches) <= Len(batches')
        /\ \A x : /\ InSome(batches, x) => InSome(batches', x)
                  /\ Waiting(queue', batches', push', x)
                       <=> x = m \/ Waiting(queue, batches, push', x)
                  /\ x # m => (Dropped(batches', push', x) <=> Dropped(batches, push', x))
        /\ ~Dropped(batches', push', m)
    BY <1>1, <1>3, <1>5, <1>6, <1>7, EnqueueInOrder
  <1>9. Len(batches') \in Nat BY <1>8 DEF InOrder
  <1>10. push' \in [Message -> {Idle, Refused, Failed, Now} \cup 1 .. Len(batches')]
    BY <1>1, <1>5, <1>8, <1>9, PushTyped
  <1>11. QueueInv' /\ TypeOK' BY <1>1, <1>4, <1>8, <1>10, InvFromParts DEF Placed
  <1>12. \A x \in Message \ stored :
           /\ Waiting(queue, batches, push, x)' <=> Waiting(queue, batches, push, x)
           /\ Dropped(batches, push, x)' <=> Dropped(batches, push, x)
    <2>1. Waiting(queue, batches, push, m) /\ ~Dropped(batches, push, m)
      BY <1>2, <1>3 DEF Waiting, Dropped
    <2>2. \A x \in Message \ {m} :
            /\ Waiting(queue, batches, push', x) <=> Waiting(queue, batches, push, x)
            /\ Dropped(batches, push', x) <=> Dropped(batches, push, x)
      BY <1>7 DEF Waiting, Dropped
    <2> QED BY <1>8, <2>1, <2>2
  <1> QED BY <1>4, <1>11, <1>12, OutboxStutters

LEMMA FailPushSteps ==
    ASSUME QueueInv, NEW m \in Message, FailPush(m), process = "up"
    PROVE  QueueInv' /\ Simulated
  <1>1. /\ InOrder /\ Len(batches) \in Nat
        /\ push \in [Message -> {Idle, Refused, Failed, Now} \cup 1 .. Len(batches)]
        /\ push \in [Message -> Int] /\ Apart(queue, batches, push)
        /\ Placed(batches, stored) /\ stored \subseteq Message /\ counter \in Nat
        /\ timer \in BOOLEAN
    BY PartsOfInv
  <1>2. push[m] >= Now /\ push[m] # Idle /\ push[m] # Failed /\ ~(Failed >= Now)
    BY <1>1 DEF FailPush, Now, Idle, Failed
  <1>3. ~Holds(queue, m) /\ ~InSome(batches, m) BY <1>1, <1>2 DEF Apart
  <1>4. /\ TypeOK /\ StillTyped /\ push' = [push EXCEPT ![m] = Failed]
        /\ UNCHANGED <<queue, counter, timer, batches, stored>>
    BY DEF QueueInv, TypeOK, FailPush, StillTyped
  <1>5. InOrder' BY <1>1, <1>4 DEF InOrder, QueuedHasTimer
  <1>6. Apart(queue', batches', push') BY <1>1, <1>3, <1>4, PushTakesHold
  <1>7. push' \in [Message -> {Idle, Refused, Failed, Now} \cup 1 .. Len(batches')]
    BY <1>1, <1>4, PushTyped
  <1>8. QueueInv' /\ TypeOK' BY <1>1, <1>4, <1>5, <1>6, <1>7, InvFromParts DEF Placed
  <1>9. m \in Message \ stored BY <1>1, <1>3 DEF Placed
  <1>10. push'[m] = Failed /\ \A x \in Message \ {m} : push'[x] = push[x] BY <1>1, <1>4
  <1>11. \A x \in Message \ {m} :
           /\ Waiting(queue, batches, push, x)' <=> Waiting(queue, batches, push, x)
           /\ Dropped(batches, push, x)' <=> Dropped(batches, push, x)
    BY <1>4, <1>10 DEF Waiting, Dropped
  <1>12. /\ Waiting(queue, batches, push, m) /\ ~Waiting(queue, batches, push, m)'
         /\ Dropped(batches, push, m)'
    BY <1>2, <1>3, <1>4, <1>10 DEF Waiting, Dropped, SendingIn, InSome
  <1> DEFINE kept == {}
             dropped == {m}
  <1>13. /\ stored' = stored \cup kept /\ kept \cap dropped = {}
         /\ \A x \in kept \cup dropped :
              x \in Message \ stored /\ Waiting(queue, batches, push, x)
         /\ \A x \in kept : ~Dropped(batches, push, x)
    BY <1>4, <1>9, <1>12
  <1>14. \A x \in Message \ (stored \cup kept) :
           /\ Waiting(queue, batches, push, x)'
                <=> x \notin dropped /\ Waiting(queue, batches, push, x)
           /\ Dropped(batches, push, x)' <=> x \in dropped \/ Dropped(batches, push, x)
    BY <1>11, <1>12
  <1> HIDE DEF kept, dropped
  <1>15. Simulated BY <1>4, <1>8, <1>13, <1>14, OutboxSettles
  <1> QED BY <1>8, <1>15

\* The batch of index k goes on as c, and the messages kept reach the database.
LEMMA BatchGoesOn ==
    ASSUME QueueInv, StillTyped, NEW k \in 1 .. Len(batches), batches[k].pc \in Live,
           NEW c \in Batch, c.msgs = batches[k].msgs, c.next <= Len(c.msgs),
           batches' = [batches EXCEPT ![k] = c], NEW kept, stored' = stored \cup kept,
           \A m \in kept : m \in Message \ stored /\ Holds(batches[k].msgs, m),
           UNCHANGED <<queue, counter, timer, push>>
    PROVE  QueueInv' /\ Simulated
  <1>1. /\ InOrder /\ queue \in Seq(Message) /\ batches \in Seq(Batch)
        /\ Len(batches) \in Nat /\ DOMAIN batches = 1 .. Len(batches)
        /\ push \in [Message -> {Idle, Refused, Failed, Now} \cup 1 .. Len(batches)]
        /\ push \in [Message -> Int] /\ Apart(queue, batches, push)
        /\ Placed(batches, stored) /\ stored \subseteq Message /\ counter \in Nat
        /\ timer \in BOOLEAN
    BY PartsOfInv
  <1>2. /\ batches' \in Seq(Batch) /\ Len(batches') = Len(batches) /\ batches'[k] = c
        /\ \A l \in 1 .. Len(batches) : l # k => batches'[l] = batches[l]
    BY <1>1
  <1>3. \A l \in 1 .. Len(batches) : batches'[l].msgs = batches[l].msgs BY <1>2
  <1>4. /\ \A m : InSome(batches', m) <=> InSome(batches, m)
        /\ Apart(queue, batches', push)
    BY <1>1, <1>2, <1>3, SameMessages
  <1>5. InOrder' BY <1>1, <1>2 DEF InOrder, QueuedHasTimer
  <1>6. \A m : Holds(batches[k].msgs, m) => InSome(batches, m) BY DEF InSome
  <1>7. stored' \subseteq Message /\ \A m \in stored' : InSome(batches', m)
    BY <1>1, <1>4, <1>6 DEF Placed
  <1>8. push' \in [Message -> {Idle, Refused, Failed, Now} \cup 1 .. Len(batches')]
    BY <1>1, <1>2
  <1>9. QueueInv' /\ TypeOK' BY <1>1, <1>4, <1>5, <1>7, <1>8, InvFromParts
  <1>10. TypeOK BY DEF QueueInv
  <1> DEFINE Of(m) == Holds(batches[k].msgs, m)
             dropped == IF c.pc \in Live THEN {} ELSE {m \in Message \ (stored \cup kept) : Of(m)}
  <1>11. \A m \in Message : Of(m) => /\ SendingIn(batches, m) /\ InSome(batches, m)
                                     /\ ~Holds(queue, m) /\ push[m] = Idle
    BY <1>1, <1>6 DEF Apart, SendingIn
  <1>12. ~(Idle >= Now) /\ Idle # Failed BY DEF Idle, Now, Failed
  <1>13. \A m \in Message : ~Of(m) => (SendingIn(batches', m) <=> SendingIn(batches, m))
    BY <1>2, <1>3 DEF SendingIn
  <1>14. \A m \in Message : Of(m) => (SendingIn(batches', m) <=> c.pc \in Live)
    <2>1. ASSUME NEW m \in Message, Of(m), c.pc \in Live PROVE SendingIn(batches', m)
      BY <1>2, <2>1 DEF SendingIn
    <2>2. ASSUME NEW m \in Message, Of(m), SendingIn(batches', m) PROVE c.pc \in Live
      <3>1. PICK l \in 1 .. Len(batches') :
              Holds(batches'[l].msgs, m) /\ batches'[l].pc \in Live
        BY <2>2 DEF SendingIn
      <3>2. l = k BY <1>1, <1>2, <1>3, <2>2, <3>1 DEF Apart
      <3> QED BY <1>2, <3>1, <3>2
    <2> QED BY <2>1, <2>2
  <1>15. \A m \in kept \cup dropped :
           m \in Message \ stored /\ Of(m) /\ Waiting(queue, batches, push, m)
    BY <1>11 DEF Waiting
  <1>16. \A m \in kept : ~Dropped(batches, push, m)
    BY <1>11, <1>12, <1>15 DEF Dropped
  <1>17. kept \cap dropped = {} OBVIOUS
  <1>18. \A m \in Message \ (stored \cup kept) :
           m \in dropped <=> c.pc \notin Live /\ Of(m)
    OBVIOUS
  <1> HIDE DEF dropped, Of
  <1>19. \A m \in Message \ (stored \cup kept) :
           /\ Waiting(queue, batches, push, m)'
                <=> m \notin dropped /\ Waiting(queue, batches, push, m)
           /\ Dropped(batches, push, m)' <=> m \in dropped \/ Dropped(batches, push, m)
    <2> SUFFICES ASSUME NEW m \in Message \ (stored \cup kept)
                 PROVE  /\ Waiting(queue, batches', push, m)
                             <=> m \notin dropped /\ Waiting(queue, batches, push, m)
                        /\ Dropped(batches', push, m)
                             <=> m \in dropped \/ Dropped(batches, push, m)
      OBVIOUS
    <2>1. CASE Of(m) BY <1>4, <1>11, <1>12, <1>14, <1>18, <2>1 DEF Waiting, Dropped
    <2>2. CASE ~Of(m) BY <1>4, <1>13, <1>18, <2>2 DEF Waiting, Dropped
    <2> QED BY <2>1, <2>2
  <1>20. \A m \in kept \cup dropped :
           m \in Message \ stored /\ Waiting(queue, batches, push, m)
    BY <1>15
  <1> QED BY <1>9, <1>10, <1>16, <1>17, <1>19, <1>20, OutboxSettles

LEMMA BatchForms ==
    ASSUME QueueInv, NEW k \in 1 .. Len(batches)
    PROVE  /\ batches[k] \in Batch /\ batches[k].next <= Len(batches[k].msgs)
           /\ batches[k].next \in 1 .. Len(batches[k].msgs)
           /\ \A pc \in BatchState :
                LET c == [batches[k] EXCEPT !.pc = pc]
                IN c \in Batch /\ c.msgs = batches[k].msgs /\ c.next = batches[k].next
           /\ LET c == again(batches[k])
              IN c \in Batch /\ c.msgs = batches[k].msgs /\ c.next <= Len(c.msgs)
           /\ batches[k].next # Len(batches[k].msgs) =>
                LET c == [batches[k] EXCEPT !.next = @ + 1]
                IN c \in Batch /\ c.msgs = batches[k].msgs /\ c.next <= Len(c.msgs)
  <1>1. batches \in Seq(Batch) /\ Placed(batches, stored) BY PartsOfInv
  <1> DEFINE b == batches[k]
  <1>2. b \in Batch /\ b.next <= Len(b.msgs) BY <1>1 DEF Placed
  <1> HIDE DEF b
  <1>3. /\ b.msgs \in Seq(Message) /\ Len(b.msgs) \in Nat /\ b.next \in Nat \ {0}
        /\ b.attempt \in Nat \ {0} /\ 1 <= b.next
    BY <1>2 DEF Batch
  <1>4. b.next \in 1 .. Len(b.msgs) BY <1>2, <1>3
  <1>5. \A pc \in BatchState :
          LET c == [b EXCEPT !.pc = pc]
          IN c \in Batch /\ c.msgs = b.msgs /\ c.next = b.next
    BY <1>2 DEF Batch
  <1>6. "send" \in BatchState BY DEF BatchState, Live
  <1>7. /\ again(b) \in Batch /\ again(b).msgs = b.msgs /\ again(b).next = 1
    <2>1. ASSUME NEW n \in Nat \ {0}
          PROVE  LET c == [b EXCEPT !.pc = "send", !.next = 1, !.attempt = n]
                 IN c \in Batch /\ c.msgs = b.msgs /\ c.next = 1
      <3> DEFINE c == [b EXCEPT !.pc = "send", !.next = 1, !.attempt = n]
                 c1 == [b EXCEPT !.pc = "send"]
                 c2 == [c1 EXCEPT !.next = 1]
                 c3 == [c2 EXCEPT !.attempt = n]
      <3>1. c = c3 BY <1>2 DEF Batch
      <3>2. c1 \in Batch /\ c1.msgs = b.msgs BY <1>2, <1>6 DEF Batch
      <3> HIDE DEF c1
      <3>3. c2 \in Batch /\ c2.msgs = b.msgs /\ c2.next = 1 BY <3>2 DEF Batch
      <3> HIDE DEF c2
      <3>4. c3 \in Batch /\ c3.msgs = b.msgs /\ c3.next = 1 BY <3>3 DEF Batch
      <3> QED BY <3>1, <3>4
    <2> DEFINE n == IF Retryable(b) /\ maxRetries # NoLimit THEN b.attempt + 1 ELSE b.attempt
    <2>2. b.attempt + 1 \in Nat \ {0} BY <1>3
    <2>3. n \in Nat \ {0} BY <1>3, <2>2
    <2>4. again(b) = [b EXCEPT !.pc = "send", !.next = 1, !.attempt = n] BY DEF again
    <2>5. LET c == [b EXCEPT !.pc = "send", !.next = 1, !.attempt = n]
          IN c \in Batch /\ c.msgs = b.msgs /\ c.next = 1
      <3> HIDE DEF n
      <3> QED BY <2>1, <2>3
    <2> QED BY <2>4, <2>5
  <1>8. again(b).next <= Len(again(b).msgs) BY <1>2, <1>3, <1>7
  <1>9. b.next # Len(b.msgs) =>
          LET c == [b EXCEPT !.next = @ + 1]
          IN c \in Batch /\ c.msgs = b.msgs /\ c.next <= Len(c.msgs)
    BY <1>2, <1>3 DEF Batch
  <1> QED BY <1>2, <1>4, <1>5, <1>7, <1>8, <1>9 DEF b

\* A batch that is taken up again, waits or fails, without a message stored.
LEMMA BatchWithoutStoring ==
    ASSUME QueueInv, StillTyped, NEW k \in 1 .. Len(batches), batches[k].pc \in Live,
           UNCHANGED <<queue, counter, timer, push, stored>>,
           \/ \E pc \in BatchState : batches' = [batches EXCEPT ![k].pc = pc]
           \/ batches' = [batches EXCEPT ![k] = again(batches[k])]
           \/ /\ batches[k].next # Len(batches[k].msgs)
              /\ batches' = [batches EXCEPT ![k] = [batches[k] EXCEPT !.next = @ + 1]]
    PROVE  QueueInv' /\ Simulated
  <1>1. stored' = stored \cup {} OBVIOUS
  <1>2. ASSUME NEW c \in Batch, c.msgs = batches[k].msgs, c.next <= Len(c.msgs),
               batches' = [batches EXCEPT ![k] = c]
        PROVE  QueueInv' /\ Simulated
    <2> DEFINE kept == {}
    <2>1. \A m \in kept : m \in Message \ stored /\ Holds(batches[k].msgs, m) OBVIOUS
    <2>2. stored' = stored \cup kept BY <1>1
    <2> HIDE DEF kept
    <2> QED BY <1>2, <2>1, <2>2, BatchGoesOn
  <1>3. CASE \E pc \in BatchState : batches' = [batches EXCEPT ![k].pc = pc]
    <2>1. PICK pc \in BatchState : batches' = [batches EXCEPT ![k].pc = pc] BY <1>3
    <2> DEFINE c == [batches[k] EXCEPT !.pc = pc]
    <2>2. c \in Batch /\ c.msgs = batches[k].msgs /\ c.next <= Len(c.msgs)
      BY BatchForms
    <2>3. batches' = [batches EXCEPT ![k] = c] BY <2>1
    <2> HIDE DEF c
    <2> QED BY <1>2, <2>2, <2>3
  <1>4. CASE batches' = [batches EXCEPT ![k] = again(batches[k])]
    <2> DEFINE c == again(batches[k])
    <2>1. c \in Batch /\ c.msgs = batches[k].msgs /\ c.next <= Len(c.msgs)
      BY BatchForms
    <2>2. batches' = [batches EXCEPT ![k] = c] BY <1>4
    <2> HIDE DEF c
    <2> QED BY <1>2, <2>1, <2>2
  <1>5. CASE /\ batches[k].next # Len(batches[k].msgs)
             /\ batches' = [batches EXCEPT ![k] = [batches[k] EXCEPT !.next = @ + 1]]
    <2> DEFINE c == [batches[k] EXCEPT !.next = @ + 1]
    <2>1. c \in Batch /\ c.msgs = batches[k].msgs /\ c.next <= Len(c.msgs)
      BY <1>5, BatchForms
    <2>2. batches' = [batches EXCEPT ![k] = c] BY <1>5
    <2> HIDE DEF c
    <2> QED BY <1>2, <2>1, <2>2
  <1> QED BY <1>3, <1>4, <1>5

LEMMA ThrowingSteps ==
    ASSUME QueueInv, NEW k \in DOMAIN batches, batches[k].pc = "send",
           AttemptThrows(k), process = "up",
           UNCHANGED <<config, active, queue, counter, timer, push, stored>>
    PROVE  QueueInv' /\ Simulated
  <1>1. k \in 1 .. Len(batches) /\ active \in BOOLEAN BY PartsOfInv
  <1>2. /\ "failed" \in BatchState /\ "wait" \in BatchState /\ batches[k].pc \in Live
    BY DEF BatchState, Live
  <1>3. StillTyped BY <1>1 DEF StillTyped, AttemptThrows, RejectsUnhandled
  <1>4. \/ \E pc \in BatchState : batches' = [batches EXCEPT ![k].pc = pc]
        \/ batches' = [batches EXCEPT ![k] = again(batches[k])]
    BY <1>2 DEF AttemptThrows
  <1> QED BY <1>1, <1>2, <1>3, <1>4, BatchWithoutStoring

LEMMA RetrySteps ==
    ASSUME QueueInv, NEW k \in DOMAIN batches, RetryBatch(k), process = "up"
    PROVE  QueueInv' /\ Simulated
  <1>1. k \in 1 .. Len(batches) /\ active \in BOOLEAN BY PartsOfInv
  <1>2. "failed" \in BatchState /\ batches[k].pc \in Live
    BY DEF BatchState, Live, RetryBatch
  <1>3. StillTyped BY <1>1 DEF StillTyped, RetryBatch, RejectsUnhandled
  <1>4. \/ \E pc \in BatchState : batches' = [batches EXCEPT ![k].pc = pc]
        \/ batches' = [batches EXCEPT ![k] = again(batches[k])]
    BY <1>2 DEF RetryBatch
  <1>5. UNCHANGED <<queue, counter, timer, push, stored>> BY DEF RetryBatch
  <1> QED BY <1>1, <1>2, <1>3, <1>4, <1>5, BatchWithoutStoring

LEMMA SendSteps ==
    ASSUME QueueInv, NEW k \in DOMAIN batches, SendMessage(k), process = "up"
    PROVE  QueueInv' /\ Simulated
  <1> DEFINE b == batches[k]
             m == b.msgs[b.next]
  <1>1. k \in 1 .. Len(batches) /\ active \in BOOLEAN BY PartsOfInv
  <1>2. b.pc = "send" /\ b.pc \in Live BY DEF SendMessage, Live
  <1>3. UNCHANGED <<config, active, queue, counter, timer, push>> BY DEF SendMessage
  <1>4. CASE m \in Unnamed
    <2>1. AttemptThrows(k) /\ UNCHANGED stored
      BY <1>4, QueueAssumption DEF SendMessage
    <2> QED BY <1>2, <1>3, <2>1, ThrowingSteps
  <1>5. CASE m \in Untyped
    <2>1. process' = "gone" /\ UNCHANGED <<batches, stored>>
      BY <1>5, QueueAssumption DEF SendMessage
    <2>2. StillTyped BY <1>1, <1>3, <2>1 DEF StillTyped
    <2>3. "send" \in BatchState BY DEF BatchState, Live
    <2>4. batches' = [batches EXCEPT ![k].pc = "send"]
      <3>1. batches \in Seq(Batch) BY PartsOfInv
      <3>2. batches[k] \in Batch BY <3>1
      <3>3. [batches[k] EXCEPT !.pc = "send"] = batches[k] BY <1>2, <3>2 DEF Batch
      <3> QED BY <2>1, <3>1, <3>3
    <2> QED BY <1>1, <1>2, <1>3, <2>1, <2>2, <2>3, <2>4, BatchWithoutStoring
  <1>6. CASE m \notin Unnamed \cup Untyped
    <2>1. /\ batches' = [batches EXCEPT ![k] =
                IF b.next = Len(b.msgs) THEN [b EXCEPT !.pc = "done"]
                                        ELSE [b EXCEPT !.next = @ + 1]]
          /\ stored' \in {stored, stored \cup {m}} /\ UNCHANGED process
      BY <1>6 DEF SendMessage
    <2>2. StillTyped BY <1>1, <1>3, <2>1 DEF StillTyped
    <2> DEFINE c == IF b.next = Len(b.msgs) THEN [b EXCEPT !.pc = "done"]
                                            ELSE [b EXCEPT !.next = @ + 1]
               kept == stored' \ stored
    <2>3. "done" \in BatchState BY DEF BatchState
    <2>4. /\ b.next <= Len(b.msgs) /\ b \in Batch /\ b.next \in 1 .. Len(b.msgs)
          /\ LET d == [b EXCEPT !.pc = "done"]
             IN d \in Batch /\ d.msgs = b.msgs /\ d.next = b.next
          /\ b.next # Len(b.msgs) =>
               LET d == [b EXCEPT !.next = @ + 1]
               IN d \in Batch /\ d.msgs = b.msgs /\ d.next <= Len(d.msgs)
      BY <1>1, <2>3, BatchForms
    <2>5. c \in Batch /\ c.msgs = b.msgs /\ c.next <= Len(c.msgs) BY <2>4
    <2>6. m \in Message /\ Holds(b.msgs, m) BY <2>4 DEF Batch, Holds
    <2>7. stored' = stored \cup kept /\ kept \subseteq {m} BY <2>1
    <2>8. \A x \in kept : x \in Message \ stored /\ Holds(b.msgs, x) BY <2>6, <2>7
    <2>9. batches' = [batches EXCEPT ![k] = c] BY <2>1
    <2> HIDE DEF c, kept
    <2> QED BY <1>1, <1>2, <1>3, <2>2, <2>5, <2>7, <2>8, <2>9, BatchGoesOn
  <1> QED BY <1>4, <1>5, <1>6

LEMMA BatchSteps ==
    ASSUME QueueInv, NEW k \in DOMAIN batches, BatchStep(k), process = "up"
    PROVE  QueueInv' /\ Simulated
  <1>1. CASE SendMessage(k) BY <1>1, SendSteps
  <1>2. CASE RetryBatch(k) BY <1>2, RetrySteps
  <1>3. CASE FailHecAttempt(k)
    <2>1. /\ batches[k].pc = "send" /\ AttemptThrows(k)
          /\ UNCHANGED <<config, active, queue, counter, timer, push, stored>>
      BY <1>3 DEF FailHecAttempt
    <2> QED BY <2>1, ThrowingSteps
  <1> QED BY <1>1, <1>2, <1>3 DEF BatchStep

LEMMA FlushTimerSteps ==
    ASSUME QueueInv, FlushTimer, process = "up"
    PROVE  QueueInv' /\ Simulated
  <1>1. /\ InOrder /\ queue \in Seq(Message) /\ batches \in Seq(Batch)
        /\ Len(batches) \in Nat
        /\ push \in [Message -> {Idle, Refused, Failed, Now} \cup 1 .. Len(batches)]
        /\ Apart(queue, batches, push) /\ Placed(batches, stored)
        /\ stored \subseteq Message /\ active \in BOOLEAN
        /\ counter \in Nat /\ counterAfterFlush(counter) \in Nat
    BY PartsOfInv
  <1>2. /\ flushInternal(queue) /\ counter' = counterAfterFlush(counter)
        /\ UNCHANGED <<config, process, active, push, stored>>
    BY DEF FlushTimer
  <1>3. TypeOK /\ StillTyped BY <1>1, <1>2 DEF QueueInv, StillTyped
  <1>4. /\ InOrder' /\ batches' = Flushed(queue, batches) /\ queue' = <<>>
        /\ timer' = FALSE /\ Len(batches) <= Len(batches')
    BY <1>1, <1>2, FlushInOrder
  <1>5. Len(batches') \in Nat BY <1>4 DEF InOrder
  <1>6. push' \in [Message -> {Idle, Refused, Failed, Now} \cup 1 .. Len(batches')]
    BY <1>1, <1>2, <1>4, <1>5
  <1>7. Apart(queue', batches', push') BY <1>1, <1>2, <1>4, FlushApart
  <1>8. \A x : /\ InSome(batches', x) <=> InSome(batches, x) \/ Holds(queue, x)
               /\ SendingIn(batches', x) <=> SendingIn(batches, x) \/ Holds(queue, x)
               /\ ~Holds(queue', x)
    BY <1>1, <1>4, FlushPlaces, EmptyQueue
  <1>9. QueueInv' /\ TypeOK'
    BY <1>1, <1>2, <1>3, <1>4, <1>6, <1>7, <1>8, InvFromParts DEF Placed
  <1>10. \A x \in Message : Holds(queue, x) => ~InSome(batches, x) BY <1>1 DEF Apart
  <1>11. \A x \in Message \ stored :
           /\ Waiting(queue, batches, push, x)' <=> Waiting(queue, batches, push, x)
           /\ Dropped(batches, push, x)' <=> Dropped(batches, push, x)
    BY <1>2, <1>8, <1>10 DEF Waiting, Dropped
  <1> QED BY <1>2, <1>3, <1>9, <1>11, OutboxStutters

\* The steps that leave the queue, the pushes and what is stored as they are, and the
\* batches up to their mark that they are cancelled.
LEMMA OtherSteps ==
    ASSUME QueueInv, process = "up", FlushStats \/ Shutdown \/ Exit
    PROVE  QueueInv' /\ Simulated
  <1>1. /\ InOrder /\ queue \in Seq(Message) /\ batches \in Seq(Batch)
        /\ Len(batches) \in Nat /\ DOMAIN batches = 1 .. Len(batches)
        /\ push \in [Message -> {Idle, Refused, Failed, Now} \cup 1 .. Len(batches)]
        /\ Apart(queue, batches, push) /\ Placed(batches, stored)
        /\ stored \subseteq Message /\ active \in BOOLEAN
        /\ counter \in Nat /\ timer \in BOOLEAN
    BY PartsOfInv
  <1>2. /\ StillTyped /\ counter' \in Nat
        /\ UNCHANGED <<queue, timer, push, stored>>
    <2>1. CASE FlushStats BY <1>1, <2>1 DEF FlushStats, StillTyped
    <2>2. CASE Shutdown BY <1>1, <2>2 DEF Shutdown, StillTyped
    <2>3. CASE Exit BY <1>1, <2>3 DEF Exit, StillTyped
    <2> QED BY <2>1, <2>2, <2>3
  <1>3. /\ batches' \in Seq(Batch) /\ Len(batches') = Len(batches)
        /\ \A k \in 1 .. Len(batches) :
             /\ batches'[k].msgs = batches[k].msgs /\ batches'[k].pc = batches[k].pc
             /\ batches'[k].next = batches[k].next
    <2>1. CASE FlushStats \/ Exit BY <1>1, <2>1 DEF FlushStats, Exit
    <2>2. CASE Shutdown
      <3> DEFINE c(k) == [batches[k] EXCEPT !.cancelled = @ \/ batches[k].pc \in Live]
      <3>1. batches' = [k \in 1 .. Len(batches) |-> c(k)] BY <1>1, <2>2 DEF Shutdown
      <3>2. \A k \in 1 .. Len(batches) :
              /\ c(k) \in Batch /\ c(k).msgs = batches[k].msgs
              /\ c(k).pc = batches[k].pc /\ c(k).next = batches[k].next
        <4> TAKE k \in 1 .. Len(batches)
        <4> DEFINE b == batches[k]
                   v == b.cancelled \/ b.pc \in Live
        <4>1. b \in Batch BY <1>1
        <4>2. v \in BOOLEAN OBVIOUS
        <4>3. c(k) = [b EXCEPT !.cancelled = v] OBVIOUS
        <4> HIDE DEF b, v, c
        <4>4. LET d == [b EXCEPT !.cancelled = v]
              IN d \in Batch /\ d.msgs = b.msgs /\ d.pc = b.pc /\ d.next = b.next
          BY <4>1, <4>2 DEF Batch
        <4> QED BY <4>3, <4>4 DEF b
      <3> HIDE DEF c
      <3>3. Len(batches') = Len(batches) BY <1>1, <3>1
      <3>4. batches' \in Seq(Batch) BY <1>1, <3>1, <3>2, IsASeq
      <3> QED BY <3>1, <3>2, <3>3, <3>4
    <2> QED BY <2>1, <2>2
  <1>4. /\ \A m : InSome(batches', m) <=> InSome(batches, m)
        /\ Apart(queue, batches', push)
    BY <1>1, <1>3, SameMessages
  <1>5. \A m : SendingIn(batches', m) <=> SendingIn(batches, m) BY <1>3 DEF SendingIn
  <1>6. InOrder' BY <1>1, <1>2, <1>3 DEF InOrder, QueuedHasTimer
  <1>7. QueueInv' /\ TypeOK'
    BY <1>1, <1>2, <1>3, <1>4, <1>6, InvFromParts DEF Placed
  <1>8. \A x \in Message \ stored :
           /\ Waiting(queue, batches, push, x)' <=> Waiting(queue, batches, push, x)
           /\ Dropped(batches, push, x)' <=> Dropped(batches, push, x)
    BY <1>2, <1>4, <1>5 DEF Waiting, Dropped
  <1>9. TypeOK BY DEF QueueInv
  <1> QED BY <1>2, <1>7, <1>8, <1>9, OutboxStutters

LEMMA EveryStep ==
    ASSUME QueueInv, [Next]_vars
    PROVE  QueueInv' /\ Simulated
  <1>1. CASE Next
    <2>1. process = "up" BY <1>1 DEF Next
    <2>2. ASSUME NEW m \in Message, Push(m) \/ ResumePush(m) \/ FailPush(m)
          PROVE  QueueInv' /\ Simulated
      BY <2>1, <2>2, PushSteps, ResumePushSteps, FailPushSteps
    <2>3. ASSUME NEW k \in DOMAIN batches, BatchStep(k) PROVE QueueInv' /\ Simulated
      BY <2>1, <2>3, BatchSteps
    <2> QED BY <1>1, <2>1, <2>2, <2>3, FlushTimerSteps, OtherSteps DEF Next
  <1>2. CASE UNCHANGED vars
    <2>1. TypeOK' /\ TypeOK BY <1>2 DEF QueueInv, TypeOK, vars, config
    <2>2. QueueInv'
      BY <1>2, <2>1 DEF QueueInv, Placed, QueuedHasTimer, vars
    <2>3. stored' = stored /\ \A m \in Message \ stored :
             /\ Waiting(queue, batches, push, m)' <=> Waiting(queue, batches, push, m)
             /\ Dropped(batches, push, m)' <=> Dropped(batches, push, m)
      BY <1>2 DEF vars
    <2> QED BY <2>1, <2>2, <2>3, OutboxStutters
  <1> QED BY <1>1, <1>2

LEMMA Initially ==
    ASSUME Init
    PROVE  QueueInv /\ O!OutboxInit
  <1>1. /\ queue = <<>> /\ batches = <<>> /\ counter = 0 /\ timer = FALSE /\ stored = {}
        /\ push = [m \in Message |-> Idle] /\ process = "up" /\ active = TRUE
    BY DEF Init
  <1>2. config \in Configs
    <2>1. PICK c \in Configs : client = c[1] /\ maxQueueEntries = c[2] BY DEF Init
    <2>2. c = <<c[1], c[2]>> BY QueueAssumption
    <2> QED BY <2>1, <2>2 DEF config
  <1>3. /\ Len(batches) = 0 /\ batches \in Seq(Batch) /\ DOMAIN batches = {}
        /\ queue \in Seq(Message)
    BY <1>1, EmptySeq
  <1>4. TypeOK BY <1>1, <1>2, <1>3 DEF TypeOK, Batch
  <1>5. \A m : ~InSome(batches, m) /\ ~SendingIn(batches, m) /\ ~Holds(queue, m)
    BY <1>1, <1>3, EmptyQueue DEF InSome, SendingIn
  <1>6. Apart(queue, batches, push) BY <1>1, <1>3, <1>5, EmptyQueue DEF Apart
  <1>7. Placed(batches, stored) BY <1>1, <1>3 DEF Placed
  <1>8. QueueInv BY <1>1, <1>4, <1>6, <1>7 DEF QueueInv, QueuedHasTimer
  <1>9. OutboxView BY <1>4, ViewOf
  <1>10. ~(Idle >= Now) /\ Idle # Failed BY DEF Idle, Now, Failed
  <1>11. PendingMessages = {} /\ LostMessages = {}
    BY <1>1, <1>5, <1>9, <1>10 DEF OutboxView, Waiting, Dropped
  <1> QED BY <1>1, <1>8, <1>11 DEF O!OutboxInit

-----------------------------------------------------------------------------
(* The theorems                                                            *)

\* The strengthened invariant of the queue holds throughout, for any messages,
\* limits, numbers of retries and order of pushes, timers, batches and shutdown.
THEOREM QueueInvariant == Spec => []QueueInv
  <1>1. Init => QueueInv BY Initially
  <1>2. QueueInv /\ [Next]_vars => QueueInv' BY EveryStep
  <1> QED BY <1>1, <1>2, PTL DEF Spec

\* The types of the client's state: a push waits only for a batch that exists.
THEOREM TypeCorrect == Spec => []TypeOK
  <1>1. QueueInv => TypeOK BY DEF QueueInv
  <1> QED BY <1>1, QueueInvariant, PTL

\* Whatever is queued has a flush scheduled (scheduleFlush of core/mongo.ts and
\* core/hec.ts, also for the pushes that go on after shutdown()).
THEOREM NoneStranded == Spec => []QueuedHasTimer
  <1>1. QueueInv => QueuedHasTimer BY DEF QueueInv
  <1> QED BY <1>1, QueueInvariant, PTL

LEMMA AtMostOne ==
    ASSUME NEW S, \A x, y \in S : x = y
    PROVE  Cardinality(S) = IF S = {} THEN 0 ELSE 1
  <1>1. CASE S = {} BY <1>1, FS_EmptySet
  <1>2. CASE S # {}
    <2>1. PICK x \in S : S = {x} BY <1>2
    <2> QED BY <1>2, <2>1, FS_Singleton
  <1> QED BY <1>1, <1>2

\* No message is sent from two places: it is with the push that waits, or once in
\* the queue, or once in one batch (push, flushInternal, flush).
THEOREM EachInOnePlace == Spec => []InOnePlace
  <1>1. QueueInv => InOnePlace
    <2> SUFFICES ASSUME QueueInv, NEW m \in Message
                 PROVE  Cardinality(Positions(m, queue)) + Cardinality(InBatches(m))
                          + (IF push[m] # Idle THEN 1 ELSE 0) <= 1
      BY DEF InOnePlace
    <2>1. /\ queue \in Seq(Message) /\ batches \in Seq(Batch)
          /\ Apart(queue, batches, push)
      BY PartsOfInv
    <2>2. /\ Positions(m, queue) # {} <=> Holds(queue, m)
          /\ InBatches(m) # {} <=> InSome(batches, m)
          /\ \A p \in InBatches(m) :
               /\ p[1] \in 1 .. Len(batches)
               /\ p[2] \in 1 .. Len(batches[p[1]].msgs)
               /\ batches[p[1]].msgs[p[2]] = m /\ p = <<p[1], p[2]>>
      BY <2>1, PlacesOf
    <2>3. \A x, y \in Positions(m, queue) : x = y
      BY <2>1 DEF Positions, Apart, Distinct
    <2>4. ASSUME NEW x \in InBatches(m), NEW y \in InBatches(m) PROVE x = y
      <3>1. x[1] = y[1]
        <4>1. Holds(batches[x[1]].msgs, m) /\ Holds(batches[y[1]].msgs, m)
          BY <2>2 DEF Holds
        <4>2. x[1] \in 1 .. Len(batches) /\ y[1] \in 1 .. Len(batches) BY <2>2
        <4> QED BY <2>1, <4>1, <4>2 DEF Apart
      <3>2. x[2] = y[2] BY <2>1, <2>2, <3>1, SMTT(30) DEF Apart, Distinct
      <3> QED BY <2>2, <3>1, <3>2
    <2>5. /\ Cardinality(Positions(m, queue)) = IF Holds(queue, m) THEN 1 ELSE 0
          /\ Cardinality(InBatches(m)) = IF InSome(batches, m) THEN 1 ELSE 0
      BY <2>2, <2>3, <2>4, AtMostOne
    <2> QED BY <2>1, <2>5 DEF Apart
  <1> QED BY <1>1, QueueInvariant, PTL

\* The client implements the outbox: an accepted message stays pending until it is
\* stored or lost, once, and then stays what it has become.
THEOREM OutboxImplemented == Spec => ImplementsOutbox
  <1>1. Init => O!OutboxInit BY Initially
  <1>2. QueueInv /\ [Next]_vars => [O!OutboxNext]_(O!outbox)
    BY EveryStep DEF Simulated
  <1> QED BY <1>1, <1>2, QueueInvariant, PTL DEF Spec, ImplementsOutbox, O!OutboxSpec
=============================================================================
