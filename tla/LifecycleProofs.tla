-------------------------- MODULE LifecycleProofs ---------------------------
(***************************************************************************)
(* Safety of the process life cycle for every set of blocks and every      *)
(* bound on runs, failures and kills.                                      *)
(*                                                                         *)
(* What a shutdown keeps depends on the order in which shutdownAll walks   *)
(* over the array: the watcher has stopped before the state is saved, and  *)
(* both come before the output is closed.  The array has that order only   *)
(* when startup is over, so the properties speak of signals that come      *)
(* then.  LifecycleInv says, for each index of the loop of shutdownAll,    *)
(* what has been stopped and saved by now, and what the checkpoint in      *)
(* memory, the file and the output owe to the blocks saved in earlier runs.*)
(***************************************************************************)
EXTENDS Lifecycle, FiniteSetTheorems, SequenceTheorems, TLAPS

\* The array this.resources as startup adds to its front.
AtFirst == <<"health">>
WithState == <<"state", "stats", "output", "health">>
WithAbi == <<"abi", "state", "stats", "output", "health">>
Complete == <<"watcher", "node", "abi", "state", "stats", "output", "health">>

ArrayInv ==
    /\ startup \in {"introspect", "mongo"} => resources = AtFirst
    /\ startup \in {"read", "parse"} => resources = WithState
    /\ startup = "abi" => resources = WithAbi
    /\ startup = "running" => resources = Complete
    /\ startup = "failed" => resources \in {AtFirst, WithState, WithAbi}

\* Nothing is shut down before a signal; a clean exit is the end of the loop.
ExitInv ==
    /\ ~closing => /\ next = 1 /\ visiting = None /\ clean
                   /\ closed = {} /\ saving = Absent
    /\ exit = "clean" => closing /\ clean /\ visiting = None /\ next > Len(resources)

\* Where shutdownAll is in the complete array, and what that says of the watcher,
\* the collector and the file.
OrderInv ==
    closing /\ ~early =>
        /\ startup = "running"
        /\ closed = {Complete[i] : i \in 1 .. next - 1}
        /\ visiting # None => next > 1 /\ visiting = Complete[next - 1]
        /\ next > 1 => watcher \in {"stopping", "stuck", "stopped"}
        /\ next > 1 /\ visiting # "watcher" => watcher = "stopped"
        /\ next > 2 => collector = "ended"
        /\ saving # Absent => visiting = "state" /\ saving = Whole(completed)
        /\ next > 4 /\ visiting # "state" /\ clean => file = Whole(completed)

\* What has been saved is in the file unless a write has been cut off, in what was
\* read of it, and in the checkpoint in memory.
KeptInv ==
    ~early =>
        /\ file.state # "truncated" => saved \subseteq file.blocks
        /\ startup = "parse" /\ contents.state # "truncated" => saved \subseteq contents.blocks
        /\ startup \in {"abi", "running"} => saved \subseteq completed

\* What is complete, in memory or in the file, was accepted by the output.
AcceptedInv ==
    ~early =>
        /\ file.blocks \cup contents.blocks \cup completed \subseteq accepted
        /\ saved \subseteq accepted

LifecycleInv ==
    TypeOK /\ ArrayInv /\ ExitInv /\ OrderInv /\ KeptInv /\ AcceptedInv /\ NothingWrittenTooLate

-----------------------------------------------------------------------------
(* The array of resources                                                  *)

\* The array is a sequence of resources at every step of startup.
LEMMA Arrays ==
    /\ AtFirst \in Seq(Resource) /\ Len(AtFirst) = 1
    /\ WithState \in Seq(Resource) /\ Len(WithState) = 4
    /\ WithAbi \in Seq(Resource) /\ Len(WithAbi) = 5
    /\ Complete \in Seq(Resource) /\ Len(Complete) = 7
  <1>1. AtFirst \in Seq(Resource) /\ Len(AtFirst) = 1
    BY DEF AtFirst, Resource
  <1>2. WithState \in Seq(Resource) /\ Len(WithState) = 4
    BY DEF WithState, Resource
  <1>3. WithAbi \in Seq(Resource) /\ Len(WithAbi) = 5
    BY DEF WithAbi, Resource
  <1>4. Complete \in Seq(Resource) /\ Len(Complete) = 7
    BY DEF Complete, Resource
  <1> QED BY <1>1, <1>2, <1>3, <1>4

\* Two sequences make up a third when each of its entries is one of theirs.
LEMMA MadeUpOf ==
    ASSUME NEW S, NEW front \in Seq(S), NEW back \in Seq(S), NEW all \in Seq(S),
           Len(all) = Len(front) + Len(back),
           \A i \in 1 .. Len(front) : all[i] = front[i],
           \A i \in 1 .. Len(back) : all[Len(front) + i] = back[i]
    PROVE  front \o back = all
  <1>1. /\ front \o back \in Seq(S)
        /\ Len(front \o back) = Len(front) + Len(back)
        /\ \A i \in 1 .. Len(front) + Len(back) :
              (front \o back)[i] = IF i <= Len(front) THEN front[i]
                                                     ELSE back[i - Len(front)]
    BY ConcatProperties, Zenon
  <1>2. ASSUME NEW i \in 1 .. Len(front) + Len(back)
        PROVE  (front \o back)[i] = all[i]
    <2>1. CASE i <= Len(front) BY <1>1, <2>1
    <2>2. CASE ~(i <= Len(front))
      <3>1. i - Len(front) \in 1 .. Len(back) /\ Len(front) + (i - Len(front)) = i
        BY <2>2
      <3>2. all[i] = back[i - Len(front)] BY <3>1
      <3> QED BY <1>1, <2>2, <3>2
    <2> QED BY <2>1, <2>2
  <1> QED BY <1>1, <1>2, SeqEqual

\* Each addResource of startup turns one array into the next.
LEMMA Additions ==
    /\ <<"state", "stats", "output">> \o AtFirst = WithState
    /\ <<"abi">> \o WithState = WithAbi
    /\ <<"watcher", "node">> \o WithAbi = Complete
  <1>1. <<"state", "stats", "output">> \o AtFirst = WithState
    <2> DEFINE front == <<"state", "stats", "output">>
    <2>1. front \in Seq(Resource) /\ Len(front) = 3
      BY DEF Resource
    <2>2. \A i \in 1 .. Len(front) : WithState[i] = front[i]
      BY <2>1 DEF WithState
    <2>3. \A i \in 1 .. Len(AtFirst) : WithState[Len(front) + i] = AtFirst[i]
      BY <2>1, Arrays DEF AtFirst, WithState
    <2>4. Len(WithState) = Len(front) + Len(AtFirst)
      BY <2>1, Arrays
    <2> HIDE DEF front
    <2>5. front \o AtFirst = WithState
      BY <2>1, <2>2, <2>3, <2>4, Arrays, MadeUpOf, Zenon
    <2> QED BY <2>5 DEF front
  <1>2. <<"abi">> \o WithState = WithAbi
    <2> DEFINE front == <<"abi">>
    <2>1. front \in Seq(Resource) /\ Len(front) = 1
      BY DEF Resource
    <2>2. \A i \in 1 .. Len(front) : WithAbi[i] = front[i]
      BY <2>1 DEF WithAbi
    <2>3. \A i \in 1 .. Len(WithState) : WithAbi[Len(front) + i] = WithState[i]
      BY <2>1, Arrays DEF WithState, WithAbi
    <2>4. Len(WithAbi) = Len(front) + Len(WithState)
      BY <2>1, Arrays
    <2> HIDE DEF front
    <2>5. front \o WithState = WithAbi
      BY <2>1, <2>2, <2>3, <2>4, Arrays, MadeUpOf, Zenon
    <2> QED BY <2>5 DEF front
  <1>3. <<"watcher", "node">> \o WithAbi = Complete
    <2> DEFINE front == <<"watcher", "node">>
    <2>1. front \in Seq(Resource) /\ Len(front) = 2
      BY DEF Resource
    <2>2. \A i \in 1 .. Len(front) : Complete[i] = front[i]
      BY <2>1 DEF Complete
    <2>3. \A i \in 1 .. Len(WithAbi) : Complete[Len(front) + i] = WithAbi[i]
      BY <2>1, Arrays DEF WithAbi, Complete
    <2>4. Len(Complete) = Len(front) + Len(WithAbi)
      BY <2>1, Arrays
    <2> HIDE DEF front
    <2>5. front \o WithAbi = Complete
      BY <2>1, <2>2, <2>3, <2>4, Arrays, MadeUpOf, Zenon
    <2> QED BY <2>5 DEF front
  <1> QED BY <1>1, <1>2, <1>3

\* The entries of the array are different resources.
LEMMA DistinctEntries ==
    ASSUME NEW rs \in Seq(Resource),
           \A i, j \in DOMAIN rs : rs[i] = rs[j] => i = j
    PROVE  Cardinality({rs[i] : i \in DOMAIN rs}) = Len(rs)
  <1> DEFINE entries == {rs[i] : i \in DOMAIN rs}
             f == [i \in 1 .. Len(rs) |-> rs[i]]
  <1>1. Len(rs) \in Nat /\ DOMAIN rs = 1 .. Len(rs)
    BY LenProperties
  <1>2. ExistsBijection(1 .. Len(rs), entries)
    <2>1. f \in [1 .. Len(rs) -> entries] BY <1>1
    <2>2. f \in Injection(1 .. Len(rs), entries)
      BY <1>1, <2>1 DEF Injection, IsInjective
    <2>3. f \in Surjection(1 .. Len(rs), entries)
      BY <1>1, <2>1 DEF Surjection
    <2> QED BY <2>2, <2>3 DEF Bijection, ExistsBijection
  <1>3. IsFiniteSet(1 .. Len(rs)) /\ Cardinality(1 .. Len(rs)) = Len(rs)
    BY <1>1, FS_Interval
  <1>4. Cardinality(entries) = Cardinality(1 .. Len(rs))
    BY <1>2, <1>3, FS_Bijection
  <1> QED BY <1>3, <1>4

LEMMA ArrayTypes ==
    ASSUME NEW rs \in {AtFirst, WithState, WithAbi, Complete}
    PROVE  /\ rs \in Seq(Resource)
           /\ Cardinality({rs[i] : i \in DOMAIN rs}) = Len(rs)
  <1>1. rs \in Seq(Resource)
    BY Arrays
  <1>2. \A i, j \in DOMAIN rs : rs[i] = rs[j] => i = j
    BY DEF AtFirst, WithState, WithAbi, Complete
  <1> QED BY <1>1, <1>2, DistinctEntries

-----------------------------------------------------------------------------
(* One lemma per part of the invariant: every step preserves it            *)

\* The array is that of the stage startup is in, and it only grows.
LEMMA ArrayKept ==
    ASSUME TypeOK, ArrayInv, [Next]_vars
    PROVE  ArrayInv' /\ resources' \in {AtFirst, WithState, WithAbi, Complete}
  <1> USE DEF ArrayInv, Add
  <1>0. resources \in {AtFirst, WithState, WithAbi, Complete}
    BY DEF TypeOK
  <1>1. CASE Introspect BY <1>0, <1>1 DEF Introspect
  <1>2. CASE ConnectMongo BY <1>0, <1>2, Additions DEF ConnectMongo
  <1>3. CASE ReadFile BY <1>0, <1>3 DEF ReadFile
  <1>4. CASE Initialize BY <1>0, <1>4, Additions DEF Initialize
  <1>5. CASE StartTasks BY <1>0, <1>5, Additions DEF StartTasks
  <1>6. CASE FailStartup BY <1>0, <1>6 DEF FailStartup
  <1>7. CASE Restart BY <1>0, <1>7 DEF Restart, AtFirst
  <1>8. CASE UNCHANGED <<startup, resources>> BY <1>0, <1>8
  <1>9. CASE \E b \in Block : CompleteBlock(b) \/ Store(b)
    BY <1>8, <1>9 DEF CompleteBlock, Store
  <1>10. CASE BackOff \/ StopWatcher \/ Collect \/ CollectAgain \/ StatsTimer \/ PushStats
    BY <1>8, <1>10 DEF BackOff, StopWatcher, Collect, CollectAgain, StatsTimer, PushStats
  <1>11. CASE Signal \/ Kill BY <1>8, <1>11 DEF Signal, Kill
  <1>12. CASE Visit \/ Closed \/ Truncate \/ EndSave \/ FailSave \/ Exit
    BY <1>8, <1>12 DEF Visit, Closed, Truncate, EndSave, FailSave, Exit
  <1>13. CASE UNCHANGED vars BY <1>8, <1>13 DEF vars
  <1> QED BY <1>1, <1>2, <1>3, <1>4, <1>5, <1>6, <1>7, <1>9, <1>10, <1>11, <1>12, <1>13
          DEF Next, Startup, Work, Shutdown

\* What TypeOK says of everything but the array and the index into it.
ControlTypes ==
    /\ startup \in {"introspect", "mongo", "read", "parse", "abi", "running", "failed"}
    /\ exit \in {"up", "clean", "dirty", "error", "killed"}
    /\ closed \subseteq Resource /\ visiting \in Resource \cup {None}
    /\ closing \in BOOLEAN /\ clean \in BOOLEAN
    /\ watcher \in {"off", "running", "backoff", "stopping", "stuck", "stopped"}
    /\ collector \in {"off", "collecting", "waiting", "ended"}
    /\ stats \in {"off", "set", "pushing"}
    /\ early \in BOOLEAN /\ late \subseteq Resource

DataTypes ==
    /\ completed \subseteq Block
    /\ contents \in File /\ saving \in File /\ file \in File
    /\ pending \subseteq Block /\ stored \subseteq Block
    /\ accepted \subseteq Block /\ saved \subseteq Block

LEMMA FilesTyped ==
    /\ Absent \in File /\ Truncated \in File
    /\ \A bs \in SUBSET Block : Whole(bs) \in File
  BY DEF Absent, Truncated, Whole, File

\* Every variable keeps its type.
LEMMA TypesKept ==
    ASSUME TypeOK, ArrayInv, [Next]_vars
    PROVE  TypeOK'
  <1> USE DEF ControlTypes, DataTypes, vars, shutdown, output, tasks, bounds
  <1>0. ControlTypes /\ DataTypes /\ next \in 1 .. Len(resources) + 1
    BY DEF TypeOK
  <1>1. /\ resources \in Seq(Resource) /\ resources' \in Seq(Resource)
        /\ Len(resources) \in Nat /\ Len(resources') \in Nat
        /\ Cardinality({resources'[i] : i \in DOMAIN resources'}) = Len(resources')
    BY ArrayKept, ArrayTypes, LenProperties DEF TypeOK
  <1>2. ASSUME ControlTypes', DataTypes', next' \in 1 .. Len(resources') + 1
        PROVE  TypeOK'
    BY <1>1, <1>2 DEF TypeOK
  <1>3. CASE Introspect \/ ReadFile \/ FailStartup
    <2>1. resources' = resources /\ next' = next
      BY <1>3 DEF Introspect, ReadFile, FailStartup
    <2>2. ControlTypes' BY <1>0, <1>3 DEF Introspect, ReadFile, FailStartup
    <2>3. DataTypes' BY <1>0, <1>3 DEF Introspect, ReadFile, FailStartup
    <2> QED BY <1>0, <1>2, <2>1, <2>2, <2>3
  <1>4. CASE ConnectMongo \/ Initialize \/ StartTasks
    <2>1. next' = next /\ Len(resources) <= Len(resources')
      <3>1. next' = next BY <1>4 DEF ConnectMongo, Initialize, StartTasks
      <3>2. ArrayInv' BY ArrayKept
      <3>3. CASE ConnectMongo
        BY <3>2, <3>3, Arrays DEF ConnectMongo, ArrayInv
      <3>4. CASE Initialize
        BY <3>2, <3>4, Arrays DEF Initialize, ArrayInv
      <3>5. CASE StartTasks
        BY <3>2, <3>5, Arrays DEF StartTasks, ArrayInv
      <3> QED BY <1>4, <3>1, <3>3, <3>4, <3>5
    <2>2. ControlTypes' BY <1>0, <1>4 DEF ConnectMongo, Initialize, StartTasks
    <2>3. DataTypes'
      BY <1>0, <1>4, FilesTyped DEF ConnectMongo, Initialize, StartTasks, File
    <2> QED BY <1>0, <1>1, <1>2, <2>1, <2>2, <2>3
  <1>5. CASE (\E b \in Block : CompleteBlock(b) \/ Store(b)) \/ PushStats \/ Collect
    <2>1. resources' = resources /\ next' = next
      BY <1>5 DEF CompleteBlock, Store, PushStats, Collect
    <2>2. ControlTypes'
      <3>0. "watcher" \in Resource /\ "node" \in Resource /\ "stats" \in Resource
        BY DEF Resource
      <3>1. CASE \E b \in Block : CompleteBlock(b)
        BY <1>0, <3>0, <3>1 DEF CompleteBlock, WriteTooLate
      <3>2. CASE \E b \in Block : Store(b)
        BY <1>0, <3>2 DEF Store
      <3>3. CASE PushStats
        BY <1>0, <3>0, <3>3 DEF PushStats, WriteTooLate
      <3>4. CASE Collect
        BY <1>0, <3>0, <3>4 DEF Collect, WriteTooLate
      <3> QED BY <1>5, <3>1, <3>2, <3>3, <3>4
    <2>3. DataTypes'
      BY <1>0, <1>5 DEF CompleteBlock, Store, PushStats, Collect, WriteTooLate
    <2> QED BY <1>0, <1>2, <2>1, <2>2, <2>3
  <1>6. CASE BackOff \/ StopWatcher \/ CollectAgain \/ StatsTimer \/ Signal \/ Kill
    <2>1. resources' = resources /\ next' = next
      BY <1>6 DEF BackOff, StopWatcher, CollectAgain, StatsTimer, Signal, Kill
    <2>2. ControlTypes'
      BY <1>0, <1>6, ZenonT(60) DEF BackOff, StopWatcher, CollectAgain, StatsTimer, Signal, Kill
    <2>3. DataTypes'
      BY <1>0, <1>6 DEF BackOff, StopWatcher, CollectAgain, StatsTimer, Signal, Kill
    <2> QED BY <1>0, <1>2, <2>1, <2>2, <2>3
  <1>7. CASE Visit
    <2>1. resources' = resources /\ next' \in 1 .. Len(resources) + 1
      BY <1>0, <1>1, <1>7 DEF Visit
    <2>2. resources[next] \in Resource
      BY <1>0, <1>1, <1>7 DEF Visit
    <2>3. ControlTypes' BY <1>0, <1>7, <2>2 DEF Visit, Close
    <2>4. DataTypes' BY <1>0, <1>7, FilesTyped DEF Visit, Close
    <2> QED BY <1>2, <2>1, <2>3, <2>4
  <1>8. CASE Closed \/ Truncate \/ EndSave \/ FailSave \/ Exit
    <2>1. resources' = resources /\ next' = next
      BY <1>8 DEF Closed, Truncate, EndSave, FailSave, Exit
    <2>2. ControlTypes' BY <1>0, <1>8, ZenonT(60) DEF Closed, Truncate, EndSave, FailSave, Exit
    <2>3. DataTypes'
      BY <1>0, <1>8, FilesTyped DEF Closed, Truncate, EndSave, FailSave, Exit, File
    <2> QED BY <1>0, <1>2, <2>1, <2>2, <2>3
  <1>9. CASE Restart
    <2>1. next' = 1 BY <1>9 DEF Restart
    <2>2. ControlTypes' BY <1>0, <1>9 DEF Restart
    <2>3. DataTypes' BY <1>0, <1>9, FilesTyped DEF Restart
    <2> QED BY <1>1, <1>2, <2>1, <2>2, <2>3
  <1>10. CASE UNCHANGED vars
    BY <1>0, <1>2, <1>10
  <1> QED BY <1>3, <1>4, <1>5, <1>6, <1>7, <1>8, <1>9, <1>10
          DEF Next, Startup, Work, Shutdown

\* Nothing is shut down without a signal, and a clean exit is the end of the loop.
LEMMA ExitKept ==
    ASSUME TypeOK, ExitInv, [Next]_vars
    PROVE  ExitInv'
  <1> USE DEF ExitInv, vars, shutdown, output, tasks, bounds
  <1>1. exit \in {"up", "clean", "dirty", "error", "killed"}
    BY DEF TypeOK
  <1>2. CASE exit = "up" /\ Startup
    <2>1. exit' # "clean" /\ UNCHANGED <<shutdown, closed, saving>>
      BY <1>2 DEF Startup, Introspect, ConnectMongo, ReadFile, Initialize, StartTasks, FailStartup
    <2> QED BY <2>1
  <1>3. CASE exit = "up" /\ Work
    <2>1. exit' # "clean" /\ UNCHANGED <<shutdown, closed, saving>>
      BY <1>3 DEF Work, CompleteBlock, Store, BackOff, StopWatcher, Collect, CollectAgain,
                  StatsTimer, PushStats, WriteTooLate
    <2> QED BY <2>1
  <1>4. CASE exit = "up" /\ Signal BY <1>4 DEF Signal
  <1>5. CASE exit = "up" /\ Visit BY <1>5 DEF Visit
  <1>6. CASE exit = "up" /\ Closed BY <1>6 DEF Closed
  <1>7. CASE exit = "up" /\ (Truncate \/ EndSave \/ FailSave)
    BY <1>7 DEF Truncate, EndSave, FailSave
  <1>8. CASE exit = "up" /\ Exit BY <1>8 DEF Exit
  <1>9. CASE exit = "up" /\ Kill BY <1>9 DEF Kill
  <1>10. CASE Restart BY <1>10 DEF Restart
  <1>11. CASE UNCHANGED vars BY <1>11
  <1> QED BY <1>2, <1>3, <1>4, <1>5, <1>6, <1>7, <1>8, <1>9, <1>10, <1>11 DEF Next, Shutdown

\* What an entry of the complete array is, by its index.
LEMMA CompleteEntries ==
    /\ Complete[1] = "watcher" /\ Complete[2] = "node" /\ Complete[3] = "abi"
    /\ Complete[4] = "state" /\ Complete[5] = "stats" /\ Complete[6] = "output"
    /\ Complete[7] = "health"
  BY DEF Complete

\* After a signal that comes when startup is over the array is complete and no
\* resource is skipped.
LEMMA ShutdownOfCompleteArray ==
    ASSUME TypeOK, ArrayInv, OrderInv, closing, ~early
    PROVE  /\ startup = "running" /\ resources = Complete
           /\ Len(resources) = 7 /\ next \in 1 .. 8
           /\ closed = {Complete[i] : i \in 1 .. next - 1}
  <1>1. startup = "running" /\ resources = Complete
    BY DEF OrderInv, ArrayInv
  <1>2. Len(resources) = 7 BY <1>1, Arrays
  <1>3. next \in 1 .. Len(resources) + 1 BY DEF TypeOK
  <1> QED BY <1>1, <1>2, <1>3 DEF OrderInv

\* Once the output is closed the watcher has stopped and the collector has ended.
LEMMA OutputClosedLast ==
    ASSUME TypeOK, ArrayInv, ExitInv, OrderInv, ~early, "output" \in closed
    PROVE  closing /\ watcher = "stopped" /\ collector = "ended"
  <1>1. closing BY DEF ExitInv
  <1>2. next \in 1 .. 8 /\ \E i \in 1 .. next - 1 : Complete[i] = "output"
    BY <1>1, ShutdownOfCompleteArray
  <1>3. next \in {7, 8} BY <1>2, CompleteEntries
  <1>4. visiting # "watcher"
    <2>1. visiting # None => visiting = Complete[next - 1] BY <1>1 DEF OrderInv
    <2>2. Complete[next - 1] # "watcher" BY <1>3, CompleteEntries
    <2> QED BY <2>1, <2>2 DEF None
  <1> QED BY <1>1, <1>3, <1>4 DEF OrderInv

\* Within a run only a signal begins a shutdown, and nothing else tells early.
LEMMA OnlySignalCloses ==
    ASSUME Startup \/ Work \/ Shutdown \/ Kill
    PROVE  closing' = closing /\ early' = early
  <1> USE DEF shutdown
  <1>1. CASE Startup
    BY <1>1 DEF Startup, Introspect, ConnectMongo, ReadFile, Initialize, StartTasks,
                FailStartup
  <1>2. CASE Work
    BY <1>2 DEF Work, CompleteBlock, Store, BackOff, StopWatcher, Collect, CollectAgain,
                StatsTimer, PushStats
  <1>3. CASE Shutdown
    BY <1>3 DEF Shutdown, Visit, Closed, Truncate, EndSave, FailSave, Exit
  <1>4. CASE Kill BY <1>4 DEF Kill
  <1> QED BY <1>1, <1>2, <1>3, <1>4

\* Each step of shutdownAll, and of the resources while it runs, keeps the order.
LEMMA OrderKept ==
    ASSUME TypeOK, ArrayInv, ExitInv, OrderInv, [Next]_vars
    PROVE  OrderInv'
  <1> USE DEF vars, shutdown, output, tasks, bounds
  <1> SUFFICES ASSUME closing', ~early'
               PROVE  OrderInv'
    BY DEF OrderInv
  <1>1. CASE Signal
    <2>1. /\ startup' = "running" /\ next' = 1 /\ visiting' = None
          /\ closed' = {} /\ saving' = Absent
      BY <1>1 DEF Signal, ExitInv
    <2> QED BY <2>1 DEF OrderInv
  <1>2. CASE Restart BY <1>2 DEF Restart
  <1>3. CASE UNCHANGED vars BY <1>3 DEF OrderInv
  <1> SUFFICES ASSUME exit = "up", Startup \/ Work \/ Shutdown \/ Kill
               PROVE  OrderInv'
    BY <1>1, <1>2, <1>3 DEF Next
  <1>4. closing /\ ~early
    BY OnlySignalCloses DEF TypeOK
  <1>5. /\ startup = "running" /\ resources = Complete
        /\ Len(resources) = 7 /\ next \in 1 .. 8
        /\ closed = {Complete[i] : i \in 1 .. next - 1}
    BY <1>4, ShutdownOfCompleteArray
  <1>6. CASE Startup
    BY <1>5, <1>6 DEF Startup, Introspect, ConnectMongo, ReadFile, Initialize, StartTasks,
                      FailStartup
  <1>7. CASE \E b \in Block : CompleteBlock(b)
    <2>1. next = 1 /\ visiting = None /\ saving = Absent
      BY <1>4, <1>5, <1>7 DEF OrderInv, CompleteBlock, None
    <2>2. /\ next' = 1 /\ visiting' = None /\ saving' = Absent
          /\ UNCHANGED <<startup, closed>>
      BY <1>7, <2>1 DEF CompleteBlock
    <2> QED BY <1>4, <1>5, <2>1, <2>2 DEF OrderInv
  <1>8. CASE (\E b \in Block : Store(b)) \/ StatsTimer \/ PushStats \/ Kill \/ Exit
    BY <1>4, <1>8 DEF OrderInv, Store, StatsTimer, PushStats, Kill, Exit
  <1>9. CASE BackOff \/ StopWatcher
    BY <1>4, <1>9 DEF OrderInv, BackOff, StopWatcher
  <1>10. CASE Collect \/ CollectAgain
    BY <1>4, <1>10 DEF OrderInv, Collect, CollectAgain
  <1>11. CASE Visit
    <2> DEFINE r == resources[next]
    <2>1. /\ next \in 1 .. 7 /\ next' = next + 1 /\ visiting = None /\ visiting' = r
          /\ closed' = closed \cup {r} /\ r = Complete[next] /\ Close(r)
          /\ UNCHANGED <<startup, clean, completed, file>>
      BY <1>5, <1>11 DEF Visit
    <2>2. closed' = {Complete[i] : i \in 1 .. next' - 1}
      BY <1>5, <2>1
    <2>3. /\ r = "watcher" <=> next = 1
          /\ r = "node" <=> next = 2
          /\ r = "state" <=> next = 4
          /\ r # None
      BY <2>1, CompleteEntries DEF None
    <2> HIDE DEF r
    <2>4. /\ next' > 1 => watcher' \in {"stopping", "stuck", "stopped"}
          /\ next' > 1 /\ visiting' # "watcher" => watcher' = "stopped"
      BY <1>4, <2>1, <2>3 DEF OrderInv, Close, None
    <2>5. next' > 2 => collector' = "ended"
      BY <1>4, <2>1, <2>3 DEF OrderInv, Close
    <2>6. saving' # Absent => visiting' = "state" /\ saving' = Whole(completed')
      BY <1>4, <2>1, <2>3 DEF OrderInv, Close, None
    <2>7. next' > 4 /\ visiting' # "state" /\ clean' => file' = Whole(completed')
      BY <1>4, <2>1, <2>3 DEF OrderInv, None
    <2> QED BY <1>5, <2>1, <2>2, <2>4, <2>5, <2>6, <2>7 DEF OrderInv
  <1>12. CASE Closed
    BY <1>4, <1>12 DEF OrderInv, Closed, None
  <1>13. CASE Truncate
    BY <1>4, <1>13 DEF OrderInv, Truncate
  <1>14. CASE EndSave
    <2>1. /\ visiting = "state" /\ saving = Whole(completed) /\ saving' = Absent
          /\ visiting' = None /\ file' = Whole(completed')
          /\ UNCHANGED <<startup, next, closed, clean, watcher, collector, completed>>
      BY <1>4, <1>14 DEF OrderInv, EndSave
    <2> QED BY <1>4, <2>1 DEF OrderInv, None
  <1>15. CASE FailSave
    <2>1. /\ visiting = "state" /\ saving' = Absent /\ visiting' = None /\ clean' = FALSE
          /\ UNCHANGED <<startup, next, closed, watcher, collector>>
      BY <1>4, <1>15 DEF OrderInv, FailSave
    <2> QED BY <1>4, <2>1 DEF OrderInv, None
  <1> QED BY <1>6, <1>7, <1>8, <1>9, <1>10, <1>11, <1>12, <1>13, <1>14, <1>15
          DEF Work, Shutdown

\* The file is written only when startup is over, and with the checkpoint as it is
\* in memory.
LEMMA SavingIsLate ==
    ASSUME ExitInv, OrderInv, ~early, saving # Absent
    PROVE  startup = "running" /\ saving = Whole(completed)
  BY DEF ExitInv, OrderInv

\* What was saved stays saved: the file of a run is read into its checkpoint, which
\* only grows until it is written.
LEMMA ProgressPreserved ==
    ASSUME TypeOK, ExitInv, OrderInv, KeptInv, [Next]_vars
    PROVE  KeptInv'
  <1> USE DEF vars, shutdown, output, tasks, bounds
  <1> SUFFICES ASSUME ~early' PROVE KeptInv'
    BY DEF KeptInv
  <1>1. ~early
    BY OnlySignalCloses DEF Next, Signal, Restart, TypeOK
  <1>2. /\ file.state # "truncated" => saved \subseteq file.blocks
        /\ startup = "parse" /\ contents.state # "truncated" => saved \subseteq contents.blocks
        /\ startup \in {"abi", "running"} => saved \subseteq completed
    BY <1>1 DEF KeptInv
  <1> USE DEF KeptInv
  <1>3. CASE ReadFile BY <1>2, <1>3 DEF ReadFile
  <1>4. CASE Initialize BY <1>2, <1>4 DEF Initialize
  <1>5. CASE Introspect \/ ConnectMongo \/ StartTasks \/ FailStartup
    BY <1>2, <1>5 DEF Introspect, ConnectMongo, StartTasks, FailStartup
  <1>6. CASE \E b \in Block : CompleteBlock(b)
    BY <1>2, <1>6 DEF CompleteBlock
  <1>7. CASE Truncate
    <2>1. startup = "running" BY <1>1, <1>7, SavingIsLate DEF Truncate
    <2> QED BY <1>2, <1>7, <2>1 DEF Truncate, Truncated
  <1>8. CASE EndSave
    <2>1. startup = "running" /\ saving = Whole(completed)
      BY <1>1, <1>8, SavingIsLate DEF EndSave
    <2>2. saved' = saved \cup completed /\ file'.blocks = completed
          /\ UNCHANGED <<startup, completed, contents>>
      BY <1>8, <2>1 DEF EndSave, Whole
    <2> QED BY <1>2, <2>1, <2>2
  <1>9. CASE Restart BY <1>2, <1>9 DEF Restart
  <1>10. CASE UNCHANGED <<file, saved, startup, contents, completed>> BY <1>2, <1>10
  <1>11. CASE \E b \in Block : Store(b)
    BY <1>10, <1>11 DEF Store
  <1>12. CASE BackOff \/ StopWatcher \/ Collect \/ CollectAgain \/ StatsTimer \/ PushStats
    BY <1>10, <1>12 DEF BackOff, StopWatcher, Collect, CollectAgain, StatsTimer, PushStats
  <1>13. CASE Signal \/ Kill \/ Visit \/ Closed \/ FailSave \/ Exit
    BY <1>10, <1>13 DEF Signal, Kill, Visit, Closed, FailSave, Exit
  <1> QED BY <1>3, <1>4, <1>5, <1>6, <1>7, <1>8, <1>9, <1>10, <1>11, <1>12, <1>13
          DEF Next, Startup, Work, Shutdown

\* What is complete has been accepted: a block is not completed after the output is
\* closed, and only the checkpoint is saved.
LEMMA AcceptedPreserved ==
    ASSUME TypeOK, ArrayInv, ExitInv, OrderInv, AcceptedInv, [Next]_vars
    PROVE  AcceptedInv'
  <1> USE DEF vars, shutdown, output, tasks, bounds
  <1> SUFFICES ASSUME ~early' PROVE AcceptedInv'
    BY DEF AcceptedInv
  <1>1. ~early
    BY OnlySignalCloses DEF Next, Signal, Restart, TypeOK
  <1>2. /\ file.blocks \cup contents.blocks \cup completed \subseteq accepted
        /\ saved \subseteq accepted
    BY <1>1 DEF AcceptedInv
  <1> USE DEF AcceptedInv
  <1>3. CASE ReadFile \/ Initialize
    BY <1>2, <1>3 DEF ReadFile, Initialize, Absent
  <1>4. CASE \E b \in Block : CompleteBlock(b)
    <2>1. PICK b \in Block : CompleteBlock(b) BY <1>4
    <2>2. open
      BY <1>1, <2>1, OutputClosedLast DEF CompleteBlock, open
    <2>3. completed' = completed \cup {b} /\ accepted' = accepted \cup {b}
          /\ UNCHANGED <<file, contents, saved>>
      BY <2>1, <2>2 DEF CompleteBlock, WriteTooLate
    <2> QED BY <1>2, <2>3
  <1>5. CASE Truncate BY <1>2, <1>5 DEF Truncate, Truncated
  <1>6. CASE EndSave
    <2>1. saving.blocks = completed
      BY <1>1, <1>6, SavingIsLate DEF EndSave, Whole
    <2> QED BY <1>2, <1>6, <2>1 DEF EndSave
  <1>7. CASE Restart BY <1>2, <1>7 DEF Restart, Absent
  <1>8. CASE UNCHANGED <<file, saved, contents, completed, accepted>> BY <1>2, <1>8
  <1>9. CASE Introspect \/ ConnectMongo \/ StartTasks \/ FailStartup
    BY <1>8, <1>9 DEF Introspect, ConnectMongo, StartTasks, FailStartup
  <1>10. CASE \E b \in Block : Store(b)
    BY <1>8, <1>10 DEF Store
  <1>11. CASE BackOff \/ StopWatcher \/ Collect \/ CollectAgain \/ StatsTimer \/ PushStats
    BY <1>8, <1>11 DEF BackOff, StopWatcher, Collect, CollectAgain, StatsTimer, PushStats
  <1>12. CASE Signal \/ Kill \/ Visit \/ Closed \/ FailSave \/ Exit
    BY <1>8, <1>12 DEF Signal, Kill, Visit, Closed, FailSave, Exit
  <1> QED BY <1>3, <1>4, <1>5, <1>6, <1>7, <1>8, <1>9, <1>10, <1>11, <1>12
          DEF Next, Startup, Work, Shutdown

\* Who writes to a closed output: not the watcher and not the node stats, which have
\* come to their end before it is closed.
LEMMA LatePreserved ==
    ASSUME TypeOK, ArrayInv, ExitInv, OrderInv, NothingWrittenTooLate, [Next]_vars
    PROVE  NothingWrittenTooLate'
  <1> USE DEF vars, shutdown, output, tasks, bounds
  <1> SUFFICES ASSUME ~early' PROVE late' \subseteq {"stats"}
    BY DEF NothingWrittenTooLate
  <1>1. ~early
    BY OnlySignalCloses DEF Next, Signal, Restart, TypeOK
  <1>2. late \subseteq {"stats"} BY <1>1 DEF NothingWrittenTooLate
  <1>3. CASE \E b \in Block : CompleteBlock(b)
    <2>1. open BY <1>1, <1>3, OutputClosedLast DEF CompleteBlock, open
    <2> QED BY <1>2, <1>3, <2>1 DEF CompleteBlock, WriteTooLate
  <1>4. CASE Collect
    <2>1. open BY <1>1, <1>4, OutputClosedLast DEF Collect, open
    <2> QED BY <1>2, <1>4, <2>1 DEF Collect, WriteTooLate
  <1>5. CASE PushStats BY <1>2, <1>5 DEF PushStats, WriteTooLate
  <1>6. CASE Restart BY <1>6 DEF Restart
  <1>7. CASE UNCHANGED late BY <1>2, <1>7
  <1>8. CASE Startup
    BY <1>7, <1>8 DEF Startup, Introspect, ConnectMongo, ReadFile, Initialize, StartTasks,
                      FailStartup
  <1>9. CASE \E b \in Block : Store(b)
    BY <1>7, <1>9 DEF Store
  <1>10. CASE BackOff \/ StopWatcher \/ CollectAgain \/ StatsTimer
    BY <1>7, <1>10 DEF BackOff, StopWatcher, CollectAgain, StatsTimer
  <1>11. CASE Signal \/ Kill \/ Shutdown
    BY <1>7, <1>11 DEF Signal, Kill, Shutdown, Visit, Closed, Truncate, EndSave, FailSave,
                       Exit
  <1> QED BY <1>3, <1>4, <1>5, <1>6, <1>7, <1>8, <1>9, <1>10, <1>11 DEF Next, Work

-----------------------------------------------------------------------------
(* The theorems                                                            *)

\* LifecycleInv holds in every state of every behaviour, over startups, signals at
\* any moment, failures, kills and restarts.
THEOREM LifecycleInvariant == Spec => []LifecycleInv
  <1>1. Init => LifecycleInv
    <2> SUFFICES ASSUME Init PROVE LifecycleInv
      OBVIOUS
    <2>1. /\ resources = AtFirst /\ next \in 1 .. Len(resources) + 1
          /\ resources \in Seq(Resource)
          /\ Cardinality({resources[i] : i \in DOMAIN resources}) = Len(resources)
      BY Arrays, ArrayTypes DEF Init, AtFirst
    <2>2. TypeOK BY <2>1, FilesTyped DEF Init, TypeOK
    <2>3. ArrayInv BY <2>1 DEF Init, ArrayInv
    <2>4. ExitInv /\ OrderInv BY DEF Init, ExitInv, OrderInv
    <2>5. KeptInv BY DEF Init, KeptInv
    <2>6. AcceptedInv BY DEF Init, AcceptedInv, Absent
    <2>7. NothingWrittenTooLate BY DEF Init, NothingWrittenTooLate
    <2> QED BY <2>2, <2>3, <2>4, <2>5, <2>6, <2>7 DEF LifecycleInv
  <1>2. LifecycleInv /\ [Next]_vars => LifecycleInv'
    BY TypesKept, ArrayKept, ExitKept, OrderKept, ProgressPreserved, AcceptedPreserved,
       LatePreserved DEF LifecycleInv
  <1> QED BY <1>1, <1>2, PTL DEF Spec

\* The types of the process state; in particular no resource is in the array twice
\* and the index of shutdownAll never runs past its end (addResource, shutdownAll).
THEOREM TypeCorrect == Spec => []TypeOK
  <1>1. LifecycleInv => TypeOK BY DEF LifecycleInv
  <1> QED BY <1>1, LifecycleInvariant, PTL

\* A clean exit after a signal that came when startup was over leaves exactly the
\* checkpoint in the file (State.shutdown, called when the watcher has stopped).
THEOREM CleanExitSavesAll == Spec => []CleanExitSaves
  <1>1. LifecycleInv => CleanExitSaves
    <2> SUFFICES ASSUME LifecycleInv, exit = "clean", ~early
                 PROVE  file = Whole(completed)
      BY DEF CleanExitSaves
    <2>1. closing /\ clean /\ visiting = None /\ next > Len(resources)
      BY DEF LifecycleInv, ExitInv
    <2>2. next > 4
      BY <2>1, ShutdownOfCompleteArray, SMTT(30) DEF LifecycleInv
    <2> QED BY <2>1, <2>2 DEF LifecycleInv, OrderInv, None
  <1> QED BY <1>1, LifecycleInvariant, PTL

\* No block that was ever saved is missing in a later file (State.initialize reads
\* the file into the checkpoint that State.shutdown writes).
THEOREM ProgressIsKept == Spec => []ProgressKept
  <1>1. LifecycleInv => ProgressKept
    BY DEF LifecycleInv, KeptInv, ProgressKept
  <1> QED BY <1>1, LifecycleInvariant, PTL

\* Every block in the file, which later runs skip, was given to an open output
\* (processBlock writes before markBlockComplete, the output is shut down last).
THEOREM SavedBlocksWereAccepted == Spec => []SavedWereAccepted
  <1>1. LifecycleInv => SavedWereAccepted
    BY DEF LifecycleInv, AcceptedInv, SavedWereAccepted
  <1> QED BY <1>1, LifecycleInvariant, PTL

\* Neither the watcher nor the node stats write to an output that has been closed
\* (the order of the array; the aborted handle that Collect looks at).
THEOREM NobodyWritesTooLate == Spec => []NothingWrittenTooLate
  <1>1. LifecycleInv => NothingWrittenTooLate BY DEF LifecycleInv
  <1> QED BY <1>1, LifecycleInvariant, PTL
=============================================================================
