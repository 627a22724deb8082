----------------------------- MODULE Lifecycle ------------------------------
(***************************************************************************)
(* The life of the process: startBlockchainETL and run of core/index.ts,   *)
(* shutdownAll of utils/resource.ts, the checkpoint file of core/state.ts, *)
(* and the resources that are shut down: the block watcher, the node       *)
(* stats, the ABI repository, the internal stats, the output, the health   *)
(* monitor.  Balance and NFT watchers come before the block watcher in the *)
(* same array.                                                             *)
(*                                                                         *)
(* Startup is a chain of awaits that adds each resource to the front of    *)
(* one array.  A signal does not stop it: shutdownAll walks over the live  *)
(* array by index while startup goes on adding to its front.               *)
(*                                                                         *)
(* The watcher is what BlockWatcher shows of it: it writes a block and     *)
(* marks it complete in one step, not after shutdown(), and shutdown()     *)
(* during the back-off of its loop never returns.  The output is an        *)
(* outbox: what it accepts is pending until the database has it.           *)
(***************************************************************************)
EXTENDS Naturals, Sequences, FiniteSets

CONSTANTS
    Block,       \* the blocks of the chain
    MaxRuns,     \* bound: how often the process is started
    MaxFaults,   \* bound: failing startups, polls, writes of the file and of messages
    MaxKills     \* bound: exits that no code sees: SIGKILL, a second SIGINT

ASSUME MaxRuns \in Nat /\ MaxFaults \in Nat /\ MaxKills \in Nat

VARIABLES
    startup,     \* what startBlockchainETL awaits
    exit,        \* how the process has ended, "up" while it has not
    resources,   \* the array this.resources
    closing,     \* whether shutdownAll runs
    next,        \* the index of its for loop
    visiting,    \* the resource whose shutdown() it awaits
    clean,       \* its cleanShutdown: no shutdown() has rejected
    closed,      \* the resources whose shutdown() has been called
    watcher,     \* the loop of the block watcher
    collector,   \* a periodic collector of the node stats
    stats,       \* the internal stats: "off", the timer "set", or "pushing"
    completed,   \* the checkpoint in memory
    contents,    \* what readFile has found
    saving,      \* what writeFile is writing
    file,        \* the checkpoint file
    pending,     \* blocks whose messages wait in the output
    stored,      \* blocks whose messages are in the database
    accepted,    \* history: blocks whose messages the output has ever taken
    saved,       \* history: blocks that have ever been in a whole file
    early,       \* history: a signal has come before startup was over
    late,        \* history: the resources that wrote to the closed output
    runs, faults, kills   \* what the bounds count

shutdown == <<closing, next, visiting, clean>>
output == <<pending, stored, accepted>>
tasks == <<watcher, collector, stats>>
bounds == <<runs, faults, kills>>
vars == <<startup, exit, resources, shutdown, closed, tasks, completed, contents,
          saving, file, output, saved, early, late, bounds>>

Resource == {"health", "output", "stats", "state", "abi", "node", "watcher"}
None == "none"

Absent == [state |-> "absent", blocks |-> {}]
Truncated == [state |-> "truncated", blocks |-> {}]
Whole(bs) == [state |-> "whole", blocks |-> bs]

-----------------------------------------------------------------------------
(* Startup                                                                 *)

\* A seeded fault: resources are shut down in the order they are created.
AddLast(rs) == resources \o [i \in DOMAIN rs |-> rs[Len(rs) + 1 - i]]

\* addResource, of several in turn, the one added last being the first of rs.
Add(rs) == rs \o resources

\* The node has answered introspectTargetNodePlatform.
Introspect ==
    /\ startup = "introspect"
    /\ startup' = "mongo"
    /\ UNCHANGED <<exit, resources, shutdown, closed, tasks, completed, contents,
                   saving, file, output, saved, early, late, bounds>>

\* A seeded fault: a failing connection is tried again after the resources have
\* been added.
ConnectMongoAgain ==
    /\ startup = "mongo"
    /\ startup' \in {"mongo", "read"}
    /\ resources' = Add(<<"state", "stats", "output">>)
    /\ UNCHANGED <<exit, shutdown, closed, tasks, completed, contents,
                   saving, file, output, saved, early, late, bounds>>

\* The database is set up: output, statistics and state are created and the
\* state begins to read its file.
ConnectMongo ==
    /\ startup = "mongo"
    /\ startup' = "read"
    /\ resources' = Add(<<"state", "stats", "output">>)
    /\ UNCHANGED <<exit, shutdown, closed, tasks, completed, contents,
                   saving, file, output, saved, early, late, bounds>>

ReadFile ==
    /\ startup = "read"
    /\ startup' = "parse"
    /\ contents' = file
    /\ UNCHANGED <<exit, resources, shutdown, closed, tasks, completed,
                   saving, file, output, saved, early, late, bounds>>

\* A seeded fault: a file in an earlier format is taken for no file.
InitializeForgets ==
    /\ startup = "parse" /\ contents.state # "truncated"
    /\ startup' = "abi"
    /\ completed' = {} /\ contents' = Absent
    /\ resources' = Add(<<"abi">>)
    /\ UNCHANGED <<exit, shutdown, closed, tasks,
                   saving, file, output, saved, early, late, bounds>>

\* State.initialize goes on with what it has read, and the ABIs are loaded.
Initialize ==
    /\ startup = "parse" /\ contents.state # "truncated"
    /\ startup' = "abi"
    /\ completed' = contents.blocks /\ contents' = Absent
    /\ resources' = Add(<<"abi">>)
    /\ UNCHANGED <<exit, shutdown, closed, tasks,
                   saving, file, output, saved, early, late, bounds>>

\* The rest of startBlockchainETL runs without an await.
StartTasks ==
    /\ startup = "abi"
    /\ startup' = "running"
    /\ resources' = Add(<<"watcher", "node">>)
    /\ watcher' = "running" /\ collector' = "collecting"
    /\ stats' = IF "stats" \in closed THEN "off" ELSE "set"
    /\ UNCHANGED <<exit, shutdown, closed, completed, contents,
                   saving, file, output, saved, early, late, bounds>>

\* A step of startup throws, as it does for a file that is not whole.  The
\* process exits at once, unless shutdownAll runs already and nobody listens.
FailStartup ==
    /\ \/ startup = "parse" /\ contents.state = "truncated" /\ UNCHANGED faults
       \/ /\ startup \in {"introspect", "mongo", "abi"}
          /\ faults < MaxFaults /\ faults' = faults + 1
    /\ startup' = "failed"
    /\ \/ closing /\ UNCHANGED <<exit, pending>>
       \/ ~closing /\ exit' = "error" /\ pending' = {}
    /\ UNCHANGED <<resources, shutdown, closed, tasks, completed, contents, saving,
                   file, stored, accepted, saved, early, late, runs, kills>>

-----------------------------------------------------------------------------
(* What the resources do                                                   *)

open == "output" \notin closed

\* A closed output rejects what it is given and nobody handles that: Node 14
\* (package.json) reports it, Node 16 (.nvmrc) ends the process.
WriteTooLate(r) ==
    /\ ~open
    /\ late' = late \cup {r}
    /\ \/ exit' = "up" /\ UNCHANGED pending
       \/ exit' = "error" /\ pending' = {}

\* The watcher writes a block and marks it complete.
CompleteBlock(b) ==
    /\ watcher \in {"running", "backoff"} /\ b \notin completed
    /\ completed' = completed \cup {b}
    /\ \/ /\ open
          /\ pending' = pending \cup {b} /\ accepted' = accepted \cup {b}
          /\ UNCHANGED <<late, exit>>
       \/ WriteTooLate("watcher") /\ UNCHANGED accepted
    /\ UNCHANGED <<startup, resources, shutdown, closed, tasks, contents,
                   saving, file, stored, saved, early, bounds>>

\* A poll fails and the loop backs off, or the back-off is over.
BackOff ==
    /\ \/ /\ watcher = "running" /\ watcher' = "backoff"
          /\ faults < MaxFaults /\ faults' = faults + 1
       \/ watcher = "backoff" /\ watcher' = "running" /\ UNCHANGED faults
    /\ UNCHANGED <<startup, exit, resources, shutdown, closed, collector, stats,
                   completed, contents, saving, file, output, saved, early, late,
                   runs, kills>>

\* Aborted, the loop comes to its end and calls back.
StopWatcher ==
    /\ watcher = "stopping" /\ watcher' = "stopped"
    /\ UNCHANGED <<startup, exit, resources, shutdown, closed, collector, stats,
                   completed, contents, saving, file, output, saved, early, late, bounds>>

\* A seeded fault: a task's result is written although the collector has been
\* aborted while it ran.
CollectUnchecked ==
    /\ collector \in {"collecting", "ended"}
    /\ collector' = "waiting"
    /\ \/ open /\ UNCHANGED <<late, exit, pending>>
       \/ WriteTooLate("node")
    /\ UNCHANGED <<startup, resources, shutdown, closed, watcher, stats, completed,
                   contents, saving, file, stored, accepted, saved, early, bounds>>

\* A collector's task is done and its result is written, or it fails; either way
\* the collector waits.
Collect ==
    /\ collector = "collecting"
    /\ collector' = "waiting"
    /\ \/ UNCHANGED <<late, exit, pending>>
       \/ WriteTooLate("node")
    /\ UNCHANGED <<startup, resources, shutdown, closed, watcher, stats, completed,
                   contents, saving, file, stored, accepted, saved, early, bounds>>

CollectAgain ==
    /\ collector = "waiting"
    /\ collector' = "collecting"
    /\ UNCHANGED <<startup, exit, resources, shutdown, closed, watcher, stats, completed,
                   contents, saving, file, output, saved, early, late, bounds>>

StatsTimer ==
    /\ stats = "set"
    /\ stats' = "pushing"
    /\ UNCHANGED <<startup, exit, resources, shutdown, closed, watcher, collector,
                   completed, contents, saving, file, output, saved, early, late, bounds>>

\* The internal stats are pushed one by one, each when the one before is in the
\* queue; after the last one the timer is set again.
PushStats ==
    /\ stats = "pushing"
    /\ \/ /\ open
          /\ stats' \in {"pushing", IF "stats" \in closed THEN "off" ELSE "set"}
          /\ UNCHANGED <<late, exit, pending>>
       \/ stats' = "off" /\ WriteTooLate("stats")
    /\ UNCHANGED <<startup, resources, shutdown, closed, watcher, collector, completed,
                   contents, saving, file, stored, accepted, saved, early, bounds>>

\* The database takes the messages of a block, or refuses them.
Store(b) ==
    /\ b \in pending
    /\ pending' = pending \ {b}
    /\ \/ stored' = stored \cup {b} /\ UNCHANGED faults
       \/ faults < MaxFaults /\ faults' = faults + 1 /\ UNCHANGED stored
    /\ UNCHANGED <<startup, exit, resources, shutdown, closed, tasks, completed, contents,
                   saving, file, accepted, saved, early, late, runs, kills>>

-----------------------------------------------------------------------------
(* Shutdown                                                                *)

Signal ==
    /\ ~closing
    /\ closing' = TRUE
    /\ early' = (early \/ startup # "running")
    /\ UNCHANGED <<startup, exit, resources, next, visiting, clean, closed, tasks, completed,
                   contents, saving, file, output, saved, late, bounds>>

\* A seeded fault: the node stats are told to stop but not aborted.
CloseKeepsCollecting(r) ==
    /\ watcher' = IF r = "watcher" THEN "stopping" ELSE watcher
    /\ UNCHANGED collector
    /\ stats' = IF r = "stats" /\ stats = "set" THEN "off" ELSE stats
    /\ saving' = IF r = "state" THEN Whole(completed) ELSE saving

\* What the call of shutdown() on a resource does before its first await.  The
\* state serializes the checkpoints and begins to write its file.
Close(r) ==
    /\ watcher' = IF r # "watcher" THEN watcher
                  ELSE IF watcher = "running" THEN "stopping" ELSE "stuck"
    /\ collector' = IF r = "node" THEN "ended" ELSE collector
    /\ stats' = IF r = "stats" /\ stats = "set" THEN "off" ELSE stats
    /\ saving' = IF r = "state" THEN Whole(completed) ELSE saving

\* The loop of shutdownAll takes the resource that is at its index by now.
Visit ==
    /\ closing /\ visiting = None /\ next <= Len(resources)
    /\ visiting' = resources[next] /\ next' = next + 1
    /\ closed' = closed \cup {resources[next]}
    /\ Close(resources[next])
    /\ UNCHANGED <<startup, exit, resources, closing, clean, completed, contents, file,
                   output, saved, early, late, bounds>>

\* The shutdown() of a resource other than the state is over.
Closed ==
    /\ visiting \notin {None, "state"}
    /\ visiting = "watcher" => watcher = "stopped"
    /\ visiting = "node" => collector = "ended"
    /\ visiting' = None
    /\ UNCHANGED <<startup, exit, resources, closing, next, clean, closed, tasks, completed,
                   contents, saving, file, output, saved, early, late, bounds>>

\* writeFile empties the file before it writes to it.
Truncate ==
    /\ saving # Absent /\ file # Truncated
    /\ file' = Truncated
    /\ UNCHANGED <<startup, exit, resources, shutdown, closed, tasks, completed,
                   contents, saving, output, saved, early, late, bounds>>

EndSave ==
    /\ saving # Absent /\ file = Truncated
    /\ file' = saving /\ saved' = saved \cup saving.blocks
    /\ saving' = Absent /\ visiting' = None
    /\ UNCHANGED <<startup, exit, resources, closing, next, clean, closed, tasks, completed,
                   contents, output, early, late, bounds>>

\* writeFile fails half-way and State.shutdown rejects.
FailSave ==
    /\ saving # Absent /\ file = Truncated
    /\ faults < MaxFaults /\ faults' = faults + 1
    /\ saving' = Absent /\ visiting' = None /\ clean' = FALSE
    /\ UNCHANGED <<startup, exit, resources, closing, next, closed, tasks, completed,
                   contents, file, output, saved, early, late, runs, kills>>

\* process.exit after shutdownAll.  What is pending is dropped.
Exit ==
    /\ closing /\ visiting = None /\ next > Len(resources)
    /\ exit' = IF clean THEN "clean" ELSE "dirty"
    /\ pending' = {}
    /\ UNCHANGED <<startup, resources, shutdown, closed, tasks, completed, contents,
                   saving, file, stored, accepted, saved, early, late, bounds>>

Kill ==
    /\ kills < MaxKills /\ kills' = kills + 1
    /\ exit' = "killed"
    /\ pending' = {}
    /\ UNCHANGED <<startup, resources, shutdown, closed, tasks, completed, contents,
                   saving, file, stored, accepted, saved, early, late, runs, faults>>

-----------------------------------------------------------------------------
(* Runs of the process                                                     *)

Init ==
    /\ startup = "introspect" /\ exit = "up" /\ resources = <<"health">>
    /\ closing = FALSE /\ next = 1 /\ visiting = None /\ clean = TRUE /\ closed = {}
    /\ watcher = "off" /\ collector = "off" /\ stats = "off"
    /\ completed = {} /\ contents = Absent /\ saving = Absent
    /\ pending = {} /\ late = {}
    /\ file = Absent /\ stored = {} /\ accepted = {} /\ saved = {} /\ early = FALSE
    /\ runs = 1 /\ faults = 0 /\ kills = 0

Restart ==
    /\ exit # "up" /\ runs < MaxRuns
    /\ runs' = runs + 1
    /\ startup' = "introspect" /\ exit' = "up" /\ resources' = <<"health">>
    /\ closing' = FALSE /\ next' = 1 /\ visiting' = None /\ clean' = TRUE /\ closed' = {}
    /\ watcher' = "off" /\ collector' = "off" /\ stats' = "off"
    /\ completed' = {} /\ contents' = Absent /\ saving' = Absent
    /\ pending' = {} /\ late' = {}
    /\ UNCHANGED <<file, stored, accepted, saved, early, faults, kills>>

Startup ==
    Introspect \/ ConnectMongo \/ ReadFile \/ Initialize \/ StartTasks \/ FailStartup
Work ==
    \/ \E b \in Block : CompleteBlock(b) \/ Store(b)
    \/ BackOff \/ StopWatcher \/ Collect \/ CollectAgain \/ StatsTimer \/ PushStats
Shutdown == Visit \/ Closed \/ Truncate \/ EndSave \/ FailSave \/ Exit

Next ==
    \/ exit = "up" /\ (Startup \/ Work \/ Signal \/ Shutdown \/ Kill)
    \/ Restart

\* Once shutdownAll runs, the writes to the file and the loops it awaits come to
\* their end.  Nothing else has to happen.
Fairness ==
    /\ WF_vars(exit = "up" /\ Shutdown)
    /\ WF_vars(exit = "up" /\ StopWatcher)

Spec == Init /\ [][Next]_vars /\ Fairness

-----------------------------------------------------------------------------
(* Properties                                                              *)

File == [state : {"absent", "truncated", "whole"}, blocks : SUBSET Block]

TypeOK ==
    /\ startup \in {"introspect", "mongo", "read", "parse", "abi", "running", "failed"}
    /\ exit \in {"up", "clean", "dirty", "error", "killed"}
    /\ resources \in Seq(Resource) /\ closed \subseteq Resource
    /\ Cardinality({resources[i] : i \in DOMAIN resources}) = Len(resources)
    /\ closing \in BOOLEAN /\ clean \in BOOLEAN /\ next \in 1 .. Len(resources) + 1
    /\ visiting \in Resource \cup {None}
    /\ watcher \in {"off", "running", "backoff", "stopping", "stuck", "stopped"}
    /\ collector \in {"off", "collecting", "waiting", "ended"}
    /\ stats \in {"off", "set", "pushing"}
    /\ completed \subseteq Block /\ {contents, saving, file} \subseteq File
    /\ pending \subseteq Block /\ stored \subseteq Block
    /\ accepted \subseteq Block /\ saved \subseteq Block
    /\ early \in BOOLEAN /\ late \subseteq Resource

\* A process that exits after a signal that came when startup was over leaves
\* exactly its checkpoint in the file: the watcher had stopped when the state
\* was saved.
CleanExitSaves == exit = "clean" /\ ~early => file = Whole(completed)

\* No block that has once been saved is missing in a later file, over restarts,
\* failures and kills, as long as no signal comes before startup is over.
ProgressKept == file.state = "whole" /\ ~early => saved \subseteq file.blocks

\* Every block in the checkpoint file, and so skipped by every later run, was
\* given to an open output.
SavedWereAccepted == ~early => saved \subseteq accepted

\* Nobody writes to the output after it was shut down, neither the watcher nor
\* the node stats, whose tasks are under way when they are aborted; only internal
\* stats that were being pushed find it closed.
NothingWrittenTooLate == ~early => late \subseteq {"stats"}

\* A signal ends the process, at whatever point of startup it comes, unless the
\* watcher never returns from its shutdown.
SignalEndsProcess == closing ~> (exit # "up" \/ watcher = "stuck")

-----------------------------------------------------------------------------
(* What the code's comments say and the code does not do                   *)

\* The checkpoint "allows it to resume where it left off after being shut down":
\* after a shutdown the file has everything that was in it before.
ShutdownKeepsProgress == exit = "clean" => saved \subseteq file.blocks

\* "Waiting for flush tasks to complete": after a shutdown the messages of every
\* block the file has as complete have reached the database.
ShutdownDelivers == exit = "clean" => file.blocks \subseteq stored
=============================================================================
