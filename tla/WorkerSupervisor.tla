-------------------------- MODULE WorkerSupervisor --------------------------
(***************************************************************************)
(* homeserver::WorkerSupervisor, one per shard of the WorkerPool: it       *)
(* spawns a worker process, opens an IPC channel to it, polls waitpid()    *)
(* from its own thread, and restarts the worker with a back-off when it    *)
(* exits; stop() takes the channel, joins the thread and reaps the child.  *)
(* The supervisors of a pool are children of one process and so share its  *)
(* children: waitpid(-1) reaps anybody's.                                  *)
(*                                                                         *)
(* Worker and channel number n belong to the n-th spawn.  The channel is   *)
(* IpcChannel seen from outside: it is healthy until its peer goes or it   *)
(* is stopped, and its dispatch thread may run the pool's request handler  *)
(* from start() until stop() has joined it.                                *)
(***************************************************************************)
EXTENDS Integers, Sequences, FiniteSets

CONSTANTS
    Shards,            \* how many supervisors, numbered from 1
    MaxExits,          \* bound: how often a worker exits by itself
    MaxSpawnFailures,  \* bound: how often posix_spawn() fails
    MaxKeyFailures     \* bound: how often the master key cannot be read

VARIABLES
    running, healthy,  \* running_, healthy_
    channel, pid,      \* channel_ and worker_pid_; 0 for none
    fresh,             \* start() has not returned
    loop, stop,        \* where the supervisor thread and stop() are
    taken, ending,     \* the channel moved out of channel_ by each of them
    backoff,           \* backoff_ms, in seconds
    owner,             \* history: which shard spawned worker n
    exits,             \* history: how many workers exited by themselves
    process, link,     \* the state of worker n and of channel n
    poolOpen,          \* handler_pool_ accepts tasks
    spawnFailures, keyFailures

vars == <<running, healthy, channel, pid, fresh, loop, stop, taken, ending, backoff, owner, exits,
          process, link, poolOpen, spawnFailures, keyFailures>>

S == 1 .. Shards

(* Each shard spawns once, and again only for a worker that is gone. *)
MaxSpawns == Shards + MaxExits + MaxKeyFailures

Workers == 1 .. MaxSpawns
kMaxBackoff == 30

Init ==
    /\ running = [s \in S |-> TRUE] /\ healthy = [s \in S |-> TRUE]
    /\ channel = [s \in S |-> 0] /\ pid = [s \in S |-> 0]
    /\ fresh = [s \in S |-> TRUE]
    /\ loop = [s \in S |-> "spawn"] /\ stop = [s \in S |-> "no"]
    /\ taken = [s \in S |-> 0] /\ ending = [s \in S |-> 0]
    /\ backoff = [s \in S |-> 1]
    /\ owner = <<>> /\ exits = 0
    /\ process = [n \in Workers |-> "none"] /\ link = [n \in Workers |-> "none"]
    /\ poolOpen = TRUE
    /\ spawnFailures = 0 /\ keyFailures = 0

-----------------------------------------------------------------------------
(***************************************************************************)
(* The worker processes and the channels.                                  *)
(***************************************************************************)

Living == {"alive", "told", "orphan"}

(* A worker exits on its own, or because it was told to. *)
WorkerExits(n) ==
    /\ process[n] \in Living
    /\ process[n] = "alive" => exits < MaxExits
    /\ exits' = IF process[n] = "alive" THEN exits + 1 ELSE exits
    /\ process' = [process EXCEPT ![n] = "zombie"]
    /\ UNCHANGED <<running, healthy, channel, pid, fresh, loop, stop, taken, ending, backoff, owner,
                   link, poolOpen, spawnFailures, keyFailures>>

OrphanExits == \E n \in Workers : process[n] = "orphan" /\ WorkerExits(n)

(* The channel's reader meets the end of the stream. *)
ChannelBreaks(n) ==
    /\ link[n] = "healthy" /\ process[n] \in {"zombie", "gone"}
    /\ link' = [link EXCEPT ![n] = "broken"]
    /\ UNCHANGED <<running, healthy, channel, pid, fresh, loop, stop, taken, ending, backoff, owner,
                   process, poolOpen, spawnFailures, keyFailures, exits>>

(* A shutdown notification, or the socket closing, tells a worker to exit. *)
Told(n) == [process EXCEPT ![n] = IF @ = "alive" THEN "told" ELSE @]

(* The dispatch thread of channel n may run the request handler: until its *)
(* channel is stopped, and not before the channel is published, because a  *)
(* worker asks for something only while it serves a request.               *)
MayHandle(n) ==
    poolOpen /\ link[n] \in {"healthy", "broken"} /\ loop[owner[n]] # "publish"

(* The channel on which the handler of such a request will answer.         *)
Snapshot(n) == channel[owner[n]]

-----------------------------------------------------------------------------
(***************************************************************************)
(* spawn_and_connect(), called by start() and by the loop.                 *)
(***************************************************************************)

(* Where an exception leaves its caller. *)
Thrown(s) == IF fresh[s] THEN "done" ELSE "top"

MayStart(s) == fresh[s] => \A r \in 1 .. s - 1 : ~fresh[r]

Spawn(s) ==
    /\ loop[s] = "spawn" /\ MayStart(s)
    /\ owner' = Append(owner, s)
    /\ process' = [process EXCEPT ![Len(owner')] = "alive"]
    /\ pid' = [pid EXCEPT ![s] = Len(owner')]
    /\ loop' = [loop EXCEPT ![s] = "connect"]
    /\ UNCHANGED <<running, healthy, channel, fresh, stop, taken, ending, backoff, link,
                   poolOpen, spawnFailures, keyFailures, exits>>

SpawnFails(s) ==
    /\ loop[s] = "spawn" /\ MayStart(s)
    /\ spawnFailures < MaxSpawnFailures
    /\ spawnFailures' = spawnFailures + 1
    /\ loop' = [loop EXCEPT ![s] = Thrown(s)]
    /\ UNCHANGED <<running, healthy, channel, pid, fresh, stop, taken, ending, backoff, owner,
                   process, link, poolOpen, keyFailures, exits>>

(* Mutant: a failed restart goes back to sleep and spawns again. *)
KeyUnavailableRetried(s) ==
    /\ loop[s] = "connect"
    /\ keyFailures < MaxKeyFailures
    /\ keyFailures' = keyFailures + 1
    /\ process' = [process EXCEPT ![pid[s]] = IF @ = "alive" THEN "orphan" ELSE @]
    /\ loop' = [loop EXCEPT ![s] = IF fresh[s] THEN "done" ELSE "sleep"]
    /\ UNCHANGED <<running, healthy, channel, pid, fresh, stop, taken, ending, backoff, owner, link,
                   poolOpen, spawnFailures, exits>>

(* The master key is read only now; without it the socket is dropped, and  *)
(* the worker that was spawned meets the end of its stream.                *)
KeyUnavailable(s) ==
    /\ loop[s] = "connect"
    /\ keyFailures < MaxKeyFailures
    /\ keyFailures' = keyFailures + 1
    /\ process' = [process EXCEPT ![pid[s]] = IF @ = "alive" THEN "orphan" ELSE @]
    /\ loop' = [loop EXCEPT ![s] = Thrown(s)]
    /\ UNCHANGED <<running, healthy, channel, pid, fresh, stop, taken, ending, backoff, owner, link,
                   poolOpen, spawnFailures, exits>>

StartChannel(s) ==
    /\ loop[s] = "connect"
    /\ link' = [link EXCEPT ![pid[s]] = "healthy"]
    /\ loop' = [loop EXCEPT ![s] = "publish"]
    /\ UNCHANGED <<running, healthy, channel, pid, fresh, stop, taken, ending, backoff, owner,
                   process, poolOpen, spawnFailures, keyFailures, exits>>

PublishChannel(s) ==
    /\ loop[s] = "publish"
    /\ channel' = [channel EXCEPT ![s] = pid[s]]
    /\ loop' = [loop EXCEPT ![s] = IF fresh[s] THEN "top" ELSE "restarted"]
    /\ fresh' = [fresh EXCEPT ![s] = FALSE]
    /\ UNCHANGED <<running, healthy, pid, stop, taken, ending, backoff, owner, process, link,
                   poolOpen, spawnFailures, keyFailures, exits>>


(* After a restart the loop resets the back-off and its own health. *)
RestartSucceeds(s) ==
    /\ loop[s] = "restarted"
    /\ backoff' = [backoff EXCEPT ![s] = 1]
    /\ healthy' = [healthy EXCEPT ![s] = TRUE]
    /\ loop' = [loop EXCEPT ![s] = "top"]
    /\ UNCHANGED <<running, channel, pid, fresh, stop, taken, ending, owner, process, link,
                   poolOpen, spawnFailures, keyFailures, exits>>

-----------------------------------------------------------------------------
(***************************************************************************)
(* supervisor_loop()                                                       *)
(***************************************************************************)
LoopChecks(s) ==
    /\ loop[s] = "top"
    /\ loop' = [loop EXCEPT ![s] = IF running[s] THEN "wait" ELSE "done"]
    /\ UNCHANGED <<running, healthy, channel, pid, fresh, stop, taken, ending, backoff, owner,
                   process, link, poolOpen, spawnFailures, keyFailures, exits>>

(* The children waitpid() looks at; worker_pid_ = -1 means all of them. *)
Waited(s) == IF pid[s] = 0 THEN Workers ELSE {pid[s]}

(* waitpid() returns 0: sleep, and poll again. *)
ChildRuns(s) ==
    /\ loop[s] = "wait"
    /\ \E n \in Waited(s) : process[n] \in Living
    /\ \A n \in Waited(s) : process[n] # "zombie"
    /\ loop' = [loop EXCEPT ![s] = "top"]
    /\ UNCHANGED <<running, healthy, channel, pid, fresh, stop, taken, ending, backoff, owner,
                   process, link, poolOpen, spawnFailures, keyFailures, exits>>

(* waitpid() reaps a child. *)
ChildExited(s) ==
    /\ loop[s] = "wait"
    /\ \E n \in Waited(s) :
        /\ process[n] = "zombie"
        /\ process' = [process EXCEPT ![n] = "gone"]
    /\ loop' = [loop EXCEPT ![s] = "exited"]
    /\ UNCHANGED <<running, healthy, channel, pid, fresh, stop, taken, ending, backoff, owner, link,
                   poolOpen, spawnFailures, keyFailures, exits>>

(* ECHILD: the loop ends. *)
NoChild(s) ==
    /\ loop[s] = "wait"
    /\ \A n \in Waited(s) : process[n] \in {"none", "gone"}
    /\ pid' = [pid EXCEPT ![s] = 0]
    /\ loop' = [loop EXCEPT ![s] = "done"]
    /\ UNCHANGED <<running, healthy, channel, fresh, stop, taken, ending, backoff, owner, process,
                   link, poolOpen, spawnFailures, keyFailures, exits>>

NoticeExit(s) ==
    /\ loop[s] = "exited"
    /\ IF running[s]
         THEN /\ healthy' = [healthy EXCEPT ![s] = FALSE]
              /\ loop' = [loop EXCEPT ![s] = "unpublish"]
         ELSE /\ loop' = [loop EXCEPT ![s] = "done"]
              /\ UNCHANGED healthy
    /\ UNCHANGED <<running, channel, pid, fresh, stop, taken, ending, backoff, owner, process, link,
                   poolOpen, spawnFailures, keyFailures, exits>>

(* channel_ is emptied under channel_mu_ ... *)
LoopTakesChannel(s) ==
    /\ loop[s] = "unpublish"
    /\ taken' = [taken EXCEPT ![s] = channel[s]]
    /\ channel' = [channel EXCEPT ![s] = 0]
    /\ loop' = [loop EXCEPT ![s] = "close"]
    /\ UNCHANGED <<running, healthy, pid, fresh, stop, ending, backoff, owner, process, link,
                   poolOpen, spawnFailures, keyFailures, exits>>

Stopped(n) == [m \in Workers |-> IF m = n THEN "stopped" ELSE link[m]]

(* ... and the channel is stopped without it. *)
LoopStopsChannel(s) ==
    /\ loop[s] = "close"
    /\ link' = Stopped(taken[s])
    /\ taken' = [taken EXCEPT ![s] = 0]
    /\ pid' = [pid EXCEPT ![s] = 0]
    /\ loop' = [loop EXCEPT ![s] = "sleep"]
    /\ UNCHANGED <<running, healthy, channel, fresh, stop, ending, backoff, owner, process,
                   poolOpen, spawnFailures, keyFailures, exits>>

BackOff(s) ==
    /\ loop[s] = "sleep"
    /\ backoff' = [backoff EXCEPT ![s] = IF 2 * @ > kMaxBackoff THEN kMaxBackoff ELSE 2 * @]
    /\ loop' = [loop EXCEPT ![s] = IF running[s] THEN "spawn" ELSE "done"]
    /\ UNCHANGED <<running, healthy, channel, pid, fresh, stop, taken, ending, owner, process, link,
                   poolOpen, spawnFailures, keyFailures, exits>>

-----------------------------------------------------------------------------
(***************************************************************************)
(* WorkerPool::stop() closes the handler pool and stops each supervisor in *)
(* turn; a supervisor whose start() threw is stopped by its destructor.    *)
(***************************************************************************)
PoolStops ==
    /\ poolOpen /\ \A s \in S : ~fresh[s]
    /\ poolOpen' = FALSE
    /\ UNCHANGED <<running, healthy, channel, pid, fresh, loop, stop, taken, ending, backoff, owner,
                   process, link, spawnFailures, keyFailures, exits>>

StartFailed == \E s \in S : fresh[s] /\ loop[s] = "done"

MayStop(s) ==
    IF StartFailed THEN ~fresh[s] \/ loop[s] = "done"
                   ELSE ~poolOpen /\ \A r \in 1 .. s - 1 : stop[r] = "done"

StopBegins(s) ==
    /\ stop[s] = "no" /\ MayStop(s)
    /\ running' = [running EXCEPT ![s] = FALSE]
    /\ healthy' = [healthy EXCEPT ![s] = FALSE]
    /\ stop' = [stop EXCEPT ![s] = "take"]
    /\ UNCHANGED <<channel, pid, fresh, loop, taken, ending, backoff, owner, process, link,
                   poolOpen, spawnFailures, keyFailures, exits>>

StopTakesChannel(s) ==
    /\ stop[s] = "take"
    /\ ending' = [ending EXCEPT ![s] = channel[s]]
    /\ channel' = [channel EXCEPT ![s] = 0]
    /\ stop' = [stop EXCEPT ![s] = "close"]
    /\ UNCHANGED <<running, healthy, pid, fresh, loop, taken, backoff, owner, process, link,
                   poolOpen, spawnFailures, keyFailures, exits>>

(* The shutdown notification, and the end of the stream behind it. *)
StopStopsChannel(s) ==
    /\ stop[s] = "close"
    /\ link' = Stopped(ending[s])
    /\ process' = IF ending[s] = 0 THEN process ELSE Told(ending[s])
    /\ ending' = [ending EXCEPT ![s] = 0]
    /\ stop' = [stop EXCEPT ![s] = "join"]
    /\ UNCHANGED <<running, healthy, channel, pid, fresh, loop, taken, backoff, owner,
                   poolOpen, spawnFailures, keyFailures, exits>>

StopJoinsLoop(s) ==
    /\ stop[s] = "join"
    /\ loop[s] = "done"
    /\ stop' = [stop EXCEPT ![s] = IF pid[s] = 0 THEN "done" ELSE "reap"]
    /\ UNCHANGED <<running, healthy, channel, pid, fresh, loop, taken, ending, backoff, owner,
                   process, link, poolOpen, spawnFailures, keyFailures, exits>>

(* waitpid() within either deadline: reaped now, or by the loop before. *)
StopReaps(s) ==
    /\ stop[s] \in {"reap", "term"}
    /\ process[pid[s]] \in {"zombie", "gone"}
    /\ process' = [process EXCEPT ![pid[s]] = "gone"]
    /\ pid' = [pid EXCEPT ![s] = 0]
    /\ stop' = [stop EXCEPT ![s] = "done"]
    /\ UNCHANGED <<running, healthy, channel, fresh, loop, taken, ending, backoff, owner, link,
                   poolOpen, spawnFailures, keyFailures, exits>>

(* The first deadline passes: SIGTERM. *)
StopTerminates(s) ==
    /\ stop[s] = "reap"
    /\ process[pid[s]] \in Living
    /\ process' = Told(pid[s])
    /\ stop' = [stop EXCEPT ![s] = "term"]
    /\ UNCHANGED <<running, healthy, channel, pid, fresh, loop, taken, ending, backoff, owner, link,
                   poolOpen, spawnFailures, keyFailures, exits>>

(* The second deadline passes: SIGKILL, and a waitpid() that blocks. *)
StopKills(s) ==
    /\ stop[s] = "term"
    /\ process[pid[s]] \in Living
    /\ process' = [process EXCEPT ![pid[s]] = "gone"]
    /\ pid' = [pid EXCEPT ![s] = 0]
    /\ stop' = [stop EXCEPT ![s] = "done"]
    /\ UNCHANGED <<running, healthy, channel, fresh, loop, taken, ending, backoff, owner, link,
                   poolOpen, spawnFailures, keyFailures, exits>>

-----------------------------------------------------------------------------
SpawnStep(s) == Spawn(s) \/ SpawnFails(s) \/ KeyUnavailable(s) \/ StartChannel(s)
                \/ PublishChannel(s) \/ RestartSucceeds(s)
LoopStep(s) == LoopChecks(s) \/ ChildRuns(s) \/ ChildExited(s) \/ NoChild(s) \/ NoticeExit(s)
               \/ LoopTakesChannel(s) \/ LoopStopsChannel(s) \/ BackOff(s)
StopStep(s) == StopTakesChannel(s) \/ StopStopsChannel(s) \/ StopJoinsLoop(s) \/ StopReaps(s)
               \/ StopTerminates(s) \/ StopKills(s)

Next ==
    \/ \E n \in Workers : WorkerExits(n) \/ ChannelBreaks(n)
    \/ \E s \in S : SpawnStep(s) \/ LoopStep(s) \/ StopBegins(s) \/ StopStep(s)
    \/ PoolStops

Spec == Init /\ [][Next]_vars

(* Every thread runs, and a worker whose socket closes before the          *)
(* handshake exits.  No other worker is trusted to exit when told to.      *)
FairSpec ==
    /\ Spec
    /\ \A s \in S : WF_vars(SpawnStep(s) \/ LoopStep(s)) /\ WF_vars(StopStep(s))
    /\ WF_vars(OrphanExits)

-----------------------------------------------------------------------------
(***************************************************************************)
(* Properties                                                              *)
(***************************************************************************)

(* WorkerSupervisor::healthy(). *)
Healthy(s) == healthy[s] /\ (channel[s] = 0 \/ link[channel[s]] = "healthy")

(* The type of every variable; a back-off is at least one second. *)
TypeOK ==
    /\ running \in [S -> BOOLEAN] /\ healthy \in [S -> BOOLEAN] /\ fresh \in [S -> BOOLEAN]
    /\ channel \in [S -> 0 .. MaxSpawns] /\ pid \in [S -> 0 .. MaxSpawns]
    /\ taken \in [S -> 0 .. MaxSpawns] /\ ending \in [S -> 0 .. MaxSpawns]
    /\ loop \in [S -> {"spawn", "connect", "publish", "restarted", "top", "wait", "exited",
                       "unpublish", "close", "sleep", "done"}]
    /\ stop \in [S -> {"no", "take", "close", "join", "reap", "term", "done"}]
    /\ backoff \in [S -> 1 .. kMaxBackoff]
    /\ owner \in Seq(S) /\ Len(owner) <= MaxSpawns
    /\ process \in [Workers -> {"none", "zombie", "gone"} \cup Living]
    /\ link \in [Workers -> {"none", "healthy", "broken", "stopped"}]
    /\ poolOpen \in BOOLEAN
    /\ exits \in 0 .. MaxExits
    /\ spawnFailures \in 0 .. MaxSpawnFailures /\ keyFailures \in 0 .. MaxKeyFailures

(* A shard never has two worker processes at once: a restart, also one     *)
(* that failed half way, waits until the previous worker has been reaped.  *)
OneWorkerPerShard ==
    \A m, n \in 1 .. Len(owner) :
        owner[m] = owner[n] /\ {process[m], process[n]} \cap {"none", "gone"} = {} => m = n

(* stop() returns with the shard's workers dead and reaped, whatever the   *)
(* loop was doing when it was called.                                      *)
StopLeavesNoWorker ==
    \A n \in 1 .. Len(owner) : stop[owner[n]] = "done" => process[n] = "gone"

(* stop() returns, also when the worker ignores the notification and       *)
(* SIGTERM.                                                                *)
StopCompletes == \A s \in S : (stop[s] = "take") ~> (stop[s] = "done")

(* A request that a worker sent is never answered on the connection of     *)
(* another worker: a restart stops the old channel before it publishes the *)
(* new one.  The handler finds no channel at all only between the moment   *)
(* that a restart or stop() takes the channel out of channel_ and the join *)
(* of its dispatch thread; the task it submits then has nothing to answer  *)
(* on (worker_pool.cpp:770, 815).                                          *)
AnswersOnItsChannel ==
    \A n \in 1 .. Len(owner) :
        MayHandle(n) => \/ Snapshot(n) = n
                        \/ Snapshot(n) = 0 /\ n \in {taken[owner[n]], ending[owner[n]]}

(* A supervision loop ends, while its supervisor is in use, only after a   *)
(* posix_spawn() failed: its own, after which waitpid(-1) meets ECHILD, or *)
(* that of another shard, whose waitpid(-1) took the exit of this worker.  *)
GivesUpOnlyAfterAFailedSpawn ==
    \A s \in S : running[s] /\ ~fresh[s] /\ loop[s] = "done" => spawnFailures > 0

(* The workers shard s has lost to an unreadable key since it last had a   *)
(* channel.                                                                *)
Unconnected(s) ==
    {n \in 1 .. Len(owner) : /\ owner[n] = s /\ process[n] = "gone"
                            /\ \A m \in n .. Len(owner) : owner[m] = s => link[m] = "none"}

(* Every restart waits at least a second, and twice as long, up to the     *)
(* cap, for each restart since the last channel that failed.               *)
RestartsBackOff ==
    \A s \in S :
        ~fresh[s] /\ loop[s] \in {"spawn", "connect"}
            => backoff[s] = kMaxBackoff \/ backoff[s] >= 2 ^ (1 + Cardinality(Unconnected(s)))

Serves(s) == channel[s] # 0 /\ Healthy(s)

Exited(s) == running[s] /\ ~fresh[s] /\ pid[s] # 0 /\ process[pid[s]] = "zombie"

(* The restart of shard s could not even spawn: it has no child of its own *)
(* and waits for anybody's, or has met ECHILD.                             *)
Childless(s) == ~fresh[s] /\ running[s] /\ pid[s] = 0 /\ loop[s] \in {"top", "wait", "done"}

(* A worker that exits is replaced by one that serves, also when the       *)
(* master key cannot be read in between, unless stop() comes first, or the *)
(* posix_spawn() of a restart fails, of this shard or of another that then *)
(* reaps this shard's worker.                                              *)
RestartsWorker ==
    \A s \in S : Exited(s) ~> (~running[s] \/ Serves(s) \/ \E r \in S : Childless(r))
=============================================================================
