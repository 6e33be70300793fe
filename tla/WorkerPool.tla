----------------------------- MODULE WorkerPool -----------------------------
(***************************************************************************)
(* The federation workers at work: homeserver::WorkerPool in the main      *)
(* process and WorkerEventLoop in each worker process, with the thread     *)
(* pools on both sides and the room copies the workers answer from.        *)
(*                                                                         *)
(* A request from a remote server goes to the worker that owns its room.   *)
(* The worker answers a room read from its own copy of the database, on    *)
(* its local pool; what must reach the main process's state (a PDU, a      *)
(* join, an invite, a key claim) occupies a thread of its relay pool,      *)
(* which asks the main process over the same channel and waits.  The main  *)
(* process sends its outbound HTTP through the relay pool too.  Whenever a *)
(* room changes, the main process tells the owner to re-read it.           *)
(*                                                                         *)
(* The channel is IpcChannel seen from outside: frames arrive while both   *)
(* ends live, a reply releases its waiter, and a closed channel releases   *)
(* all of them.  A room's contents are the number of its last change.      *)
(***************************************************************************)
EXTENDS Integers, FiniteSets, Sequences, SequencesExt

CONSTANTS
    Rooms, Shards,              \* shards are numbered from 0
    Hash,                       \* fnv1a_32() of a room id
    Requests, Endpoint, RoomOf, \* what each request asks, and of which room
    Threads, RelayThreads,      \* federation.worker.threads and .relay_threads
    MaxChanges,                 \* bound: changes of rooms
    MaxCrashes,                 \* bound: worker processes that die
    MaxTimeouts,                \* bound: IPC waits that expire
    MaxReloadFaults             \* bound: reloads that cannot read the database

VARIABLES
    changes,   \* the committed changes, as the room each one touched
    note,      \* where the room_sync of change n is, or why there is none
    copy,      \* what each worker's store holds of each room
    process,   \* a worker's life
    channel,   \* whether the supervisor has published its channel
    at,        \* where a request is
    asked,     \* where the main process is with what the request relayed
    stored,    \* the change a relayed PDU became, 0 for none
    answer,    \* what the caller of handle() got
    stop,      \* where WorkerPool::stop() is
    stalled,   \* whether the main process's runtime mutex is never free
    crashes, timeouts, reloadFaults

vars == <<changes, note, copy, process, channel, at, asked, stored, answer, stop, stalled, crashes, timeouts, reloadFaults>>

Changes == 1 .. MaxChanges

(* The database: a room holds its last change. *)
Stored(r) == SelectLastInSeq(changes, LAMBDA x : x = r)

-----------------------------------------------------------------------------
(***************************************************************************)
(* Where a request goes.                                                   *)
(***************************************************************************)

(* Endpoints whose path starts with the room id, as the router knows them. *)
RoomEndpoints ==
    {"state", "state_ids", "invite", "event_auth", "backfill", "get_missing_events", "make_join", "send_join",
     "make_leave", "send_leave", "make_knock", "send_knock"}

(* federation_endpoint_requires_main_relay() *)
RequiresMainRelay(e) ==
    e \in {"transaction", "send_join", "send_leave", "send_knock", "invite", "query_profile", "query_keys",
           "claim_keys", "query_user_devices", "query_event"}

(* What FederationProxy::handle() answers in the main process: the public  *)
(* endpoints, transactions without PDUs, and media.                        *)
HandledByMain(e) == e \in {"key_server", "openid", "version", "edu_transaction", "media_download"}

(* federation_worker_room_id_from_request(): a transaction goes by its     *)
(* first PDU's room.                                                       *)
RoutedByRoom(e) == e \in RoomEndpoints \union {"transaction", "outbound"}

ShardOf == [r \in Rooms |-> Hash[r] % Cardinality(Shards)]

(* federation_worker_shard_for(): shard 0 for a request without a room id. *)
Owner(q) == IF RoutedByRoom(Endpoint[q]) THEN ShardOf[RoomOf[q]] ELSE 0

Kind == [q \in Requests |-> IF Endpoint[q] = "outbound" THEN "outbound"
                            ELSE IF RequiresMainRelay(Endpoint[q]) THEN "relay" ELSE "local"]

Init ==
    /\ changes = <<>>
    /\ note = [n \in Changes |-> "none"]
    /\ copy = [s \in Shards |-> [r \in Rooms |-> 0]]
    /\ process = [s \in Shards |-> "up"] /\ channel = [s \in Shards |-> TRUE]
    /\ at = [q \in Requests |-> "new"] /\ asked = [q \in Requests |-> "no"]
    /\ stored = [q \in Requests |-> 0]
    /\ answer = [q \in Requests |-> "none"]
    /\ stop = "no"
    /\ stalled \in BOOLEAN
    /\ crashes = 0 /\ timeouts = 0 /\ reloadFaults = 0

-----------------------------------------------------------------------------
(***************************************************************************)
(* The main process sends.                                                 *)
(***************************************************************************)

(* channel_snapshot() and healthy(): a dead peer ends the channel. *)
Connected(s) == channel[s] /\ process[s] # "down"

Answered(q, a) == answer' = [answer EXCEPT ![q] = a]

(* FederationProxy::handle(): the request is answered here, refused for its *)
(* signature, or handed to WorkerPool::handle(); outbound HTTP goes to      *)
(* send_outbound_request().                                                 *)
Handle(q) ==
    /\ at[q] = "new" /\ stop # "done"
    /\ \/ /\ ~HandledByMain(Endpoint[q]) /\ Connected(Owner(q))
          /\ at' = [at EXCEPT ![q] = "frame"]
          /\ UNCHANGED answer
       \/ /\ at' = [at EXCEPT ![q] = "over"]
          /\ \/ HandledByMain(Endpoint[q]) /\ Answered(q, "ok")
             \/ Endpoint[q] # "outbound" /\ Answered(q, "refused")
             \/ ~HandledByMain(Endpoint[q]) /\ ~Connected(Owner(q)) /\ Answered(q, "unavailable")
    /\ UNCHANGED <<changes, note, copy, process, channel, asked, stored, stop, crashes, timeouts, stalled, reloadFaults>>

(* A client's request commits a change of a room and comes to              *)
(* notify_room_changed(); knock_room() and forget_room() do not.           *)
Change(r) ==
    /\ Len(changes) < MaxChanges /\ stop = "no"
    /\ changes' = Append(changes, r)
    /\ \E told \in {"due", "silent"} : note' = [note EXCEPT ![Len(changes')] = told]
    /\ UNCHANGED <<copy, process, channel, at, asked, stored, answer, stop, crashes, timeouts, stalled, reloadFaults>>

(* Mutant: only a worker that has finished starting is told. *)
NotifyTheReady(n) ==
    LET s == ShardOf[changes[n]] IN
    /\ note[n] = "due"
    /\ note' = [note EXCEPT ![n] = IF channel[s] /\ process[s] = "up" THEN "frame" ELSE "over"]
    /\ UNCHANGED <<changes, copy, process, channel, at, asked, stored, answer, stop, crashes, timeouts, stalled, reloadFaults>>

(* WorkerPool::notify_room_changed(): a process whose channel is not yet   *)
(* published does not hear of it.                                          *)
Notify(n) ==
    LET s == ShardOf[changes[n]] IN
    /\ note[n] = "due"
    /\ note' = [note EXCEPT ![n] = IF Connected(s) THEN "frame"
                                   ELSE IF process[s] = "down" THEN "over" ELSE "unheard"]
    /\ UNCHANGED <<changes, copy, process, channel, at, asked, stored, answer, stop, crashes, timeouts, stalled, reloadFaults>>

-----------------------------------------------------------------------------
(***************************************************************************)
(* A worker process.                                                       *)
(***************************************************************************)

OnThreads(s, kinds) ==
    Cardinality({q \in Requests : Owner(q) = s /\ Kind[q] \in kinds /\ at[q] \in {"thread", "asking"}})

(* Mutant: one pool for everything. *)
OnePool(q) == OnThreads(Owner(q), {"local", "relay", "outbound"}) < RelayThreads

(* local_pool and relay_pool: whether the request's pool has a free thread. *)
ThreadFree(q) ==
    IF Kind[q] = "local" THEN OnThreads(Owner(q), {"local"}) < Threads
                         ELSE OnThreads(Owner(q), {"relay", "outbound"}) < RelayThreads

(* The dispatch thread classifies a frame and hands it to a pool; once the *)
(* pools are stopped it answers in their place.                            *)
Dispatch(q) ==
    /\ at[q] = "frame"
    /\ \/ /\ process[Owner(q)] = "up"
          /\ at' = [at EXCEPT ![q] = "pool"]
          /\ UNCHANGED answer
       \/ /\ process[Owner(q)] = "draining"
          /\ at' = [at EXCEPT ![q] = "over"]
          /\ IF answer[q] = "none" THEN Answered(q, "unavailable") ELSE UNCHANGED answer
    /\ UNCHANGED <<changes, note, copy, process, channel, asked, stored, stop, crashes, timeouts, stalled, reloadFaults>>

DispatchSync(n) ==
    /\ note[n] = "frame"
    /\ \/ process[ShardOf[changes[n]]] = "up" /\ note' = [note EXCEPT ![n] = "pool"]
       \/ process[ShardOf[changes[n]]] = "draining" /\ note' = [note EXCEPT ![n] = "over"]
    /\ UNCHANGED <<changes, copy, process, channel, at, asked, stored, answer, stop, crashes, timeouts, stalled, reloadFaults>>

Running(s) == process[s] \in {"up", "draining"}

Start(q) ==
    /\ at[q] = "pool" /\ Running(Owner(q)) /\ ThreadFree(q)
    /\ at' = [at EXCEPT ![q] = "thread"]
    /\ UNCHANGED <<changes, note, copy, process, channel, asked, stored, answer, stop, crashes, timeouts, stalled, reloadFaults>>

(* send_response(): the waiter, if it still waits, has its answer. *)
Reply(q, a) ==
    /\ at' = [at EXCEPT ![q] = "over"]
    /\ IF answer[q] = "none" THEN Answered(q, a) ELSE UNCHANGED answer

(* handle_federation_http_request() answers a room read from the copy, or  *)
(* the outbound client has the remote server's response.                   *)
Serve(q) ==
    /\ at[q] = "thread" /\ Kind[q] # "relay"
    /\ Reply(q, "ok")
    /\ UNCHANGED <<changes, note, copy, process, channel, asked, stored, stop, crashes, timeouts, stalled, reloadFaults>>

(* reload_room() on the local pool: the room is read afresh, or the copy   *)
(* stays as it was when the database does not answer.                      *)
Reload(n) ==
    LET r == changes[n] IN
    /\ note[n] = "pool" /\ Running(ShardOf[r]) /\ OnThreads(ShardOf[r], {"local"}) < Threads
    /\ \/ /\ copy' = [copy EXCEPT ![ShardOf[r]][r] = Stored(r)]
          /\ note' = [note EXCEPT ![n] = "over"]
          /\ UNCHANGED reloadFaults
       \/ /\ reloadFaults < MaxReloadFaults /\ reloadFaults' = reloadFaults + 1
          /\ note' = [note EXCEPT ![n] = "failed"]
          /\ UNCHANGED copy
    /\ UNCHANGED <<changes, process, channel, at, asked, stored, answer, stop, crashes, timeouts, stalled>>

(* The worker's pdu_sink and its likes: one request to the main process.   *)
Relay(q) ==
    /\ at[q] = "thread" /\ Kind[q] = "relay"
    /\ IF Connected(Owner(q))
       THEN /\ at' = [at EXCEPT ![q] = "asking"]
            /\ asked' = [asked EXCEPT ![q] = "frame"]
            /\ UNCHANGED answer
       ELSE Reply(q, "failed") /\ UNCHANGED asked
    /\ UNCHANGED <<changes, note, copy, process, channel, stored, stop, crashes, timeouts, stalled, reloadFaults>>

(* The reply of the main process ends the wait; so does a closed channel.  *)
Resume(q) ==
    /\ at[q] = "asking"
    /\ \/ asked[q] = "replied" /\ Reply(q, "ok")
       \/ ~Connected(Owner(q)) /\ Reply(q, "failed")
    /\ UNCHANGED <<changes, note, copy, process, channel, asked, stored, stop, crashes, timeouts, stalled, reloadFaults>>

(* Sixty seconds pass without a reply.                                     *)
Expire(q) ==
    /\ at[q] = "asking" /\ timeouts < MaxTimeouts
    /\ timeouts' = timeouts + 1
    /\ Reply(q, "failed")
    /\ UNCHANGED <<changes, note, copy, process, channel, asked, stored, stop, crashes, stalled, reloadFaults>>

(* WorkerEventLoop::run() ends its wait (the shutdown notification, or the *)
(* watcher finds the channel closed), and ends when both pools have        *)
(* drained.                                                                *)
Finish(s) ==
    /\ process[s] = "draining"
    /\ \A q \in Requests : Owner(q) = s => at[q] \notin {"pool", "thread", "asking"}
    /\ \A n \in 1 .. Len(changes) : ShardOf[changes[n]] = s => note[n] # "pool"
    /\ process' = [process EXCEPT ![s] = "down"]
    /\ UNCHANGED <<changes, note, copy, channel, at, asked, stored, answer, stop, crashes, timeouts, stalled, reloadFaults>>

-----------------------------------------------------------------------------
(***************************************************************************)
(* The main process answers its workers.                                   *)
(***************************************************************************)

Handling == Cardinality({q \in Requests : asked[q] \in {"thread", "stored"}})

(* The request handler submits to handler_pool_ and ignores whether the    *)
(* pool took the task.                                                     *)
Submit(q) ==
    /\ asked[q] = "frame"
    /\ asked' = [asked EXCEPT ![q] = IF stop = "no" THEN "pool" ELSE "ignored"]
    /\ UNCHANGED <<changes, note, copy, process, channel, at, stored, answer, stop, crashes, timeouts, stalled, reloadFaults>>

Pick(q) ==
    /\ asked[q] = "pool" /\ Handling < RelayThreads
    /\ asked' = [asked EXCEPT ![q] = "thread"]
    /\ UNCHANGED <<changes, note, copy, process, channel, at, stored, answer, stop, crashes, timeouts, stalled, reloadFaults>>

(* The relayed requests that may change their room.  Only the handler of   *)
(* pdu_ingest calls notify_room_changed(): the membership acceptor and the *)
(* invite handler store their event and tell nobody.                       *)
Stores(q) == Endpoint[q] \in {"transaction", "send_join", "send_leave", "send_knock", "invite"}
Announces(q) == Endpoint[q] = "transaction"

(* Under the runtime mutex, pdu_sink and its likes commit or refuse.       *)
Ingest(q) ==
    /\ asked[q] = "thread" /\ ~stalled
    /\ asked' = [asked EXCEPT ![q] = "stored"]
    /\ \/ /\ Stores(q) /\ Len(changes) < MaxChanges
          /\ changes' = Append(changes, RoomOf[q])
          /\ note' = [note EXCEPT ![Len(changes')] = IF Announces(q) THEN "due" ELSE "silent"]
          /\ stored' = [stored EXCEPT ![q] = Len(changes')]
       \/ UNCHANGED <<changes, note, stored>>
    /\ UNCHANGED <<copy, process, channel, at, answer, stop, crashes, timeouts, stalled, reloadFaults>>

(* Where notify_room_changed() is called, it comes before send_response(). *)
Respond(q) ==
    /\ asked[q] = "stored"
    /\ stored[q] # 0 => note[stored[q]] # "due"
    /\ asked' = [asked EXCEPT ![q] = "replied"]
    /\ UNCHANGED <<changes, note, copy, process, channel, at, stored, answer, stop, crashes, timeouts, stalled, reloadFaults>>

-----------------------------------------------------------------------------
(***************************************************************************)
(* Workers die and are replaced; the pool stops.                           *)
(***************************************************************************)

InWorker(q, s) == Owner(q) = s /\ at[q] \in {"frame", "pool", "thread", "asking"}

(* What a dead worker's channel does: waiters are released, frames lost. *)
Gone(s) ==
    /\ at' = [q \in Requests |-> IF InWorker(q, s) THEN "over" ELSE at[q]]
    /\ answer' = [q \in Requests |->
                    IF InWorker(q, s) /\ answer[q] = "none" THEN "unavailable" ELSE answer[q]]
    /\ note' = [n \in Changes |-> IF note[n] \in {"frame", "pool"} /\ ShardOf[changes[n]] = s
                                  THEN "over" ELSE note[n]]

(* A worker process dies with what it held; its callers are released.      *)
Crash(s) ==
    /\ process[s] \in {"spawned", "read", "up"} /\ crashes < MaxCrashes
    /\ crashes' = crashes + 1
    /\ process' = [process EXCEPT ![s] = "down"]
    /\ Gone(s)
    /\ UNCHANGED <<changes, copy, channel, asked, stored, stop, timeouts, stalled, reloadFaults>>

(* The supervisor reaps it and stops the old channel.                      *)
Reap(s) ==
    /\ process[s] = "down" /\ channel[s]
    /\ channel' = [channel EXCEPT ![s] = FALSE]
    /\ Gone(s)
    /\ UNCHANGED <<changes, copy, process, asked, stored, stop, crashes, timeouts, stalled, reloadFaults>>

(* spawn_and_connect(): the process runs, and then the channel is          *)
(* published.                                                              *)
Respawn(s) ==
    /\ process[s] = "down" /\ ~channel[s] /\ stop \in {"no", "draining"}
    /\ process' = [process EXCEPT ![s] = "spawned"]
    /\ UNCHANGED <<changes, note, copy, channel, at, asked, stored, answer, stop, crashes, timeouts, stalled, reloadFaults>>

Publish(s) ==
    /\ process[s] \in {"spawned", "read", "up"} /\ ~channel[s] /\ stop \in {"no", "draining"}
    /\ channel' = [channel EXCEPT ![s] = TRUE]
    /\ UNCHANGED <<changes, note, copy, process, at, asked, stored, answer, stop, crashes, timeouts, stalled, reloadFaults>>

(* start_runtime() in the new process reads the whole database ...         *)
Load(s) ==
    /\ process[s] = "spawned"
    /\ copy' = [copy EXCEPT ![s] = [r \in Rooms |-> Stored(r)]]
    /\ process' = [process EXCEPT ![s] = "read"]
    /\ UNCHANGED <<changes, note, channel, at, asked, stored, answer, stop, crashes, timeouts, stalled, reloadFaults>>

(* ... and its channel starts to read frames.                              *)
Open(s) ==
    /\ process[s] = "read"
    /\ process' = [process EXCEPT ![s] = "up"]
    /\ UNCHANGED <<changes, note, copy, channel, at, asked, stored, answer, stop, crashes, timeouts, stalled, reloadFaults>>

(* WorkerPool::stop(): the handler pool drains, then each supervisor tells *)
(* its worker and stops the channel.                                       *)
Stop ==
    /\ stop = "no"
    /\ stop' = "draining"
    /\ UNCHANGED <<changes, note, copy, process, channel, at, asked, stored, answer, crashes, timeouts, stalled, reloadFaults>>

Drained == \A q \in Requests : asked[q] \notin {"pool", "thread", "stored"}

StopWorkers ==
    /\ stop = "draining" /\ Drained
    /\ stop' = "workers"
    /\ UNCHANGED <<changes, note, copy, process, channel, at, asked, stored, answer, crashes, timeouts, stalled, reloadFaults>>

StopWorker(s) ==
    /\ stop = "workers" /\ (channel[s] \/ process[s] \in {"spawned", "read", "up"})
    /\ channel' = [channel EXCEPT ![s] = FALSE]
    /\ process' = [process EXCEPT ![s] = IF @ \in {"spawned", "read"} THEN "down"
                                         ELSE IF @ = "up" THEN "draining" ELSE @]
    /\ answer' = [q \in Requests |->
                    IF Owner(q) = s /\ at[q] \in {"frame", "pool", "thread", "asking"} /\ answer[q] = "none"
                    THEN "unavailable" ELSE answer[q]]
    /\ UNCHANGED <<changes, note, copy, at, asked, stored, stop, crashes, timeouts, stalled, reloadFaults>>

Stopped ==
    /\ stop = "workers" /\ \A s \in Shards : ~channel[s] /\ process[s] = "down"
    /\ stop' = "done"
    /\ UNCHANGED <<changes, note, copy, process, channel, at, asked, stored, answer, crashes, timeouts, stalled, reloadFaults>>

(* The end; a process whose mutex is never free need not reach it. *)
Done == (stop = "done" \/ stalled) /\ UNCHANGED vars

-----------------------------------------------------------------------------
Worker(q) == Dispatch(q) \/ Start(q) \/ Serve(q) \/ Relay(q) \/ Resume(q)
Main(q) == Submit(q) \/ Pick(q) \/ Ingest(q) \/ Respond(q)
Sync(n) == DispatchSync(n) \/ Reload(n)
Life(s) == Reap(s) \/ Respawn(s) \/ Publish(s) \/ Load(s) \/ Open(s) \/ Finish(s)

Next ==
    \/ \E q \in Requests : Handle(q) \/ Worker(q) \/ Expire(q) \/ Main(q)
    \/ \E r \in Rooms : Change(r)
    \/ \E n \in 1 .. Len(changes) : Notify(n) \/ Sync(n)
    \/ \E s \in Shards : Crash(s) \/ Life(s) \/ StopWorker(s)
    \/ Stop \/ StopWorkers \/ Stopped \/ Done

Spec == Init /\ [][Next]_vars

(* The threads of both processes run; nobody has to call, to crash, to     *)
(* time out or to stop the pool, but a stop, once begun, goes on.          *)
FairSpec ==
    /\ Spec
    /\ \A q \in Requests : WF_vars(Worker(q)) /\ WF_vars(Main(q))
    /\ \A n \in Changes : WF_vars(n <= Len(changes) /\ (Notify(n) \/ Sync(n)))
    /\ \A s \in Shards : WF_vars(Life(s)) /\ WF_vars(StopWorker(s))
    /\ WF_vars(StopWorkers) /\ WF_vars(Stopped)

-----------------------------------------------------------------------------
TypeOK ==
    /\ changes \in Seq(Rooms) /\ Len(changes) <= MaxChanges
    /\ note \in [Changes -> {"none", "silent", "due", "unheard", "frame", "pool", "failed", "over"}]
    /\ copy \in [Shards -> [Rooms -> 0 .. MaxChanges]]
    /\ process \in [Shards -> {"spawned", "read", "up", "draining", "down"}]
    /\ channel \in [Shards -> BOOLEAN]
    /\ at \in [Requests -> {"new", "frame", "pool", "thread", "asking", "over"}]
    /\ asked \in [Requests -> {"no", "frame", "pool", "ignored", "thread", "stored", "replied"}]
    /\ stored \in [Requests -> 0 .. MaxChanges]
    /\ answer \in [Requests -> {"none", "ok", "failed", "refused", "unavailable"}]
    /\ stop \in {"no", "draining", "workers", "done"}
    /\ stalled \in BOOLEAN /\ reloadFaults \in 0 .. MaxReloadFaults

(* The committed changes of a room that a worker's copy lacks. *)
Lacks(s, r) == {n \in 1 .. Len(changes) : changes[n] = r /\ n > copy[s][r]}

(* A room read is about to be answered. *)
Reads(q) == Kind[q] = "local" /\ at[q] = "thread" /\ stop = "no"

(* Each change that is missing from the copy a worker answers from is on   *)
(* its way to the worker: the notification is a frame the starting worker  *)
(* will read, a reload reads everything committed before it, and no order  *)
(* of commit, notification, crash and start-up leaves a change behind.     *)
(* Three kinds of change are left out, one by one: those nobody announces  *)
(* (a knock, and what a worker relays of joins, leaves, knocks and         *)
(* invites), those announced between the spawn of a process and the        *)
(* publication of its channel, and those whose reload failed.              *)
OldOnlyWhileToldOf ==
    \A q \in Requests : Reads(q) => \A n \in Lacks(Owner(q), RoomOf[q]) :
        note[n] \in {"due", "frame", "pool"} \union {"silent", "unheard", "failed"}

(* Every request that entered the pool is answered without any IPC wait    *)
(* having to expire: neither a dead worker, nor a main process that stops  *)
(* and ignores what its workers ask, leaves a caller waiting.              *)
Answers == ~stalled => \A q \in Requests : (at[q] = "frame") ~> (answer[q] # "none")

(* A main process whose runtime mutex is never free to its workers'        *)
(* questions does not keep a worker from answering room reads: only the    *)
(* relay pool fills with those who wait.                                   *)
ReadsSurviveAStall ==
    \A q \in Requests : (Kind[q] = "local" /\ at[q] = "frame") ~> (answer[q] # "none")
=============================================================================
