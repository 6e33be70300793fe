----------------------------- MODULE Transport -----------------------------
(* The HTTP transport: the accept loop, the request pool whose workers read, *)
(* answer and park connections, and the long-poll pool a waiting /sync is    *)
(* handed to (homeserver/http_server.cpp, net/thread_pool.cpp, http/,        *)
(* main.cpp).  A connection's socket belongs to exactly one task at a time.  *)
(* A request is two units of bytes, so that what is read in one gulp may end *)
(* in the middle of the next request; a client may go on sending for ever.   *)
EXTENDS Naturals, Sequences, FiniteSets, SequencesExt

CONSTANTS
    Conns,        \* client connections
    Workers,      \* workers of the request pool (8 in main.cpp)
    SyncWorkers,  \* workers of the long-poll pool (32 in main.cpp)
    Depth,        \* listeners.max_queued_connections
    MaxParked,    \* server.http.keep_alive_max_connections
    MaxAhead,     \* bound: units sent and not yet read, on one connection
    MaxThrows     \* bound: request handlers that throw

VARIABLES
    at,        \* where the connection is served
    sent,      \* units in the socket
    leftover,  \* units read behind the current request
    keep,      \* the answer will say keep-alive
    closes,    \* times the server closed the socket
    queue,     \* ThreadPool::queue_ of the request pool
    syncQueue, \* ThreadPool::queue_ of the long-poll pool
    stopping,  \* stopping_ of each pool
    main,      \* where serve_until_shutdown is
    throws

vars == <<at, sent, leftover, keep, closes,
          queue, syncQueue, stopping, main, throws>>

Places == {"away", "backlog", "queued", "reading", "answering", "between",
           "parked", "inline", "syncQueued", "polling", "closed", "lost"}

Init ==
    /\ at = [c \in Conns |-> "away"]
    /\ sent = [c \in Conns |-> 0]
    /\ leftover = [c \in Conns |-> 0]
    /\ keep = [c \in Conns |-> FALSE]
    /\ closes = [c \in Conns |-> 0]
    /\ queue = <<>>
    /\ syncQueue = <<>>
    /\ stopping = [pool |-> FALSE, sync |-> FALSE]
    /\ main = "serving"
    /\ throws = 0

At(where) == {c \in Conns : at[c] \in where}
OnWorkers == At({"reading", "answering", "between", "parked", "inline"})
Parked == Cardinality(At({"parked"}))

\* Mutant: a task is queued on a pool that has already been told to stop.
AcceptsWhenStopped(stopped, waiting) == Len(waiting) < Depth

\* ThreadPool::submit: refused once the pool is stopping or its queue is full.
Accepts(stopped, waiting) == ~stopped /\ Len(waiting) < Depth

----------------------------------------------------------------------------
(* The client                                                                *)

Connect(c) ==
    /\ at[c] = "away"
    /\ at' = [at EXCEPT ![c] = "backlog"]
    /\ UNCHANGED <<sent, leftover, keep, closes,
                   queue, syncQueue, stopping, main, throws>>

\* What a client does with a connection the server has closed matters to nobody.
Send(c) ==
    /\ at[c] \notin {"away", "closed"} /\ sent[c] < MaxAhead
    /\ sent' = [sent EXCEPT ![c] = @ + 1]
    /\ UNCHANGED <<at, leftover, keep, closes,
                   queue, syncQueue, stopping, main, throws>>

----------------------------------------------------------------------------
(* The accept loop, and the request pool's workers                           *)

\* The end of a pool task that still owns its socket: shutdown() and the
\* SocketHandle's destructor.
Closed(c) ==
    /\ at' = [at EXCEPT ![c] = "closed"]
    /\ closes' = [closes EXCEPT ![c] = @ + 1]

\* serve_http / serve_tls_http: accept, and hand the socket to the pool.
Accept(c) ==
    /\ at[c] = "backlog"
    /\ main = "serving" /\ ~stopping.pool
    /\ \/ /\ Accepts(stopping.pool, queue)
          /\ queue' = Append(queue, c)
          /\ at' = [at EXCEPT ![c] = "queued"]
          /\ UNCHANGED closes
       \/ /\ ~Accepts(stopping.pool, queue)
          /\ Closed(c)
          /\ UNCHANGED queue
    /\ UNCHANGED <<sent, leftover, keep,
                   syncQueue, stopping, main, throws>>

\* ThreadPool::worker_loop takes the oldest task; serve_connection starts with
\* an empty buffer.
Take ==
    /\ main \in {"serving", "stopPool"}
    /\ queue # <<>> /\ Cardinality(OnWorkers) < Workers
    /\ LET c == Head(queue) IN
         /\ at' = [at EXCEPT ![c] = "reading"]
         /\ leftover' = [leftover EXCEPT ![c] = 0]
    /\ queue' = Tail(queue)
    /\ UNCHANGED <<sent, keep, closes, syncQueue,
                   stopping, main, throws>>

\* A TLS handshake that fails, a head or body that is late, too large or
\* malformed: an error is written and the connection ends.  A later round that
\* reads nothing closes silently.
GiveUp(c) ==
    /\ at[c] = "reading"
    /\ Closed(c)
    /\ UNCHANGED <<sent, leftover, keep, queue,
                   syncQueue, stopping, main, throws>>

\* connection_preference_for_response, with the number of parked connections
\* loaded before the request is dispatched.
Preference(wants) == wants /\ Parked < MaxParked

\* read_request_head, read_remaining_body: the next request comes from the
\* buffer, or from the socket together with whatever was sent behind it, which
\* may be a part of the request after it.
Request(c) ==
    /\ at[c] = "reading"
    /\ \/ /\ leftover[c] >= 2
          /\ leftover' = [leftover EXCEPT ![c] = @ - 2]
          /\ UNCHANGED sent
       \/ /\ leftover[c] < 2
          /\ \E n \in 1..sent[c] :
                /\ leftover[c] + n >= 2
                /\ sent' = [sent EXCEPT ![c] = @ - n]
                /\ leftover' = [leftover EXCEPT ![c] = @ + n - 2]
    /\ \E wants \in BOOLEAN : keep' = [keep EXCEPT ![c] = Preference(wants)]
    /\ at' = [at EXCEPT ![c] = "answering"]
    /\ UNCHANGED <<closes, queue, syncQueue, stopping, main, throws>>

\* The response of a completed request: keep-alive goes on to the next round; a
\* write that fails because the client has left ends the connection too.
Respond(c) ==
    /\ at[c] \in {"answering", "inline"}
    /\ \/ /\ keep[c]
          /\ at' = [at EXCEPT ![c] = "between"]
          /\ UNCHANGED closes
       \/ Closed(c)
    /\ UNCHANGED <<sent, leftover, keep, queue, syncQueue,
                   stopping, main, throws>>

\* A handler that throws on a worker: the pool swallows it, the guard closes.
Throw(c) ==
    /\ at[c] = "answering" /\ throws < MaxThrows
    /\ throws' = throws + 1
    /\ Closed(c)
    /\ UNCHANGED <<sent, leftover, keep, queue,
                   syncQueue, stopping, main>>

\* Mutant: the worker's guard still closes the socket it handed over.
HandOffUnreleased(c) ==
    /\ at[c] = "answering"
    /\ Accepts(stopping.sync, syncQueue)
    /\ syncQueue' = Append(syncQueue, c)
    /\ at' = [at EXCEPT ![c] = "syncQueued"]
    /\ closes' = [closes EXCEPT ![c] = @ + 1]
    /\ UNCHANGED <<sent, leftover, keep, queue,
                   stopping, main, throws>>

\* A waiting /sync: the socket goes to the long-poll pool and this worker's
\* guard lets go of it; when that pool refuses, the worker waits itself.
HandOff(c) ==
    /\ at[c] = "answering"
    /\ \/ /\ Accepts(stopping.sync, syncQueue)
          /\ syncQueue' = Append(syncQueue, c)
          /\ at' = [at EXCEPT ![c] = "syncQueued"]
       \/ /\ ~Accepts(stopping.sync, syncQueue)
          /\ at' = [at EXCEPT ![c] = "inline"]
          /\ UNCHANGED syncQueue
    /\ UNCHANGED <<sent, leftover, keep, closes,
                   queue, stopping, main, throws>>

\* ParkedKeepAliveSlot::try_acquire.
SlotFree == Parked < MaxParked

\* serve_connection's loop: buffered bytes, be they a whole request or not, are
\* served at once and nobody looks whether the pool is stopping; otherwise the
\* connection parks, if there is a slot and the pool is running.
NextRound(c) ==
    /\ at[c] = "between"
    /\ \/ leftover[c] > 0 /\ at' = [at EXCEPT ![c] = "reading"]
                          /\ UNCHANGED closes
       \/ leftover[c] = 0 /\ SlotFree /\ ~stopping.pool
                          /\ at' = [at EXCEPT ![c] = "parked"]
                          /\ UNCHANGED closes
       \/ leftover[c] = 0 /\ (~SlotFree \/ stopping.pool) /\ Closed(c)
    /\ UNCHANGED <<sent, leftover, keep, queue,
                   syncQueue, stopping, main, throws>>

\* wait_for_next_request, which looked at running() before it polled: bytes
\* arrive, or the idle window passes, the peer leaves or the next slice finds the
\* pool stopping; the slot is free again either way.
Unpark(c) ==
    /\ at[c] = "parked"
    /\ \/ /\ sent[c] > 0
          /\ at' = [at EXCEPT ![c] = "reading"]
          /\ UNCHANGED closes
       \/ Closed(c)
    /\ UNCHANGED <<sent, leftover, keep, queue,
                   syncQueue, stopping, main, throws>>

----------------------------------------------------------------------------
(* The long-poll pool                                                        *)

TakeSync ==
    /\ syncQueue # <<>> /\ Cardinality(At({"polling"})) < SyncWorkers
    /\ at' = [at EXCEPT ![Head(syncQueue)] = "polling"]
    /\ syncQueue' = Tail(syncQueue)
    /\ UNCHANGED <<sent, leftover, keep, closes,
                   queue, stopping, main, throws>>

\* A slice ends without news and the peek finds the client gone.
SyncGone(c) ==
    /\ at[c] = "polling" /\ ~stopping.sync
    /\ Closed(c)
    /\ UNCHANGED <<sent, leftover, keep, queue,
                   syncQueue, stopping, main, throws>>

\* The wait ends (news, deadline, pool stopping): the answer is written, its
\* outcome ignored, and a kept connection goes back to the request pool, where
\* serve_connection starts afresh.  Bytes read behind the request are not taken
\* along.
SyncRespond(c) ==
    /\ at[c] = "polling"
    /\ \/ /\ keep[c] /\ Accepts(stopping.pool, queue)
          /\ queue' = Append(queue, c)
          /\ at' = [at EXCEPT ![c] = "queued"]
          /\ UNCHANGED closes
       \/ /\ ~(keep[c] /\ Accepts(stopping.pool, queue))
          /\ Closed(c)
          /\ UNCHANGED queue
    /\ UNCHANGED <<sent, leftover, keep, syncQueue,
                   stopping, main, throws>>

\* The handler throws outside the task's try block: the pool swallows it and
\* nothing closes the socket.
SyncThrow(c) ==
    /\ at[c] = "polling" /\ throws < MaxThrows
    /\ throws' = throws + 1
    /\ at' = [at EXCEPT ![c] = "lost"]
    /\ UNCHANGED <<sent, leftover, keep, closes,
                   queue, syncQueue, stopping, main>>

----------------------------------------------------------------------------
(* Shutdown: serve_until_shutdown                                            *)

Fire ==
    /\ main = "serving"
    /\ main' = "stopPool"
    /\ stopping' = [stopping EXCEPT !.pool = TRUE]
    /\ UNCHANGED <<at, sent, leftover, keep,
                   closes, queue, syncQueue, throws>>

\* request_stop joins the workers: each leaves once the queue is empty.
StopSync ==
    /\ main = "stopPool" /\ queue = <<>> /\ OnWorkers = {}
    /\ main' = "stopSync"
    /\ stopping' = [stopping EXCEPT !.sync = TRUE]
    /\ UNCHANGED <<at, sent, leftover, keep,
                   closes, queue, syncQueue, throws>>

Finish ==
    /\ main = "stopSync" /\ syncQueue = <<>> /\ At({"polling"}) = {}
    /\ main' = "done"
    /\ UNCHANGED <<at, sent, leftover, keep,
                   closes, queue, syncQueue, stopping, throws>>

Done == main = "done" /\ UNCHANGED vars

Client(c) == Connect(c) \/ Send(c)

Serve(c) ==
    \/ Accept(c) \/ GiveUp(c) \/ Request(c) \/ Respond(c) \/ Throw(c)
    \/ HandOff(c) \/ NextRound(c) \/ Unpark(c)
    \/ SyncGone(c) \/ SyncRespond(c) \/ SyncThrow(c)

Next ==
    \/ \E c \in Conns : Client(c) \/ Serve(c)
    \/ Take \/ TakeSync \/ Fire \/ StopSync \/ Finish \/ Done

Spec == Init /\ [][Next]_vars

\* Every worker thread runs, every wait has a deadline; clients owe nothing.
FairSpec ==
    /\ Spec
    /\ \A c \in Conns : WF_vars(Serve(c))
    /\ WF_vars(Take) /\ WF_vars(TakeSync) /\ WF_vars(StopSync) /\ WF_vars(Finish)

----------------------------------------------------------------------------

TypeOK ==
    /\ at \in [Conns -> Places]
    /\ sent \in [Conns -> 0..MaxAhead] /\ leftover \in [Conns -> 0..MaxAhead]
    /\ queue \in Seq(Conns) /\ syncQueue \in Seq(Conns)
    /\ main \in {"serving", "stopPool", "stopSync", "done"}

\* A socket is closed at most once, by the task that owns it, and nobody serves
\* a connection whose descriptor has been closed (and may have been reused for
\* another client): the guard's release() on a handed-over socket, and the long
\* poll's resubmission, move ownership without sharing it.
ClosedByItsOwnerOnce ==
    \A c \in Conns : closes[c] = (IF at[c] = "closed" THEN 1 ELSE 0)

\* The connection goes on without parking, because of what was read behind the
\* last request.
Pipelining(c) == at[c] = "between" /\ leftover[c] > 0

\* Once a shutdown begins, both pools empty and serve_until_shutdown returns
\* with no connection left open, wherever each of them was, unless some client
\* goes on for ever sending a part of its next request behind each request: its
\* connection never parks, and only a parked one sees that the pool is stopping.
\* A socket whose long-poll handler threw is not closed by anybody.
ShutdownDrains ==
    \/ \E c \in Conns : []<>Pipelining(c)
    \/ main = "stopPool" ~>
          (main = "done" /\ \A c \in Conns : at[c] \in {"away", "backlog", "closed", "lost"})
=============================================================================
