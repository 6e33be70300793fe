----------------------------- MODULE IpcChannel -----------------------------
(***************************************************************************)
(* ipc::IpcChannel, one end of the socket between the main process and a   *)
(* federation worker: callers blocked in send_request(), the reader thread *)
(* that routes frames, the dispatch thread that runs the request handler,  *)
(* and the thread that calls stop().  The other end is an environment that *)
(* answers, asks, sends garbage and dies.                                  *)
(*                                                                         *)
(* A step is one critical section, one blocking call or one access to an   *)
(* atomic.  The dispatch thread's wait is split where it matters: it tests *)
(* its predicate and goes to sleep in two steps, with dispatch_mu_ held    *)
(* throughout, and a notify that comes in between is lost.                 *)
(***************************************************************************)
EXTENDS Integers, Sequences, Functions

CONSTANTS
    Callers,          \* threads that call send_request()
    LockHolders,      \* those that hold, while they wait, a lock the handler takes
    MaxIds,           \* bound: frames this end numbers
    MaxAsked,         \* bound: request frames the peer sends
    HandlerThrows,    \* whether the request handler may throw
    PeerMisbehaves    \* whether the peer may send a frame that does not parse

ASSUME IpcAssumption ==
    /\ LockHolders \subseteq Callers
    /\ MaxIds \in Nat /\ MaxAsked \in Nat
    /\ HandlerThrows \in BOOLEAN /\ PeerMisbehaves \in BOOLEAN

VARIABLES
    running, healthy,   \* running_, healthy_
    socket,             \* "open", "shut" after ::shutdown(), "closed" after fd_.reset()
    peer,               \* the process at the other end: "up" or "gone"
    inbox,              \* frames from the peer, not yet read
    unanswered,         \* ids of our requests the peer has received
    asked,              \* request frames the peer has sent
    nextId,             \* next_id_
    pending,            \* pending_: the registered ids
    ready, response,    \* PendingEntry::ready and ::response, 0 for nullopt
    caller,             \* where each caller is in send_request()
    callId,             \* the id of its request
    result,             \* what its last send_request() returned
    reader, dispatcher, stopper,  \* where those threads are
    queue,              \* dispatch_queue_
    handled             \* history: request frames the handler was given

calls == <<pending, ready, response, caller, callId, result>>
wire == <<inbox, unanswered, asked, peer>>
threads == <<reader, dispatcher, stopper>>
vars == <<running, healthy, socket, peer, inbox, unanswered, asked, nextId, pending, ready,
          response, caller, callId, result, reader, dispatcher, stopper, queue, handled>>

Ids == 1 .. MaxIds
Reply(id) == [kind |-> "reply", id |-> id]
Request(id) == [kind |-> "request", id |-> id]
Garbage == [kind |-> "garbage", id |-> 0]
Frames == {Reply(id) : id \in Ids} \cup {Request(n) : n \in 1 .. MaxAsked} \cup {Garbage}

Init ==
    /\ running = TRUE /\ healthy = TRUE /\ socket = "open" /\ peer = "up"
    /\ inbox = <<>> /\ unanswered = {} /\ asked = 0 /\ nextId = 1
    /\ pending = {} /\ ready = {} /\ response = [id \in Ids |-> 0]
    /\ caller = [c \in Callers |-> "idle"]
    /\ callId = [c \in Callers |-> 0]
    /\ result = [c \in Callers |-> 0]
    /\ reader = "top" /\ dispatcher = "test" /\ stopper = "no"
    /\ queue = <<>> /\ handled = <<>>

-----------------------------------------------------------------------------
(***************************************************************************)
(* The peer.                                                               *)
(***************************************************************************)
Arrives(frame) == peer = "up" /\ socket = "open" /\ inbox' = Append(inbox, frame)

PeerAnswers ==
    /\ \E id \in unanswered : Arrives(Reply(id)) /\ unanswered' = unanswered \ {id}
    /\ UNCHANGED <<running, healthy, socket, peer, asked, nextId, calls, threads, queue, handled>>

PeerAsks ==
    /\ asked < MaxAsked
    /\ asked' = asked + 1
    /\ Arrives(Request(asked'))
    /\ UNCHANGED <<running, healthy, socket, peer, unanswered, nextId, calls, threads,
                   queue, handled>>

PeerSendsGarbage ==
    /\ PeerMisbehaves
    /\ Garbage \notin Range(inbox)
    /\ Arrives(Garbage)
    /\ UNCHANGED <<running, healthy, socket, peer, unanswered, asked, nextId, calls, threads,
                   queue, handled>>

PeerDies ==
    /\ peer = "up"
    /\ peer' = "gone"
    /\ UNCHANGED <<running, healthy, socket, inbox, unanswered, asked, nextId, calls, threads,
                   queue, handled>>

-----------------------------------------------------------------------------
(***************************************************************************)
(* send_request(), send_response() and send_notification().                *)
(***************************************************************************)

(* A fresh id, and an entry in pending_ before anything is written. *)
Register(c) ==
    /\ caller[c] = "idle" /\ nextId <= MaxIds
    /\ nextId' = nextId + 1
    /\ callId' = [callId EXCEPT ![c] = nextId]
    /\ pending' = pending \cup {nextId}
    /\ caller' = [caller EXCEPT ![c] = "registered"]
    /\ result' = [result EXCEPT ![c] = 0]
    /\ UNCHANGED <<running, healthy, socket, wire, ready, response, threads, queue, handled>>

(* write_frame() under write_mu_: the bytes leave while the socket is open *)
(* and the peer is there.                                                  *)
Write(c) ==
    /\ caller[c] = "registered"
    /\ socket = "open" /\ peer = "up"
    /\ unanswered' = unanswered \cup {callId[c]}
    /\ caller' = [caller EXCEPT ![c] = "waiting"]
    /\ UNCHANGED <<running, healthy, socket, inbox, asked, peer, nextId, pending, ready, response,
                   callId, result, threads, queue, handled>>

(* The entry is erased and send_request() returns; 0 stands for nullopt. *)
ReturnFrom(c, value) ==
    /\ caller' = [caller EXCEPT ![c] = "idle"]
    /\ result' = [result EXCEPT ![c] = value]
    /\ pending' = pending \ {callId[c]}
    /\ ready' = ready \ {callId[c]}
    /\ response' = [response EXCEPT ![callId[c]] = 0]

(* Too large, no memory, or the socket is gone. *)
WriteFails(c) ==
    /\ caller[c] = "registered"
    /\ ReturnFrom(c, 0)
    /\ UNCHANGED <<running, healthy, socket, wire, nextId, callId, threads, queue, handled>>

(* The predicate of wait_until() holds: a response, or a wake without one. *)
Wake(c) ==
    /\ caller[c] = "waiting"
    /\ callId[c] \in ready
    /\ ReturnFrom(c, response[callId[c]])
    /\ UNCHANGED <<running, healthy, socket, wire, nextId, callId, threads, queue, handled>>

TimeOut(c) ==
    /\ caller[c] = "waiting"
    /\ callId[c] \notin ready
    /\ ReturnFrom(c, 0)
    /\ UNCHANGED <<running, healthy, socket, wire, nextId, callId, threads, queue, handled>>

(* send_response() and send_notification() take an id and expect nothing. *)
SendOneWay ==
    /\ nextId <= MaxIds
    /\ nextId' = nextId + 1
    /\ UNCHANGED <<running, healthy, socket, wire, calls, threads, queue, handled>>

-----------------------------------------------------------------------------
(***************************************************************************)
(* reader_loop()                                                           *)
(***************************************************************************)
ReaderChecks ==
    /\ reader = "top"
    /\ reader' = IF running THEN "read" ELSE "leave"
    /\ UNCHANGED <<running, healthy, socket, wire, nextId, calls, dispatcher, stopper,
                   queue, handled>>

Reading(kind) ==
    /\ reader = "read"
    /\ inbox # <<>> /\ Head(inbox).kind = kind
    /\ inbox' = Tail(inbox)

(* Mutant: gives the reply to the oldest call. *)
ReadReplyForFirst ==
    /\ Reading("reply")
    /\ IF pending # {}
         THEN LET id == CHOOSE i \in pending : \A j \in pending : i <= j IN
              ready' = ready \cup {id} /\ response' = [response EXCEPT ![id] = Head(inbox).id]
         ELSE UNCHANGED <<ready, response>>
    /\ reader' = "top"
    /\ UNCHANGED <<running, healthy, socket, unanswered, asked, peer, nextId, pending, caller,
                   callId, result, dispatcher, stopper, queue, handled>>

(* Mutant: requests are handled on the reader thread. *)
ReadReplyOnOneThread ==
    /\ dispatcher # "handle"
    /\ Reading("reply")
    /\ LET id == Head(inbox).id IN
       IF id \in pending
         THEN ready' = ready \cup {id} /\ response' = [response EXCEPT ![id] = id]
         ELSE UNCHANGED <<ready, response>>
    /\ reader' = "top"
    /\ UNCHANGED <<running, healthy, socket, unanswered, asked, peer, nextId, pending, caller,
                   callId, result, dispatcher, stopper, queue, handled>>

(* A reply whose entry is still registered wakes its caller; a late one is *)
(* dropped.                                                                *)
ReadReply ==
    /\ Reading("reply")
    /\ LET id == Head(inbox).id IN
       IF id \in pending
         THEN ready' = ready \cup {id} /\ response' = [response EXCEPT ![id] = id]
         ELSE UNCHANGED <<ready, response>>
    /\ reader' = "top"
    /\ UNCHANGED <<running, healthy, socket, unanswered, asked, peer, nextId, pending, caller,
                   callId, result, dispatcher, stopper, queue, handled>>

(* A request is queued under dispatch_mu_, which the dispatch thread holds *)
(* from its test until it sleeps.                                          *)
ReadRequest ==
    /\ dispatcher # "blocking"
    /\ Reading("request")
    /\ queue' = Append(queue, Head(inbox).id)
    /\ reader' = "notify"
    /\ UNCHANGED <<running, healthy, socket, unanswered, asked, peer, nextId, calls, dispatcher,
                   stopper, handled>>

(* dispatch_cv_.notify: only a thread already asleep hears it. *)
NotifyDispatcher == dispatcher' = IF dispatcher = "asleep" THEN "test" ELSE dispatcher

ReaderNotifies ==
    /\ reader = "notify"
    /\ NotifyDispatcher
    /\ reader' = "top"
    /\ UNCHANGED <<running, healthy, socket, wire, nextId, calls, stopper, queue, handled>>

(* A frame that does not parse ends the loop. *)
ReadGarbage ==
    /\ Reading("garbage")
    /\ healthy' = FALSE
    /\ reader' = "leave"
    /\ UNCHANGED <<running, socket, unanswered, asked, peer, nextId, calls, dispatcher, stopper,
                   queue, handled>>

(* recv() fails: the peer is gone and its frames are read, or the socket   *)
(* was shut down.                                                          *)
ReadFails ==
    /\ reader = "read"
    /\ socket # "open" \/ (peer = "gone" /\ inbox = <<>>)
    /\ healthy' = FALSE
    /\ reader' = "leave"
    /\ UNCHANGED <<running, socket, wire, nextId, calls, dispatcher, stopper, queue, handled>>

WakeEveryone == ready' = ready \cup pending

ReaderLeaves ==
    /\ reader = "leave"
    /\ WakeEveryone
    /\ reader' = "done"
    /\ UNCHANGED <<running, healthy, socket, wire, nextId, pending, response, caller, callId,
                   result, dispatcher, stopper, queue, handled>>

-----------------------------------------------------------------------------
(***************************************************************************)
(* dispatcher_loop()                                                       *)
(***************************************************************************)

(* The wait's predicate, under dispatch_mu_: take a request, leave when    *)
(* there is none and the channel stops, or go to sleep.                    *)
DispatcherTests ==
    /\ dispatcher = "test"
    /\ IF queue # <<>>
         THEN /\ dispatcher' = "handle"
              /\ queue' = Tail(queue)
              /\ handled' = Append(handled, Head(queue))
         ELSE /\ dispatcher' = IF running THEN "blocking" ELSE "done"
              /\ UNCHANGED <<queue, handled>>
    /\ UNCHANGED <<running, healthy, socket, wire, nextId, calls, reader, stopper>>

(* From here on a notify is heard; dispatch_mu_ is released. *)
DispatcherSleeps ==
    /\ dispatcher = "blocking"
    /\ dispatcher' = "asleep"
    /\ UNCHANGED <<running, healthy, socket, wire, nextId, calls, reader, stopper, queue, handled>>

SpuriousWake ==
    /\ dispatcher = "asleep"
    /\ dispatcher' = "test"
    /\ UNCHANGED <<running, healthy, socket, wire, nextId, calls, reader, stopper, queue, handled>>

(* The handler takes a lock that a caller may hold while it waits for its  *)
(* reply.                                                                  *)
HandlerCanRun == \A c \in LockHolders : caller[c] = "idle"

HandlerReturns ==
    /\ dispatcher = "handle"
    /\ HandlerCanRun
    /\ dispatcher' = "test"
    /\ UNCHANGED <<running, healthy, socket, wire, nextId, calls, reader, stopper, queue, handled>>

(* The catch-all: nobody will serve this channel again. *)
HandlerFails ==
    /\ dispatcher = "handle"
    /\ HandlerThrows /\ HandlerCanRun
    /\ healthy' = FALSE
    /\ WakeEveryone
    /\ dispatcher' = "done"
    /\ UNCHANGED <<running, socket, wire, nextId, pending, response, caller, callId, result, reader,
                   stopper, queue, handled>>

-----------------------------------------------------------------------------
(***************************************************************************)
(* stop(), line by line.                                                   *)
(***************************************************************************)
StopClearsRunning ==
    /\ stopper = "no"
    /\ running' = FALSE /\ healthy' = FALSE
    /\ stopper' = "flagged"
    /\ UNCHANGED <<socket, wire, nextId, calls, reader, dispatcher, queue, handled>>

StopWakesCallers ==
    /\ stopper = "flagged"
    /\ WakeEveryone
    /\ stopper' = "woken"
    /\ UNCHANGED <<running, healthy, socket, wire, nextId, pending, response, caller, callId,
                   result, reader, dispatcher, queue, handled>>

StopShutsSocket ==
    /\ stopper = "woken"
    /\ socket' = "shut"
    /\ stopper' = "shut"
    /\ UNCHANGED <<running, healthy, wire, nextId, calls, reader, dispatcher, queue, handled>>

StopJoinsReader ==
    /\ stopper = "shut"
    /\ reader = "done"
    /\ stopper' = "alone"
    /\ UNCHANGED <<running, healthy, socket, wire, nextId, calls, reader, dispatcher, queue, handled>>

(* notify_all() without dispatch_mu_. *)
StopNotifies ==
    /\ stopper = "alone"
    /\ NotifyDispatcher
    /\ stopper' = "notified"
    /\ UNCHANGED <<running, healthy, socket, wire, nextId, calls, reader, queue, handled>>

(* join(), and only then the descriptor is closed, under write_mu_. *)
StopJoinsDispatcher ==
    /\ stopper = "notified"
    /\ dispatcher = "done"
    /\ socket' = "closed"
    /\ stopper' = "done"
    /\ UNCHANGED <<running, healthy, wire, nextId, calls, reader, dispatcher, queue, handled>>

-----------------------------------------------------------------------------
CallerStep(c) == Register(c) \/ Write(c) \/ WriteFails(c) \/ Wake(c) \/ TimeOut(c)
ReaderStep == ReaderChecks \/ ReadReply \/ ReadRequest \/ ReaderNotifies \/ ReadGarbage
              \/ ReadFails \/ ReaderLeaves
DispatcherStep == DispatcherTests \/ DispatcherSleeps \/ HandlerReturns \/ HandlerFails
StopStep == StopWakesCallers \/ StopShutsSocket \/ StopJoinsReader \/ StopNotifies
            \/ StopJoinsDispatcher
PeerStep == PeerAnswers \/ PeerAsks \/ PeerSendsGarbage \/ PeerDies

Next ==
    \/ \E c \in Callers : CallerStep(c)
    \/ SendOneWay
    \/ ReaderStep \/ DispatcherStep \/ SpuriousWake
    \/ StopClearsRunning \/ StopStep
    \/ PeerStep

Spec == Init /\ [][Next]_vars

(* Every thread that can move does, a woken caller returns, and the reader *)
(* gets dispatch_mu_ in the end, whatever the dispatch thread does with it *)
(* meanwhile.  Nothing is promised of the peer, of a timeout, or of a      *)
(* spurious wakeup.                                                        *)
FairSpec ==
    /\ Spec
    /\ SF_vars(ReaderStep) /\ WF_vars(DispatcherStep) /\ WF_vars(StopStep)
    /\ \A c \in Callers : WF_vars(Write(c) \/ WriteFails(c)) /\ WF_vars(Wake(c))

-----------------------------------------------------------------------------
(***************************************************************************)
(* Properties                                                              *)
(***************************************************************************)
(* The type of every variable; only a registered call can be ready. *)
TypeOK ==
    /\ running \in BOOLEAN /\ healthy \in BOOLEAN
    /\ socket \in {"open", "shut", "closed"} /\ peer \in {"up", "gone"}
    /\ inbox \in Seq(Frames)
    /\ unanswered \subseteq Ids /\ asked \in 0 .. MaxAsked /\ nextId \in 1 .. MaxIds + 1
    /\ ready \subseteq pending /\ pending \subseteq Ids
    /\ response \in [Ids -> 0 .. MaxIds] /\ \A id \in Ids : response[id] # 0 => id \in ready
    /\ caller \in [Callers -> {"idle", "registered", "waiting"}]
    /\ callId \in [Callers -> 0 .. MaxIds]
    /\ result \in [Callers -> 0 .. MaxIds]
    /\ reader \in {"top", "read", "notify", "leave", "done"}
    /\ dispatcher \in {"test", "blocking", "asleep", "handle", "done"}
    /\ stopper \in {"no", "flagged", "woken", "shut", "alone", "notified", "done"}
    /\ queue \in Seq(1 .. MaxAsked) /\ handled \in Seq(1 .. MaxAsked)

(* pending_ holds exactly the calls in progress, each under an id of its   *)
(* own: no path out of send_request(), timeout and failed write included,  *)
(* leaves an entry behind or drops another caller's.                       *)
PendingIsInProgress ==
    LET active == {c \in Callers : caller[c] # "idle"} IN
    /\ pending = {callId[c] : c \in active}
    /\ \A c, d \in active : callId[c] = callId[d] => c = d

(* A caller gets the reply to its own request or nullopt: a reply that     *)
(* arrives after its caller gave up never reaches a later call.            *)
OwnReply == \A c \in Callers : caller[c] = "idle" => result[c] \in {0, callId[c]}

(* The handler is given every request frame once and in arrival order:     *)
(* what it was given and what is queued is what the reader has read.       *)
ArrivalOrder ==
    \A i \in 1 .. Len(handled \o queue) : (handled \o queue)[i] = i

(* The descriptor is closed only when no thread can still be reading it or *)
(* answering on it, so its number cannot be reused under them.             *)
ClosedAfterJoin == socket = "closed" => reader = "done" /\ dispatcher = "done"

(* What the two ends rely on: a caller gets the reply to its own request   *)
(* or none and leaves nothing behind, the handler gets the requests in the *)
(* order they came, and the descriptor outlives the threads that use it.   *)
ChannelIsSound == OwnReply /\ ArrivalOrder /\ PendingIsInProgress /\ ClosedAfterJoin

(* A caller gets out of send_request() with no help from its timeout once  *)
(* its reply has arrived or the reader gives the channel up: a handler     *)
(* that is stuck on a lock never keeps the reader from routing a reply,    *)
(* also when the caller holds that very lock.                              *)
CallersReleased ==
    \A c \in Callers : \A id \in Ids :
        (/\ caller[c] = "waiting" /\ callId[c] = id
         /\ reader = "leave" \/ (Reply(id) \in Range(inbox) /\ reader # "done"))
            ~> (caller[c] # "waiting" \/ callId[c] # id)
=============================================================================
