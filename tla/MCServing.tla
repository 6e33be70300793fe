------------------------------ MODULE MCServing ------------------------------
(***************************************************************************)
(* Serving a request, for TLC: the runtime lock its handler takes, the     *)
(* connection it came on, and the reading of it off the socket.            *)
(*                                                                         *)
(* The three share no state, so a behaviour is one of each part's; the     *)
(* parts it is not about stay as they began.                               *)
(***************************************************************************)
EXTENDS RuntimeLock

VARIABLES
    part,
    at, sent, leftover, keep, closes, queue, syncQueue, stopping, main, throws,
    tls, phase, polling, inner, waits, now, start, last, head, lines, got, socket, half, fed, pending, unsent

T == INSTANCE Transport WITH
        Conns <- {"c1", "c2"}, Workers <- 2, SyncWorkers <- 1, Depth <- 1, MaxParked <- 1,
        MaxAhead <- 3, MaxThrows <- 1

R == INSTANCE RequestRead WITH
        Lengths <- {2, 3}, BodyCap <- 2, MaxHeaders <- 1, MaxLines <- 2, Cap <- 2,
        HeadDeadline <- 4, BaseDeadline <- 4, Floor <- 2, InterByte <- 2, ReceiveTimeout <- 3,
        MaxWaits <- 2, MaxTime <- 30

connections == <<at, sent, leftover, keep, closes, queue, syncQueue, stopping, main, throws>>
request == <<tls, phase, polling, inner, waits, now, start, last, head, lines, got, socket, half, fed, pending, unsent>>
serving == <<vars, part, connections, request>>

ServingInit ==
    /\ part \in {"lock", "transport", "reading"}
    /\ Init /\ T!Init /\ R!Init
    /\ part # "reading" => head = 1 /\ lines = <<>> /\ ~tls
    /\ Len(lines) = 2 => head = 1 /\ ~tls

ServingNext ==
    \/ part = "lock" /\ Next /\ UNCHANGED <<part, connections, request>>
    \/ part = "transport" /\ T!Next /\ UNCHANGED <<vars, part, request>>
    \/ part = "reading" /\ R!Next /\ UNCHANGED <<vars, part, connections>>

(* A thread inside a frame runs on; so do the workers of both pools. *)
ServingSpec ==
    /\ ServingInit /\ [][ServingNext]_serving
    /\ \A t \in Threads : WF_vars(part = "lock" /\ (Leave(t) \/ Continue(t)))
    /\ \A c \in {"c1", "c2"} : WF_connections(part = "transport" /\ T!Serve(c))
    /\ WF_connections(part = "transport" /\ T!Take) /\ WF_connections(part = "transport" /\ T!TakeSync)
    /\ WF_connections(part = "transport" /\ T!StopSync) /\ WF_connections(part = "transport" /\ T!Finish)

(* A socket is closed once, by the task that owns it at the time. *)
ClosedByItsOwnerOnce == T!TypeOK /\ T!ClosedByItsOwnerOnce

(* A shutdown empties both pools and leaves no connection open, unless a
   client pipelines for ever. *)
ShutdownDrains == T!ShutdownDrains

(* A worker is kept past a cap only by one read that waits by itself. *)
EndsByItsDeadline == R!EndsByItsDeadline
=============================================================================
