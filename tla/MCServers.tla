----------------------------- MODULE MCServers -----------------------------
(***************************************************************************)
(* The processes of the server, for TLC: a federation worker and the main  *)
(* process whose rooms it reads; servers that open one database and bring  *)
(* its schema up to date; and the race of a join over the servers that may *)
(* let the user in.  The parts share no state: a behaviour is one of them, *)
(* and the others stay as they began.                                      *)
(***************************************************************************)
EXTENDS Integers, Sequences, FiniteSets, TLC

CONSTANTS a, k1, r1, s1, s2, s3, us, Levels, None, Nobody

VARIABLES
    part,
    changes, note, copy, process, channel, at, asked, relayed, reply, stop, stalled, deaths, timeouts, unread,
    db, pc, seen, version, plan, lease, failures, crashes,
    resident, made, wire, known, stored, state, row, invites, rooms, fills, handshake, answer, task, winner,
    remaining, lost, faults, crossed

pool == <<changes, note, copy, process, channel, at, asked, relayed, reply, stop, stalled, deaths, timeouts, unread>>
schema == <<db, pc, seen, version, plan, lease, failures, crashes>>
race == <<resident, made, wire, known, stored, state, row, invites, rooms, fills, handshake, answer, task, winner,
          remaining, lost, faults, crossed>>

-----------------------------------------------------------------------------
(* One worker that reads a room for one peer and relays what another sent, *)
(* with one thread for each: a transaction and two changes, to see which   *)
(* copy of the room it reads, and a join and one change, to see that       *)
(* everybody is answered.                                                  *)

Copies == INSTANCE WorkerPool WITH
        Rooms <- {r1}, Shards <- {0}, Hash <- (r1 :> 1), Requests <- {1, 2},
        Endpoint <- <<"backfill", "transaction">>, RoomOf <- <<r1, r1>>, Threads <- 1, RelayThreads <- 1,
        MaxChanges <- 2, MaxCrashes <- 1, MaxTimeouts <- 0, MaxReloadFaults <- 1,
        stored <- relayed, answer <- reply, crashes <- deaths, reloadFaults <- unread
W == INSTANCE WorkerPool WITH
        Rooms <- {r1}, Shards <- {0}, Hash <- (r1 :> 1), Requests <- {1, 2},
        Endpoint <- <<"backfill", "send_join">>, RoomOf <- <<r1, r1>>, Threads <- 1, RelayThreads <- 1,
        MaxChanges <- 1, MaxCrashes <- 1, MaxTimeouts <- 1, MaxReloadFaults <- 0,
        stored <- relayed, answer <- reply, crashes <- deaths, reloadFaults <- unread

(* Two servers on one database: from a schema a few steps old, from        *)
(* nothing, of two releases, and under PostgreSQL's roles.                 *)

Servers == {s1, s2}
Newest == [s \in Servers |-> 14]

Old == INSTANCE Migrations WITH
        StateKeys <- {k1}, Backend <- "sqlite", Knows <- Newest, Roles <- FALSE, StartVersions <- {10},
        Owner <- "login", MaxFaults <- 1, MaxCrashes <- 1, faults <- failures
Empty == INSTANCE Migrations WITH
        StateKeys <- {k1}, Backend <- "sqlite", Knows <- [s \in Servers |-> 5], Roles <- FALSE,
        StartVersions <- {0}, Owner <- "login", MaxFaults <- 1, MaxCrashes <- 1, faults <- failures
Releases == INSTANCE Migrations WITH
        StateKeys <- {k1}, Backend <- "sqlite", Knows <- [Newest EXCEPT ![s1] = 13], Roles <- FALSE,
        StartVersions <- {11}, Owner <- "login", MaxFaults <- 1, MaxCrashes <- 1, faults <- failures
Owned == INSTANCE Migrations WITH
        StateKeys <- {k1}, Backend <- "postgresql", Knows <- Newest, Roles <- TRUE, StartVersions <- {10},
        Owner <- "migration", MaxFaults <- 1, MaxCrashes <- 1, faults <- failures

(* One server, on a database the operator has just made the roles for.     *)
Fresh == INSTANCE Migrations WITH
        StateKeys <- {k1}, Servers <- {s1}, Backend <- "postgresql", Knows <- [s \in {s1} |-> 5], Roles <- TRUE,
        StartVersions <- {0}, Owner <- "login", MaxFaults <- 1, MaxCrashes <- 1, faults <- failures

(* Three candidates, two of them asked at a time.                          *)
Templates ==
    [room_here : {TRUE}, sender : {a}, state_key : {a}, type : {"m.room.member"}, dated : BOOLEAN,
     membership : {"join", "leave"}]

J == INSTANCE RemoteJoin WITH
        Users <- {a}, Others <- {}, Unresolvable <- {}, Requests <- {r1}, Actor <- (r1 :> a),
        Via <- <<s2, s1, s2, s3>>, Domain <- s1, Us <- us, MaxCandidates <- 3, Templates <- Templates,
        Parallelism <- 2, RaceDeadline <- FALSE, MaxEvents <- 3, MaxLost <- 1, MaxFaults <- 1, pc <- handshake

-----------------------------------------------------------------------------
SchemaParts == {"old", "empty", "releases", "owned", "fresh"}

Init ==
    /\ part \in {"copies", "pool", "race"} \union SchemaParts
    /\ IF part = "copies" THEN Copies!Init ELSE W!Init /\ (part # "pool" => ~stalled)
    /\ CASE part = "empty" -> Empty!Init
         [] part = "releases" -> Releases!Init
         [] part = "owned" -> Owned!Init
         [] part = "fresh" -> Fresh!Init
         [] OTHER -> Old!Init
    /\ J!Init

SchemaNext ==
    \/ part = "old" /\ Old!Next
    \/ part = "empty" /\ Empty!Next
    \/ part = "releases" /\ Releases!Next
    \/ part = "owned" /\ Owned!Next
    \/ part = "fresh" /\ Fresh!Next

Next ==
    /\ UNCHANGED part
    /\ \/ part = "copies" /\ Copies!Next /\ UNCHANGED <<schema, race>>
       \/ part = "pool" /\ W!Next /\ UNCHANGED <<schema, race>>
       \/ SchemaNext /\ UNCHANGED <<pool, race>>
       \/ part = "race" /\ J!Next /\ UNCHANGED <<pool, schema>>

Advance(s) ==
    \/ part = "old" /\ Old!Advance(s)
    \/ part = "empty" /\ Empty!Advance(s)
    \/ part = "owned" /\ Owned!Advance(s)

(* The threads of both processes run, a server that is down is started     *)
(* again, and every task of a race has a thread and a call that ends.      *)
PoolRuns ==
    /\ \A q \in 1 .. 2 : WF_pool(part = "pool" /\ W!Worker(q)) /\ WF_pool(part = "pool" /\ W!Main(q))
    /\ WF_pool(part = "pool" /\ changes # <<>> /\ (W!Notify(1) \/ W!Sync(1)))
    /\ WF_pool(part = "pool" /\ W!Life(0)) /\ WF_pool(part = "pool" /\ W!StopWorker(0))
    /\ WF_pool(part = "pool" /\ W!StopWorkers) /\ WF_pool(part = "pool" /\ W!Stopped)

RaceRuns ==
    /\ WF_race(part = "race" /\ J!RaceOver(r1))
    /\ \A s \in {s1, s2, s3} :
        /\ WF_race(part = "race" /\ J!Acquire(r1, s))
        /\ WF_race(part = "race" /\ \E ok \in BOOLEAN : J!Finish(r1, s, ok))

Spec ==
    /\ Init /\ [][Next]_<<part, pool, schema, race>>
    /\ PoolRuns /\ RaceRuns
    /\ \A s \in Servers : WF_schema(Advance(s))

-----------------------------------------------------------------------------
(* A federation worker answers from an old copy of a room only while the   *)
(* news of every announced change it lacks is on its way to it, unless the *)
(* news came to a process without a channel or the reload failed.          *)
OldOnlyWhileToldOf ==
    /\ part = "copies" => Copies!TypeOK /\ Copies!OldOnlyWhileToldOf
    /\ part = "pool" => W!OldOnlyWhileToldOf

(* A request a worker was handed is answered, whatever dies or stops       *)
(* meanwhile; a main process that answers nothing does not keep a worker   *)
(* from reading rooms; and a join that waits for its race is let go.       *)
NobodyIsLeftWaiting ==
    /\ part = "pool" => W!Answers /\ W!ReadsSurviveAStall
    /\ part = "race" => J!RaceEnds

(* Whatever is interrupted, the database is the one its ledger tells of,   *)
(* and no server serves on a schema it was not written for.                *)
SchemaIsItsLedgers ==
    /\ part \in SchemaParts => Old!SchemaIsItsLedgers
    /\ part = "old" => Old!TypeOK /\ Old!ServesItsSchema
    /\ part = "empty" => Empty!TypeOK /\ Empty!ServesItsSchema
    /\ part = "releases" => Releases!ServesItsSchema
    /\ part = "owned" => Owned!TypeOK /\ Owned!ServesItsSchema
    /\ part = "fresh" => Fresh!ServesItsSchema

(* Servers that open one database at once all come up, whoever is killed   *)
(* or fails on the way.                                                    *)
AllComeUp == part \in {"old", "empty", "owned"} => Old!AllComeUp

(* The first start on a database whose roles are made is not refused       *)
(* (packaging/postgresql/provision-roles.sql:46: "it is a no-op on a fresh *)
(* install, where the migration role owns what it creates from the start").*)
FreshInstallsStart == part = "fresh" => Fresh!FreshInstallsStart
=============================================================================
