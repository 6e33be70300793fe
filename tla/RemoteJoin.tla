----------------------------- MODULE RemoteJoin -----------------------------
(***************************************************************************)
(* Joining and leaving a room of another server, as join_room() and        *)
(* leave_room() of homeserver/room_service.cpp do it.  Both give           *)
(* runtime.mutex up for the network part and use what they brought back    *)
(* without looking again at what changed meanwhile: a join races           *)
(* make_join over the candidate servers, sends send_join to the first that *)
(* answers, stores the critical part of the returned state and the auth    *)
(* chain under the mutex, and leaves the other members' events to a task   *)
(* that fills them in later.  PDUs and invites of the room arrive all the  *)
(* while.                                                                  *)
(*                                                                         *)
(* There is one room.  A state event is [key, is, n]: `key' is a user, for *)
(* a membership, or Levels, for m.room.power_levels, and `n' tells the     *)
(* events apart, later ones larger; 0 is for a join that was composed      *)
(* here.  The servers that could let us in share one view of the room,     *)
(* `resident'.                                                             *)
(***************************************************************************)
EXTENDS Integers, Sequences, FiniteSets

CONSTANTS
    Users, Others,      \* users of this server, and of servers whose members are in the room
    Levels, None,
    Unresolvable,       \* those of Others whose server's signing key cannot be had
    Requests, Actor,    \* client requests, and the user who makes each
    Via, Domain, Us,    \* the servers the client names, the room's own, and this one
    MaxCandidates,      \* join_max_candidates
    Templates,          \* the events make_join and make_leave answers carry
    Parallelism,        \* join_parallelism, at least 1
    RaceDeadline,       \* join_race_deadline_seconds is configured
    MaxEvents,          \* bound: state events of the room,
    MaxLost,            \*        answers of the resident server that are lost,
    MaxFaults           \*        and database writes that fail

\* join_candidate_servers(): each named server once, then the room's own.
CandidateServers ==
    LET named == SelectSeq(Append(Via, Domain), LAMBDA s : s # Us)
    IN  SelectSeq([i \in 1 .. Len(named) |-> [s |-> named[i], first |-> \A j \in 1 .. i - 1 : named[j] # named[i]]],
                  LAMBDA c : c.first)

\* cap_join_candidates(): a cap of 0 leaves one.
Capped(n) == IF n < 1 THEN 1 ELSE n
Servers == {CandidateServers[i].s : i \in {i \in DOMAIN CandidateServers : i <= Capped(MaxCandidates)}}

Everyone == Users \union Others
Keys == Everyone \union {Levels}

VARIABLES
    resident, made,     \* the resident's current state, and every event it has had
    wire,               \* PDUs on their way here
    known,              \* persistent_store.rooms has the room
    stored, state,      \* persistent_store.events and .state
    row, invites,       \* persistent_store.memberships and .invites
    rooms,              \* runtime.database.rooms: the members of each entry of this room
    fills,              \* background member-fill tasks: the events each carries
    pc, answer,         \* where each request is; what send_join returned to it
    task, winner,       \* its make_join race: the tasks, and who answered first
    remaining,
    lost, faults,
    crossed             \* history: users of whom two requests, or a request and a PDU, have overlapped

residentVars == <<resident, made, wire>>
storeVars == <<known, stored, state, row, invites, rooms>>
raceVars == <<task, winner, remaining>>
vars == <<residentVars, storeVars, fills, pc, answer, raceVars, lost, faults, crossed>>

Event(key, is, n) == [key |-> key, is |-> is, n |-> n]
Member(key, s) == IF s[key] = None THEN "none" ELSE s[key].is

\* The room as its own server made it: other users are in it, ours are not.
Init ==
    /\ resident = LET order == CHOOSE f \in [Others \union {Levels} -> 1 .. Cardinality(Others) + 1] :
                                \A a, b \in DOMAIN f : f[a] = f[b] => a = b
                  IN  [k \in Keys |-> IF k \in Users THEN None
                                      ELSE Event(k, IF k = Levels THEN "levels" ELSE "join", order[k])]
    /\ made = {resident[k] : k \in Others \union {Levels}}
    /\ wire = {} /\ known = FALSE /\ stored = {}
    /\ state = [k \in Keys |-> None]
    /\ row = [u \in Everyone |-> "none"] /\ invites = {}
    /\ rooms = <<>> /\ fills = {}
    /\ pc = [r \in Requests |-> "new"] /\ answer = [r \in Requests |-> <<>>]
    /\ task = [r \in Requests |-> [s \in Servers |-> "queued"]]
    /\ winner = [r \in Requests |-> None] /\ remaining = [r \in Requests |-> 0]
    /\ lost = 0 /\ faults = 0 /\ crossed = {}

\* The write numbered `fails' is the first to fail; `last' writes in all.
Fails(fails, last) ==
    /\ fails \in 1 .. last + 1
    /\ fails <= last => faults < MaxFaults
    /\ faults' = IF fails <= last THEN faults + 1 ELSE faults

-----------------------------------------------------------------------------
(* The store.                                                              *)

\* store_event_with_state(): an event that is already there changes nothing.
StoreAll(events, old) ==
    [k \in Keys |-> LET new == {e \in events \ stored : e.key = k}
                    IN  IF new = {} THEN old[k] ELSE CHOOSE e \in new : TRUE]

\* filter_verified_send_join_events(): a key resolved for the sender's server,
\* or a sender of our own.
Verified(events) == {e \in events : e.key \notin Unresolvable}

\* The membership rows of the users who joined by these events.
Joined(events) == {e.key : e \in {d \in events : d.is = "join"}}
JoinRows(users, old) == [u \in Everyone |-> IF u \in users THEN "join" ELSE old[u]]

InMemory(u) == rooms # <<>> /\ u \in rooms[1]

\* apply_runtime_membership(): on the first entry find_if() meets.
ApplyRuntimeMembership(u, is) ==
    IF rooms = <<>> \/ is \notin {"join", "leave"} THEN rooms
    ELSE [rooms EXCEPT ![1] = IF is = "join" THEN @ \union {u} ELSE @ \ {u}]

-----------------------------------------------------------------------------
(* The resident server, and what it sends.                                 *)

Participates == \E u \in Users : Member(u, resident) = "join"

NextN == Cardinality(made) + 1

Make(e) == e.n <= MaxEvents /\ resident' = [resident EXCEPT ![e.key] = e] /\ made' = made \union {e}

InFlight(r) == pc[r] \notin {"new", "done", "failed"}

\* A member comes or goes, a user of ours is kicked or an invite withdrawn, or
\* the levels change; we are told if we are in.
Change(k) ==
    LET is == IF k = Levels THEN "levels" ELSE IF k \in Users \/ Member(k, resident) = "join" THEN "leave" ELSE "join"
        e == Event(k, is, NextN)
    IN  /\ k \in Users => Member(k, resident) \in {"join", "invite"}
        /\ Make(e)
        /\ wire' = IF Participates THEN wire \union {e} ELSE wire
        /\ crossed' = crossed \union {Actor[r] : r \in {q \in Requests : Actor[q] = k /\ InFlight(q)}}
        /\ UNCHANGED <<storeVars, fills, pc, answer, raceVars, lost, faults>>

\* ingest_pdu_event(), in a room whose state is held here.
Deliver(e) ==
    /\ e \in wire /\ state[Levels] # None
    /\ wire' = wire \ {e}
    /\ stored' = stored \union {e} /\ state' = StoreAll({e}, state)
    /\ IF e.key = Levels \/ e \in stored THEN UNCHANGED <<row, rooms>>
       ELSE /\ row' = [row EXCEPT ![e.key] = e.is]
            /\ rooms' = ApplyRuntimeMembership(e.key, e.is)
    /\ UNCHANGED <<resident, made, known, invites, fills, pc, answer, raceVars, lost, faults, crossed>>

\* invite_handler.  Writes: 1 the membership row, 2 the invite, 3 the event.
InviteHandler(u, fails) ==
    LET e == Event(u, "invite", NextN)
    IN  /\ Member(u, resident) # "join" /\ Make(e)
        /\ IF row[u] = "join"
           THEN UNCHANGED <<stored, state, row, invites, faults>> /\ fails = 4
           ELSE /\ Fails(fails, 3)
                /\ row' = IF fails > 1 THEN [row EXCEPT ![u] = "invite"] ELSE row
                /\ invites' = IF fails > 2 THEN invites \union {u} ELSE invites
                /\ stored' = IF fails > 3 THEN stored \union {e} ELSE stored
                /\ state' = IF fails > 3 THEN StoreAll({e}, state) ELSE state
        /\ UNCHANGED <<wire, known, rooms, fills, pc, answer, raceVars, lost, crossed>>

-----------------------------------------------------------------------------
(* join_room().                                                            *)

\* Another request of the user is in flight, or a PDU about them.
Crossing(r) ==
    {u \in {Actor[r]} : \/ \E q \in Requests \ {r} : Actor[q] = u /\ InFlight(q)
                       \/ \E e \in wire : e.key = u}

\* The in-memory room lists the user, the rows do not: the entry is erased.
Unstale(u) == IF InMemory(u) /\ row[u] # "join" THEN Tail(rooms) ELSE rooms

OwnJoin(u) == Event(u, "join", 0)

\* A room held here: already a member, or a join that is refused or composed and
\* stored, and sent to nobody.  Writes: 1 the event, 2 the membership row, 3 the
\* device-list changes, 4 the invite metadata, the only one for a member.
JoinKnown(r, fails) ==
    LET u == Actor[r]
    IN  /\ rooms # <<>> /\ (InMemory(u) => row[u] = "join")
        /\ \/ /\ Fails(fails, 4) /\ (InMemory(u) => fails >= 4)
              /\ IF InMemory(u)
                 THEN UNCHANGED <<stored, state, row, rooms>>
                 ELSE /\ stored' = IF fails > 1 THEN stored \union {OwnJoin(u)} ELSE stored
                      /\ state' = IF fails > 1 THEN [state EXCEPT ![u] = OwnJoin(u)] ELSE state
                      /\ row' = IF fails > 2 THEN JoinRows({u}, row) ELSE row
                      /\ rooms' = IF fails > 2 THEN ApplyRuntimeMembership(u, "join") ELSE rooms
              /\ invites' = IF fails > 4 THEN invites \ {u} ELSE invites
              /\ pc' = [pc EXCEPT ![r] = IF fails > 4 THEN "done" ELSE "failed"]
           \/ /\ ~InMemory(u) /\ fails = 5     \* compose_signed_event() refuses it
              /\ pc' = [pc EXCEPT ![r] = "failed"]
              /\ UNCHANGED <<stored, state, row, rooms, invites, faults>>
        /\ UNCHANGED <<residentVars, known, answer, raceVars>>

\* One task per candidate, and the mutex released.
StartRace(r) ==
    /\ IF rooms = <<>> THEN TRUE ELSE InMemory(Actor[r]) /\ row[Actor[r]] # "join"
    /\ rooms' = Unstale(Actor[r])
    /\ pc' = [pc EXCEPT ![r] = IF Servers = {} THEN "failed" ELSE "racing"]
    /\ remaining' = [remaining EXCEPT ![r] = Cardinality(Servers)]
    /\ UNCHANGED <<residentVars, known, stored, state, row, invites, answer, task, winner, faults>>

JoinRoom(r) ==
    /\ pc[r] = "new"
    /\ StartRace(r) \/ \E fails \in 1 .. 5 : JoinKnown(r, fails)
    /\ crossed' = crossed \union Crossing(r)
    /\ UNCHANGED <<fills, lost>>

-----------------------------------------------------------------------------
(* The make_join race.                                                     *)

raceFrame == <<residentVars, storeVars, fills, answer, lost, faults, crossed>>

Calling(r) == {s \in DOMAIN task[r] : task[r][s] = "calling"}
TaskDone(r, s) ==
    /\ task' = [task EXCEPT ![r][s] = "done"]
    /\ remaining' = [remaining EXCEPT ![r] = @ - 1]

\* race_sem->acquire(); a task that finds a winner does not call.
Acquire(r, s) ==
    /\ pc[r] # "new" /\ task[r][s] = "queued" /\ Cardinality(Calling(r)) < Parallelism
    /\ IF winner[r] # None THEN TaskDone(r, s)
       ELSE task' = [task EXCEPT ![r][s] = "calling"] /\ UNCHANGED remaining
    /\ UNCHANGED <<raceFrame, pc, winner>>

\* The call returns, within its own timeout at the latest.
Finish(r, s, ok) ==
    /\ task[r][s] = "calling"
    /\ TaskDone(r, s)
    /\ winner' = IF ok /\ winner[r] = None THEN [winner EXCEPT ![r] = s] ELSE winner
    /\ UNCHANGED <<raceFrame, pc>>

\* The waiter goes on with a winner, or gives up when nobody is left to answer
\* or the deadline of the race has passed.  Tasks still running are orphaned.
RaceOver(r) ==
    /\ pc[r] = "racing"
    /\ winner[r] # None \/ remaining[r] <= 0 \/ RaceDeadline
    /\ pc' = [pc EXCEPT ![r] = IF winner[r] # None THEN "sending" ELSE "failed"]
    /\ UNCHANGED <<raceFrame, raceVars>>

-----------------------------------------------------------------------------
(* send_join, and what is done with the answer.                            *)

\* validate_make_join_event() and validate_make_leave_event(): the template is
\* for this room, by and about this user, dated, and for this membership.
Fits(t, u, is) ==
    /\ t.room_here /\ t.sender = u /\ t.state_key = u
    /\ t.type = "m.room.member" /\ t.dated /\ t.membership = is

\* split_send_join_state_events().
Background(u, events) == {e \in events : e.key \in Everyone \ {u}}
Critical(u, events) == events \ Background(u, events)

\* The answer carries the state before the join and every event that ever
\* authorised it; the other members are verified by the fill.
Outcome(u, e) ==
    LET events == {resident[k] : k \in {k \in Keys : resident[k] # None}}
    IN  [join |-> e, critical |-> Verified(Critical(u, events)),
         auth |-> Verified(made), background |-> Background(u, events)]

SendJoin(r, t) ==
    LET u == Actor[r]
        e == Event(u, "join", NextN)
    IN  /\ pc[r] = "sending" /\ Fits(t, u, "join")
        /\ Make(e)
        /\ \/ /\ pc' = [pc EXCEPT ![r] = "accepted"]
              /\ answer' = [answer EXCEPT ![r] = Outcome(u, e)]
              /\ UNCHANGED lost
           \/ /\ lost < MaxLost /\ lost' = lost + 1
              /\ pc' = [pc EXCEPT ![r] = "failed"]
              /\ UNCHANGED answer
        /\ UNCHANGED <<wire, storeVars, fills, raceVars, faults, crossed>>

\* The template does not fit, the room version is not known here, or the
\* resident refuses the event.
JoinRefused(r) ==
    /\ pc[r] = "sending"
    /\ pc' = [pc EXCEPT ![r] = "failed"]
    /\ UNCHANGED <<residentVars, storeVars, fills, answer, raceVars, lost, faults, crossed>>

\* Each event of the auth chain that is new here also becomes current state,
\* and the chain goes back in time: the oldest of a key is stored last.
AuthChainState(events, old) ==
    [k \in Keys |-> LET new == {e \in events : e.key = k}
                    IN  IF new = {} THEN old[k] ELSE CHOOSE e \in new : \A d \in new : e.n <= d.n]

\* Mutant: a row that is there already is left as it is.
InsertOwnRow(u) == IF row[u] = "none" THEN JoinRows({u}, row) ELSE row

\* store_membership(), then update_membership() where the row exists.
OwnRow(u) == JoinRows({u}, row)

\* Writes, after the ignored ones of the events: 1 the room, 2 the membership
\* row, 3 the invite metadata, 4 the device-list changes.
FinishJoin(r, fails) ==
    LET u == Actor[r]
        got == answer[r]
        chain == got.auth \ (stored \union got.critical)
        ingested == AuthChainState(chain, StoreAll(got.critical, state))
    IN  /\ pc[r] = "accepted"
        /\ Fails(fails, 4) /\ (fails = 1 => ~known)
        /\ stored' = stored \union got.critical \union chain \union (IF fails > 1 THEN {got.join} ELSE {})
        /\ state' = IF fails > 1 THEN [ingested EXCEPT ![u] = got.join] ELSE ingested
        /\ known' = (known \/ fails > 1)
        /\ row' = IF fails > 2 THEN OwnRow(u) ELSE row
        /\ invites' = IF fails > 3 THEN invites \ {u} ELSE invites
        /\ rooms' = IF fails > 3 THEN Append(rooms, {u} \union Joined(got.critical)) ELSE rooms
        /\ fills' = IF fails > 4 /\ got.background # {} THEN fills \union {got.background} ELSE fills
        /\ pc' = [pc EXCEPT ![r] = IF fails > 4 THEN "done" ELSE "failed"]
        /\ answer' = [answer EXCEPT ![r] = <<>>]
        /\ UNCHANGED <<residentVars, raceVars, lost, crossed>>

\* The background task, once its keys are resolved: every member that the
\* answer said had joined is joined here, whatever has been heard since.
Fill(fill) ==
    LET events == Verified(fill)
    IN  /\ fill \in fills /\ fills' = fills \ {fill}
        /\ stored' = stored \union events /\ state' = StoreAll(events, state)
        /\ row' = JoinRows(Joined(events), row)
        /\ rooms' = IF rooms = <<>> THEN rooms ELSE [rooms EXCEPT ![1] = @ \union Joined(events)]
        /\ UNCHANGED <<residentVars, known, invites, pc, answer, raceVars, lost, faults, crossed>>

-----------------------------------------------------------------------------
(* leave_room().                                                           *)

\* A missing row is made again from the member event in the current state.
RecoveredRow(u) == IF row[u] = "none" THEN Member(u, state) ELSE row[u]

LeaveRoom(r) ==
    LET u == Actor[r]
    IN  /\ pc[r] = "new"
        /\ row' = [row EXCEPT ![u] = RecoveredRow(u)]
        /\ pc' = [pc EXCEPT ![r] = IF RecoveredRow(u) \in {"join", "invite"} THEN "leaving" ELSE "done"]
        /\ crossed' = crossed \union Crossing(r)
        /\ UNCHANGED <<residentVars, known, stored, state, invites, rooms, fills, answer, raceVars, lost, faults>>

\* make_leave and send_leave, asked of the server the room id names.
SendLeave(r, t) ==
    /\ pc[r] = "leaving"
    /\ \/ pc' = [pc EXCEPT ![r] = "failed"] /\ UNCHANGED <<resident, made, lost>>
       \/ /\ Fits(t, Actor[r], "leave")
          /\ Make(Event(Actor[r], "leave", NextN))
          /\ \/ pc' = [pc EXCEPT ![r] = "left"] /\ UNCHANGED lost
             \/ lost < MaxLost /\ lost' = lost + 1 /\ pc' = [pc EXCEPT ![r] = "failed"]
    /\ UNCHANGED <<wire, storeVars, fills, answer, raceVars, faults, crossed>>

\* Writes: 1 the membership row, 2 the device-list changes.  The leave event
\* itself is not stored.
FinishLeave(r, fails) ==
    LET u == Actor[r]
    IN  /\ pc[r] = "left"
        /\ Fails(fails, 2)
        /\ row' = IF fails > 1 THEN [row EXCEPT ![u] = "leave"] ELSE row
        /\ rooms' = IF fails > 2 THEN ApplyRuntimeMembership(u, "leave") ELSE rooms
        /\ invites' = IF fails > 2 THEN invites \ {u} ELSE invites
        /\ pc' = [pc EXCEPT ![r] = IF fails > 2 THEN "done" ELSE "failed"]
        /\ UNCHANGED <<residentVars, known, stored, state, fills, answer, raceVars, lost, crossed>>

-----------------------------------------------------------------------------
RaceStep(r) ==
    \/ RaceOver(r)
    \/ \E s \in DOMAIN task[r] : Acquire(r, s) \/ \E ok \in BOOLEAN : Finish(r, s, ok)

NetworkStep(r) == JoinRefused(r) \/ \E t \in Templates : SendJoin(r, t) \/ SendLeave(r, t)

Next ==
    \/ \E k \in Keys : Change(k)
    \/ \E e \in wire : Deliver(e)
    \/ \E u \in Users, fails \in 1 .. 4 : InviteHandler(u, fails)
    \/ \E r \in Requests : JoinRoom(r) \/ LeaveRoom(r) \/ RaceStep(r) \/ NetworkStep(r)
    \/ \E r \in Requests, fails \in 1 .. 5 : FinishJoin(r, fails) \/ FinishLeave(r, fails)
    \/ \E fill \in fills : Fill(fill)

Spec == Init /\ [][Next]_vars

\* Every task of a race has a thread of its own and a call with a timeout.
FairSpec ==
    /\ Spec
    /\ \A r \in Requests :
        /\ WF_vars(RaceOver(r))
        /\ \A s \in Servers : WF_vars(Acquire(r, s)) /\ WF_vars(\E ok \in BOOLEAN : Finish(r, s, ok))

-----------------------------------------------------------------------------
Events == [key : Keys, is : {"levels", "join", "leave", "invite"}, n : 0 .. MaxEvents]

\* Every variable stays within its type.
TypeOK ==
    /\ resident \in [Keys -> Events \union {None}] /\ made \subseteq Events /\ wire \subseteq made
    /\ known \in BOOLEAN /\ stored \subseteq made \union {OwnJoin(u) : u \in Users} /\ state \in [Keys -> stored \union {None}]
    /\ row \in [Everyone -> {"none", "join", "leave", "invite"}] /\ invites \subseteq Users
    /\ \A n \in 1 .. Len(rooms) : rooms[n] \subseteq Everyone
    /\ pc \in [Requests -> {"new", "racing", "sending", "accepted", "leaving", "left", "done", "failed"}]

\* A request that waits for the make_join race is let go: whatever order the
\* candidates answer or fail in, and however few may call at a time, the last
\* decrement or the first success reaches the waiter.
RaceEnds == \A r \in Requests : pc[r] = "racing" ~> pc[r] # "racing"

\* Nothing of a send_join answer enters the store without a verified signature:
\* not in the critical state, not with the auth chain, not by the later fill.
NothingUnverified == \A e \in stored : e.key \in Unresolvable => e.n > Cardinality(Others) + 1

Quiet(u) ==
    /\ \A r \in Requests : Actor[r] = u => ~InFlight(r)
    /\ \A e \in wire : e.key # u

\* Once the requests of a user have run their course, one after the other, and
\* what the resident sent about the user has arrived, this server and the
\* resident agree on whether the user is in the room.  A join to a room that is
\* held here is the exception: it is composed and stored, and nobody is told.
ServersAgree ==
    lost = 0 /\ faults = 0 =>
        \A u \in Users \ crossed : Quiet(u) =>
            \/ (row[u] = "join") = (Member(u, resident) = "join")
            \/ row[u] = "join" /\ state[u] = OwnJoin(u)

\* A join that has returned leaves the levels the resident had when it let us
\* in, or newer ones: "the room is fully usable now" (room_service.cpp:4113).
LevelsAreCurrent ==
    state[Levels] # None => \A e \in stored : e.key = Levels => e.n <= state[Levels].n

=============================================================================
