---------------------------- MODULE EventStream ----------------------------
(***************************************************************************)
(* The timeline of the homeserver: how an event gets its stream_ordering,  *)
(* is committed to the database, mirrored into the in-memory store and     *)
(* announced to the sync long-polls, and what a client that follows        *)
(* next_batch tokens receives.                                             *)
(*                                                                         *)
(* Federation PDUs run ingest_pdu_event(): the two stream positions are    *)
(* reserved under runtime.mutex, then, holding the stripe of the room,     *)
(* the event is prepared under runtime.mutex, committed with the mutex     *)
(* released, and applied under it again.  Events composed here, and the    *)
(* send_join family, do all of that in one critical section of             *)
(* runtime.mutex and never take a stripe.  A critical section of           *)
(* runtime.mutex is one action here; RuntimeLock models the mutex.         *)
(*                                                                         *)
(* An event is a model value; KeyOf gives the (room, type, state_key) row  *)
(* of current_state it writes.  The memberships table is abstracted to the *)
(* event whose membership it records for a key.                            *)
(***************************************************************************)
EXTENDS Integers

CONSTANTS
    Ingests,       \* threads that deliver an inbound PDU to pdu_sink
    Locals,        \* requests that store an event under runtime.mutex alone
    Clients,       \* devices that call /sync
    Events, Rooms, Stripes, Keys,
    EventOf,       \* the event each Ingest and each Local stores
    RoomOf, StripeOf,
    KeyOf,         \* the current_state row of a state event, NoKey for a message
    MemberKeys,    \* the rows of type m.room.member
    NoKey, None,
    Faults,        \* backend writes that may fail: "commit", "membership", "watermark"
    MaxOrderings,  \* bound: stream orderings allocated
    MaxSurfaces,   \* bound: sync-surface updates (typing, to-device, ...)
    MaxRestarts    \* bound: restarts of the process

Writers == Ingests \cup Locals

ASSUME StreamAssumption ==
    /\ Ingests \cap Locals = {}
    /\ EventOf \in [Writers -> Events] /\ RoomOf \in [Events -> Rooms]
    /\ StripeOf \in [Rooms -> Stripes] /\ KeyOf \in [Events -> Keys \cup {NoKey}]
    /\ NoKey \notin Keys /\ MemberKeys \subseteq Keys /\ None \notin Events \cup Ingests
    /\ \A e, f \in Events : KeyOf[e] = KeyOf[f] /\ KeyOf[e] # NoKey => RoomOf[e] = RoomOf[f]
    /\ Faults \subseteq {"commit", "membership", "watermark"}
    /\ MaxOrderings \in Nat /\ MaxSurfaces \in Nat /\ MaxRestarts \in Nat

VARIABLES
    next, syncId,       \* next_stream_ordering, next_sync_stream_id
    eventMark, syncMark,\* the two persisted watermarks
    dbOrd, memOrd,      \* stream_ordering of each event in the database and in memory, 0 if absent
    dbState, memState,  \* current_state in the database and in memory
    member,             \* the memberships table
    notified,           \* SyncNotifier: stream_ordering_ and sync_stream_id_
    stripe,             \* room_stripe_mutexes: the ingest that holds each, or None
    pc, ord, sid,       \* where each writer is, and the positions an ingest reserved
    row,                \* what its prepared statement does to current_state
    since, sinceSync,   \* the token each client holds
    got,                \* the events each client has received
    waiting,            \* the client is parked in wait_for_change()
    crossed,            \* history: the keys stored between the commit and the application of a PDU
    split,              \* history: the keys whose membership row a failure or a crash left behind
    behind,             \* history: the process was started with a watermark behind its counter
    surfaces, restarts

ingestVars == <<stripe, pc, ord, sid, row>>
storeVars == <<dbOrd, memOrd, dbState, memState, member>>
counterVars == <<next, syncId, eventMark, syncMark>>
clientVars == <<since, sinceSync, got, waiting>>
history == <<crossed, split, behind>>
vars == <<counterVars, storeVars, notified, ingestVars, clientVars, history, surfaces, restarts>>

Init ==
    /\ next = 1 /\ syncId = 0 /\ eventMark = 0 /\ syncMark = 0
    /\ dbOrd = [e \in Events |-> 0] /\ memOrd = dbOrd
    /\ dbState = [k \in Keys |-> None] /\ memState = dbState
    /\ member = [k \in MemberKeys |-> None]
    /\ notified = [ord |-> 0, sync |-> 0]
    /\ stripe = [s \in Stripes |-> None]
    /\ pc = [w \in Writers |-> "idle"]
    /\ ord = [i \in Ingests |-> 0] /\ sid = [i \in Ingests |-> 0]
    /\ row = [i \in Ingests |-> "none"]
    /\ since = [c \in Clients |-> 0] /\ sinceSync = [c \in Clients |-> 0]
    /\ got = [c \in Clients |-> {}] /\ waiting = [c \in Clients |-> FALSE]
    /\ crossed = {} /\ split = {} /\ behind = FALSE
    /\ surfaces = 0 /\ restarts = 0

Larger(a, b) == IF a > b THEN a ELSE b

\* What a watermark may hold after n attempts, the last of them to store new,
\* over old: the callers ignore a failed write.
Marked(old, new, n) ==
    {new} \cup (IF "watermark" \in Faults THEN {old} \cup ((new - n + 1) .. new) ELSE {})

StripeFor(i) == StripeOf[RoomOf[EventOf[i]]]

\* n calls of allocate_stream_ordering() in a row.
AllocateOrderings(n) ==
    /\ next + n <= MaxOrderings + 1
    /\ next' = next + n
    /\ eventMark' \in Marked(eventMark, next + n - 1, n)

AllocateSyncId ==
    /\ syncId' = syncId + 1
    /\ syncMark' \in Marked(syncMark, syncId + 1, 1)

\* SyncNotifier::publish().
Publish(o, s) ==
    notified' = [ord |-> Larger(notified.ord, o), sync |-> Larger(notified.sync, s)]

\* The current_state row a prepared update writes: chosen from the rows in
\* memory, executed later against the rows in the database.
RowFor(e) ==
    CASE KeyOf[e] = NoKey -> "none"
      [] KeyOf[e] # NoKey /\ memState[KeyOf[e]] = None -> "insert"
      [] OTHER -> "update"

\* The primary keys of events and of current_state.
Conflicts(e, r) == dbOrd[e] # 0 \/ (r = "insert" /\ dbState[KeyOf[e]] # None)

\* The row of e, if an ingest has committed one there and not yet applied it.
Crossed(e) == {k \in Keys : k = KeyOf[e] /\ \E i \in Ingests : pc[i] = "committed" /\ KeyOf[EventOf[i]] = k}

\* commit_persistent_transaction() of an event and its current_state row.
CommitRows(e, o, r) ==
    /\ dbOrd' = [dbOrd EXCEPT ![e] = o]
    /\ dbState' = IF r = "none" THEN dbState ELSE [dbState EXCEPT ![KeyOf[e]] = e]

\* Mutant: takes the latest ordering instead of the reserved one.
ApplyLatest(e, o) ==
    IF memOrd[e] # 0
    THEN UNCHANGED <<memOrd, memState>>
    ELSE /\ memOrd' = [memOrd EXCEPT ![e] = next - 1]
         /\ memState' = IF KeyOf[e] = NoKey THEN memState ELSE [memState EXCEPT ![KeyOf[e]] = e]

\* apply_store_event_with_state().
ApplyRows(e, o) ==
    IF memOrd[e] # 0
    THEN UNCHANGED <<memOrd, memState>>
    ELSE /\ memOrd' = [memOrd EXCEPT ![e] = o]
         /\ memState' = IF KeyOf[e] = NoKey THEN memState ELSE [memState EXCEPT ![KeyOf[e]] = e]

UpsertMembership(e) ==
    IF KeyOf[e] \in MemberKeys
    THEN member' = [member EXCEPT ![KeyOf[e]] = e] /\ split' = split \ {KeyOf[e]}
    ELSE UNCHANGED <<member, split>>

\* The write of a membership row fails, and leaves the row as it was.
MembershipFails(e) ==
    /\ "membership" \in Faults /\ KeyOf[e] \in MemberKeys
    /\ UNCHANGED member /\ split' = split \cup {KeyOf[e]}

\* The locals of a call that returns.
Return(i, how) ==
    /\ pc' = [pc EXCEPT ![i] = how]
    /\ ord' = [ord EXCEPT ![i] = 0] /\ sid' = [sid EXCEPT ![i] = 0]
    /\ row' = [row EXCEPT ![i] = "none"]

\* Leaving ingest_pdu_event() without having stored the event.
Reject(i) == Return(i, "failed") /\ stripe' = [stripe EXCEPT ![StripeFor(i)] = None]

-----------------------------------------------------------------------------
(* ingest_pdu_event(); an origin whose PDU failed may send it again.       *)

Reserve(i) ==
    /\ pc[i] \in {"idle", "failed"}
    /\ AllocateOrderings(1) /\ AllocateSyncId
    /\ pc' = [pc EXCEPT ![i] = "reserved"]
    /\ ord' = [ord EXCEPT ![i] = next] /\ sid' = [sid EXCEPT ![i] = syncId + 1]
    /\ UNCHANGED <<storeVars, notified, stripe, row, clientVars, history, surfaces, restarts>>

\* Waits for the stripe, then authorises and prepares under runtime.mutex.
Prepare(i) ==
    /\ pc[i] = "reserved" /\ stripe[StripeFor(i)] = None
    /\ \/ Reject(i)    \* refused by the auth rules, by its hash, or by prepare
       \/ /\ memOrd[EventOf[i]] = 0
          /\ stripe' = [stripe EXCEPT ![StripeFor(i)] = i]
          /\ row' = [row EXCEPT ![i] = RowFor(EventOf[i])]
          /\ pc' = [pc EXCEPT ![i] = "prepared"]
          /\ UNCHANGED <<ord, sid>>
    /\ UNCHANGED <<counterVars, storeVars, notified, clientVars, history, surfaces, restarts>>

\* The backend transaction, with runtime.mutex released.
Commit(i) ==
    LET e == EventOf[i]
    IN  /\ pc[i] = "prepared"
        /\ \/ /\ ~Conflicts(e, row[i])
              /\ CommitRows(e, ord[i], row[i])
              /\ pc' = [pc EXCEPT ![i] = "committed"]
              /\ UNCHANGED <<stripe, ord, sid, row>>
           \/ /\ Conflicts(e, row[i]) \/ "commit" \in Faults
              /\ Reject(i)
              /\ UNCHANGED <<dbOrd, dbState>>
        /\ UNCHANGED <<counterVars, memOrd, memState, member, notified, clientVars, history, surfaces, restarts>>

\* Mirrors the rows and the membership; a failed membership write is logged.
Apply(i) ==
    /\ pc[i] = "committed"
    /\ ApplyRows(EventOf[i], ord[i])
    /\ UpsertMembership(EventOf[i]) \/ MembershipFails(EventOf[i])
    /\ stripe' = [stripe EXCEPT ![StripeFor(i)] = None]
    /\ pc' = [pc EXCEPT ![i] = "applied"]
    /\ UNCHANGED <<counterVars, dbOrd, dbState, notified, ord, sid, row, clientVars, crossed, behind, surfaces,
                   restarts>>

\* Mutant: does not publish.
AnnounceNothing(i) ==
    /\ pc[i] = "applied"
    /\ Return(i, "done")
    /\ UNCHANGED <<counterVars, storeVars, notified, stripe, clientVars, history, surfaces, restarts>>

\* pdu_sink, once ingest_pdu_event() has returned "accepted".
Announce(i) ==
    /\ pc[i] = "applied"
    /\ Publish(ord[i], sid[i])
    /\ Return(i, "done")
    /\ UNCHANGED <<counterVars, storeVars, stripe, clientVars, history, surfaces, restarts>>

-----------------------------------------------------------------------------
(* Requests that store an event in one critical section of runtime.mutex.  *)

\* store_event_with_state(): prepare, commit and apply.
StoreEvent(e) ==
    /\ memOrd[e] = 0 /\ ~Conflicts(e, RowFor(e))
    /\ CommitRows(e, next, RowFor(e)) /\ ApplyRows(e, next)
    /\ crossed' = crossed \cup Crossed(e)

StoreRefused(e) == memOrd[e] # 0 \/ Conflicts(e, RowFor(e)) \/ "commit" \in Faults

Finish(l, how) == pc' = [pc EXCEPT ![l] = how]

\* The store fails after the ordering was allocated: nothing is published.
StoreFails(l) ==
    /\ pc[l] = "idle" /\ StoreRefused(EventOf[l])
    /\ AllocateOrderings(1) /\ UNCHANGED <<syncId, syncMark>>
    /\ Finish(l, "failed")
    /\ UNCHANGED <<storeVars, notified, stripe, ord, sid, row, clientVars, history, surfaces, restarts>>

\* send_event(): a message or a state event other than a membership.
SendEvent(l) ==
    /\ pc[l] = "idle" /\ KeyOf[EventOf[l]] \notin MemberKeys
    /\ AllocateOrderings(1) /\ UNCHANGED <<syncId, syncMark>>
    /\ StoreEvent(EventOf[l])
    /\ Publish(next, syncId)
    /\ Finish(l, "done")
    /\ UNCHANGED <<member, stripe, ord, sid, row, clientVars, split, behind, surfaces, restarts>>

\* persist_membership_transition(): the membership has a position of its own.
PersistMembership(l) ==
    LET e == EventOf[l]
    IN  /\ pc[l] = "idle" /\ KeyOf[e] \in MemberKeys
        /\ AllocateOrderings(2) /\ StoreEvent(e)
        /\ \/ /\ UpsertMembership(e) /\ AllocateSyncId
              /\ Publish(next + 1, syncId + 1)
              /\ Finish(l, "done")
           \/ /\ MembershipFails(e)
              /\ UNCHANGED <<syncId, syncMark, notified>>
              /\ Finish(l, "failed")
        /\ UNCHANGED <<stripe, ord, sid, row, clientVars, behind, surfaces, restarts>>

\* membership_acceptor: send_join, send_leave and send_knock of a remote server.
AcceptMembership(l) ==
    LET e == EventOf[l]
    IN  /\ pc[l] = "idle" /\ KeyOf[e] \in MemberKeys
        /\ AllocateOrderings(1) /\ StoreEvent(e)
        /\ \/ /\ UpsertMembership(e) /\ AllocateSyncId
              /\ Publish(next, syncId + 1)
              /\ Finish(l, "done")
           \/ /\ MembershipFails(e)
              /\ UNCHANGED <<syncId, syncMark, notified>>
              /\ Finish(l, "failed")
        /\ UNCHANGED <<stripe, ord, sid, row, clientVars, behind, surfaces, restarts>>

\* push_to_device_message() and the other sync surfaces.
Surface ==
    /\ surfaces < MaxSurfaces
    /\ surfaces' = surfaces + 1
    /\ AllocateSyncId /\ UNCHANGED <<next, eventMark>>
    /\ Publish(next - 1, syncId + 1)
    /\ UNCHANGED <<storeVars, ingestVars, clientVars, history, restarts>>

-----------------------------------------------------------------------------
(* GET /sync.                                                              *)

\* ensure_sync_stream_id_ahead_of(): a token ahead of the counter moves it.
EnsureAhead(c) ==
    IF sinceSync[c] <= syncId
    THEN UNCHANGED <<syncId, syncMark>>
    ELSE syncId' = sinceSync[c] /\ syncMark' = sinceSync[c]

\* "is anything past since visible?"
HasAdvance(c) == next - 1 > since[c] \/ syncId > sinceSync[c]

EventsAfter(c) == {e \in Events : memOrd[e] # 0 /\ (since[c] > 0 => memOrd[e] > since[c])}

TokenOrdering == next - 1

\* sync_json() answers with the events past the token and a new next_batch.
Respond(c) ==
    /\ got' = [got EXCEPT ![c] = @ \cup EventsAfter(c)]
    /\ since' = [since EXCEPT ![c] = TokenOrdering]
    /\ sinceSync' = [sinceSync EXCEPT ![c] = Larger(@, syncId)]
    /\ waiting' = [waiting EXCEPT ![c] = FALSE]
    /\ EnsureAhead(c)

Park(c) ==
    /\ waiting' = [waiting EXCEPT ![c] = TRUE]
    /\ EnsureAhead(c)
    /\ UNCHANGED <<since, sinceSync, got>>

SyncFrame == UNCHANGED <<next, eventMark, storeVars, notified, ingestVars, history, surfaces, restarts>>

\* A request with a timeout: answered at once, or parked on the notifier.
Poll(c) ==
    /\ ~waiting[c]
    /\ IF HasAdvance(c) THEN Respond(c) ELSE Park(c)
    /\ SyncFrame

\* wait_for_change() returns true and the handler runs again with can_wait.
Wake(c) ==
    /\ waiting[c]
    /\ notified.ord > since[c] \/ notified.sync > sinceSync[c]
    /\ IF HasAdvance(c) THEN Respond(c) ELSE Park(c)
    /\ SyncFrame

\* The deadline passes, or the request had no timeout: can_wait is false.
Expire(c) == Respond(c) /\ SyncFrame

\* The counter cannot be moved up to the token: the request is answered 500.
SyncRefused(c) ==
    /\ ~waiting[c] /\ sinceSync[c] > syncId /\ "watermark" \in Faults
    /\ syncId' = sinceSync[c]
    /\ UNCHANGED <<syncMark, clientVars>>
    /\ SyncFrame

-----------------------------------------------------------------------------
\* hydrate_local_database() and restore_sync_stream_id(): one past the
\* largest ordering among the rows and the watermark; the notifier is seeded.
RestoreCounters ==
    /\ \E top \in {dbOrd[e] : e \in Events} \cup {eventMark} :
          /\ eventMark <= top /\ \A e \in Events : dbOrd[e] <= top
          /\ next' = top + 1
          /\ eventMark' \in Marked(eventMark, top, 1)
          /\ notified' = [ord |-> top, sync |-> syncMark]
    /\ syncId' = syncMark

\* The keys of the rows that are committed and will never be applied.
Unapplied == {KeyOf[EventOf[i]] : i \in {j \in Ingests : pc[j] = "committed"}}

\* The process is killed and started again: the store is loaded from the
\* database.  Nobody has been told of a PDU still in flight.
Restart ==
    /\ restarts < MaxRestarts
    /\ restarts' = restarts + 1
    /\ memOrd' = dbOrd /\ memState' = dbState
    /\ RestoreCounters /\ UNCHANGED syncMark
    /\ split' = split \cup (MemberKeys \cap (crossed \cup Unapplied)) /\ crossed' = {}
    /\ behind' = (behind \/ eventMark # next - 1 \/ syncMark # syncId)
    /\ stripe' = [s \in Stripes |-> None]
    /\ ord' = [i \in Ingests |-> 0] /\ sid' = [i \in Ingests |-> 0]
    /\ row' = [i \in Ingests |-> "none"]
    /\ pc' = [w \in Writers |->
                IF w \in Ingests /\ pc[w] \notin {"idle", "done"} THEN "failed" ELSE pc[w]]
    /\ waiting' = [c \in Clients |-> FALSE]
    /\ UNCHANGED <<dbOrd, dbState, member, since, sinceSync, got, surfaces>>

IngestStep(i) == Prepare(i) \/ Commit(i) \/ Apply(i) \/ Announce(i)

LocalStep(l) == StoreFails(l) \/ SendEvent(l) \/ PersistMembership(l) \/ AcceptMembership(l)

Next ==
    \/ \E i \in Ingests : Reserve(i) \/ IngestStep(i)
    \/ \E l \in Locals : LocalStep(l)
    \/ Surface
    \/ \E c \in Clients : Poll(c) \/ Wake(c) \/ Expire(c) \/ SyncRefused(c)
    \/ Restart

Spec == Init /\ [][Next]_vars

\* A pool thread that has reserved its positions runs on, and a sync thread
\* whose condition holds is woken.  Nothing obliges an origin to send, a
\* client to poll, or a deadline to pass.
Fairness ==
    /\ \A i \in Ingests : WF_vars(IngestStep(i))
    /\ \A c \in Clients : WF_vars(Wake(c))

FairSpec == Spec /\ Fairness

-----------------------------------------------------------------------------
Positions == 0 .. MaxOrderings
InFlight == {i \in Ingests : pc[i] \in {"reserved", "prepared", "committed"}}

\* The type of every variable.
TypeOK ==
    /\ next \in 1 .. (MaxOrderings + 1) /\ eventMark \in Positions
    /\ syncId \in Nat /\ syncMark \in Nat
    /\ dbOrd \in [Events -> Positions] /\ memOrd \in [Events -> Positions]
    /\ dbState \in [Keys -> Events \cup {None}] /\ memState \in [Keys -> Events \cup {None}]
    /\ member \in [MemberKeys -> Events \cup {None}]
    /\ notified \in [ord : Positions, sync : Nat]
    /\ stripe \in [Stripes -> Ingests \cup {None}]
    /\ pc \in [Writers -> {"idle", "reserved", "prepared", "committed", "applied", "done", "failed"}]
    /\ ord \in [Ingests -> Positions] /\ sid \in [Ingests -> Nat]
    /\ row \in [Ingests -> {"none", "insert", "update"}]
    /\ since \in [Clients -> Positions] /\ sinceSync \in [Clients -> Nat]
    /\ got \in [Clients -> SUBSET Events] /\ waiting \in [Clients -> BOOLEAN]
    /\ crossed \subseteq Keys /\ split \subseteq MemberKeys /\ behind \in BOOLEAN
    /\ surfaces \in 0 .. MaxSurfaces /\ restarts \in 0 .. MaxRestarts

\* Two stored events never share a stream_ordering, and a position an ingest
\* has reserved is no stored event's and no other ingest's: not even after a
\* restart that rebuilt the counter from the rows because a watermark write
\* had failed (allocate_stream_ordering, hydrate_local_database).
OrderingsUnique ==
    /\ \A e, f \in Events : dbOrd[e] = dbOrd[f] /\ dbOrd[e] # 0 => e = f
    /\ \A i \in InFlight : \A e \in Events : dbOrd[e] = ord[i] => e = EventOf[i] /\ pc[i] = "committed"
    /\ \A i, j \in InFlight : ord[i] = ord[j] => i = j

\* What is in memory is in the database with the same ordering, and a committed
\* event is missing from memory only while the thread that committed it holds
\* the room's stripe on its way to apply it (commit_persistent_transaction and
\* apply_store_event_with_state run in two critical sections).
EventsMirrored ==
    \A e \in Events :
        /\ memOrd[e] # 0 => memOrd[e] = dbOrd[e]
        /\ dbOrd[e] # 0 /\ memOrd[e] = 0 =>
              \E i \in Ingests : /\ EventOf[i] = e /\ pc[i] = "committed" /\ ord[i] = dbOrd[e]
                                /\ stripe[StripeFor(i)] = i

\* What is in memory as the current state is what is in the database, but for a
\* PDU that is committed and about to be applied.  The exception is a row that a
\* request without a stripe wrote in between: the PDU is applied over it, and
\* memory keeps one event and the database the other until the next start.
StateMirrored ==
    \A k \in Keys \ crossed :
        \/ memState[k] = dbState[k]
        \/ \E i \in Ingests : pc[i] = "committed" /\ KeyOf[EventOf[i]] = k /\ dbState[k] = EventOf[i]

\* No client holds a token ahead of the stream, restarts included, unless the
\* process was started while the last write of a watermark had failed: what
\* persisting the watermark at every allocation is for.
TokenNotAhead == ~behind => \A c \in Clients : since[c] < next /\ sinceSync[c] <= syncId

\* The memberships table agrees with the m.room.member state in memory,
\* whatever the order in which PDUs and local membership changes of one user
\* interleave, unless the last write of the row failed, or the process was
\* killed between the commit of a PDU and its row or after a store had crossed
\* with a PDU of the user.  The next write of the row mends it.
MembershipFollowsState == \A k \in MemberKeys \ split : member[k] = memState[k]

\* The orderings are unique, events and current state in memory are those of the
\* database, the memberships follow the state, and no token is ahead of the
\* stream: across the two critical sections of a commit, crashes and failed
\* writes, but for the keys and starts that a history variable names.
StreamIsSound ==
    OrderingsUnique /\ EventsMirrored /\ StateMirrored /\ MembershipFollowsState /\ TokenNotAhead

\* w has stored its event and has not reported a failure.
Stored(w) == pc[w] \in {"applied", "done"}

\* A parked client is answered, without its deadline passing, once an event
\* past its token is in memory, unless the request that stored it failed half
\* way: no wake-up is lost between Apply and Announce, or between the
\* handler's check and wait_for_change().
WakesForNews ==
    \A c \in Clients :
        (waiting[c] /\ \E w \in Writers : Stored(w) /\ memOrd[EventOf[w]] > since[c]) ~> ~waiting[c]

\* An ingest that has reserved its positions reports an outcome: waiting for
\* the stripe with no lock held cannot last.
IngestFinishes == \A i \in Ingests : pc[i] = "reserved" ~> pc[i] \in {"done", "failed"}

\* docs/architecture.md: a token's event_ordering is the last published
\* position.  An event at or below the token a client holds has then been
\* delivered to it: sync_json() will never offer it again.
NothingBehindTheToken ==
    \A c \in Clients, e \in Events : memOrd[e] # 0 /\ memOrd[e] <= since[c] => e \in got[c]

=============================================================================
