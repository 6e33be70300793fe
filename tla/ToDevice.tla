------------------------------ MODULE ToDevice ------------------------------
(***************************************************************************)
(* Send-to-device messages: queued under a stream id by PUT /sendToDevice  *)
(* or by an m.direct_to_device EDU, returned by /sync and by the to_device *)
(* extension of sliding sync until the device presents a token at or past  *)
(* them, and deleted then.                                                 *)
(*                                                                         *)
(* A message is the record of its stream id, its target user and device    *)
(* ("*" for all).  The results of the writes are ignored, so a message may *)
(* be lost, a deletion undone by a restart and the counter resumed below   *)
(* an id it gave out.  Every handler is one critical section of            *)
(* runtime.mutex.                                                          *)
(***************************************************************************)
EXTENDS Integers, FiniteSets, FiniteSetsExt, SequencesExt

CONSTANTS
    Devices, Owner,  \* device ids and the user of each
    Sliding,         \* the devices that use sliding sync
    Senders, Txns,   \* client requests: the sender and the transaction id
    Limit,           \* the limit of the to_device extension
    MaxIds,          \* bound: stream ids allocated
    MaxRestarts,     \* bound: restarts of the process
    MaxFaults        \* bound: writes that fail

VARIABLES
    queue, rows,   \* to_device_messages in memory and in the table
    txns,          \* client_txns: the sends already answered
    nextId, mark,  \* next_sync_stream_id and its persisted watermark
    since, got,    \* each device: the token it holds, the messages it has received
    restarts, faults,
    leftOut,       \* history: what a full page left out, whose position covers it
    rewound        \* history: the counter was resumed below a device's token

seen == <<since, got, leftOut>>
vars == <<queue, rows, txns, nextId, mark, seen, restarts, faults, rewound>>

\* The tokens the devices hold are of this server, or of a release that kept
\* no watermark and had handed out more ids than it could restore.
Init ==
    /\ queue = {} /\ rows = {} /\ txns = {} /\ nextId = 0 /\ mark = 0
    /\ since \in {[d \in Devices |-> 0], [d \in Devices |-> 1]} /\ got = [d \in Devices |-> {}]
    /\ restarts = 0 /\ faults = 0
    /\ leftOut = [d \in Devices |-> {}] 
    /\ rewound = (\E d \in Devices : since[d] > nextId)

\* The writes of a step that may fail, and those that do.
Failing(writes) == {fail \in SUBSET writes : faults + Cardinality(fail) <= MaxFaults}
Writes(fail) == faults' = faults + Cardinality(fail)

\* allocate_sync_stream_id(), n times; a watermark that is not written is
\* made up for by the next one.
Allocate(n, fail) ==
    /\ nextId + n <= MaxIds
    /\ nextId' = nextId + n
    /\ mark' = Max({mark} \cup {nextId + i : i \in {j \in 1 .. n : <<"mark", j>> \notin fail}})

\* enqueue_to_device_message() for each target in turn, from either caller
\* without regard to whether it was stored.
Enqueue(targets, fail) ==
    LET new == {[id |-> nextId + i, to |-> targets[i]] : i \in {j \in DOMAIN targets : <<"insert", j>> \notin fail}}
    IN  /\ Allocate(Len(targets), fail)
        /\ queue' = queue \cup new /\ rows' = rows \cup new

\* The rows a device named in a request stands for: "*" is expanded to the
\* devices the user has.
Expanded(user, device) ==
    IF device = "*" THEN {<<user, d>> : d \in {e \in Devices : Owner[e] = user}} ELSE {<<user, device>>}

\* handle_send_to_device(): nothing when the transaction id was seen.
SendToDevice(sender, txn, user, device) ==
    LET targets == SetToSeq(Expanded(user, device))
    IN  \E fail \in Failing(({"mark", "insert"} \X DOMAIN targets) \cup {<<"txn", 1>>}) :
            /\ <<sender, txn>> \notin txns
            /\ Writes(fail)
            /\ Enqueue(targets, fail)
            /\ txns' = IF <<"txn", 1>> \in fail THEN txns ELSE txns \cup {<<sender, txn>>}
            /\ UNCHANGED <<seen, restarts, rewound>>

\* enqueue_direct_to_device_messages(): "*" is stored as it came.
DirectToDeviceEdu(user, device) ==
    \E fail \in Failing({"mark", "insert"} \X {1}) :
        /\ Writes(fail)
        /\ Enqueue(<<<<user, device>>>>, fail)
        /\ UNCHANGED <<txns, seen, restarts, rewound>>

\* Typing, receipts and the like take stream ids and leave no row.
Surface ==
    \E fail \in Failing({<<"mark", 1>>}) :
        /\ Writes(fail)
        /\ Allocate(1, fail)
        /\ UNCHANGED <<queue, rows, txns, seen, restarts, rewound>>

Addressed(m, d) == m.to \in {<<Owner[d], d>>, <<Owner[d], "*">>}

\* Mutant: a message is acknowledged by the token before it.
DrainedAfter(d, from, upper) ==
    {m \in queue : Addressed(m, d) /\ m.id <= upper /\ m.id > from + 1}

\* drain_to_device_messages(): what is returned ...
Drained(d, from, upper) ==
    {m \in queue : Addressed(m, d) /\ m.id <= upper /\ m.id > from}

\* ... and what the token acknowledges; rows for all devices are never purged.
Acknowledged(d, from, upper) ==
    {m \in queue : Addressed(m, d) /\ m.id <= upper /\ m.id <= from /\ m.to[2] # "*"}

Purge(acknowledged) ==
    /\ queue' = queue \ acknowledged
    /\ \E fail \in Failing(acknowledged) : Writes(fail) /\ rows' = rows \ (acknowledged \ fail)

\* The answer reaches the device, or is lost and asked for again.
Deliver(d, events, rest, upper) ==
    \/ /\ got' = [got EXCEPT ![d] = @ \cup events]
       /\ leftOut' = [leftOut EXCEPT ![d] = @ \cup rest]
       /\ since' = [since EXCEPT ![d] = upper]
    \/ UNCHANGED seen

\* GET /sync: ensure_sync_stream_id_ahead_of(), which moves a counter below
\* the token up to it, then build_to_device_events_array().
Sync(d) ==
    LET upper == Max({nextId, since[d]})
    IN  /\ d \notin Sliding
        /\ nextId' = upper /\ mark' = IF upper > nextId THEN upper ELSE mark
        /\ Purge(Acknowledged(d, since[d], upper))
        /\ Deliver(d, Drained(d, since[d], upper), {}, upper)
        /\ UNCHANGED <<txns, restarts, rewound>>

\* The new position is not written: 500, with the counter moved.
SyncFails(d) ==
    /\ d \notin Sliding
    /\ since[d] > nextId /\ faults < MaxFaults
    /\ nextId' = since[d] /\ faults' = faults + 1
    /\ UNCHANGED <<queue, rows, txns, mark, seen, restarts, rewound>>

\* The first n messages in the order of the store.
FirstOf(n, messages) ==
    {m \in messages : Cardinality({e \in messages : e.id < m.id}) < n}

\* build_to_device(): the extension returns Limit messages and the current position.
SlidingSync(d) ==
    LET drained == Drained(d, since[d], nextId)
        page == FirstOf(Limit, drained)
    IN  /\ d \in Sliding
        /\ Purge(Acknowledged(d, since[d], nextId))
        /\ Deliver(d, page, drained \ page, nextId)
        /\ UNCHANGED <<txns, nextId, mark, restarts, rewound>>

\* restore_sync_stream_id().
Restored == Max({mark} \cup {m.id : m \in rows})

Restart ==
    \E fail \in Failing({"mark"}) :
        /\ restarts < MaxRestarts /\ restarts' = restarts + 1
        /\ Writes(fail)
        /\ queue' = rows
        /\ nextId' = Restored /\ mark' = IF fail = {} THEN Restored ELSE mark
        /\ rewound' = (rewound \/ \E d \in Devices : since[d] > Restored)
        /\ UNCHANGED <<rows, txns, seen>>

Next ==
    \/ \E s \in Senders, t \in Txns, u \in {Owner[d] : d \in Devices}, d \in Devices \cup {"*"} :
          SendToDevice(s, t, u, d)
    \/ \E u \in {Owner[d] : d \in Devices}, d \in Devices \cup {"*"} : DirectToDeviceEdu(u, d)
    \/ Surface
    \/ \E d \in Devices : Sync(d) \/ SyncFails(d) \/ SlidingSync(d)
    \/ Restart

Spec == Init /\ [][Next]_vars

-----------------------------------------------------------------------------

TypeOK ==
    /\ queue \subseteq rows
    /\ \A m \in rows : m.id \in 1..nextId
    /\ nextId \in 0..MaxIds /\ mark \in 0..nextId /\ \A d \in Devices : since[d] \in 0..MaxIds

\* Only a message its device has received is ever removed: "next_batch cannot
\* acknowledge a room key that was never put in the /sync response"
\* (drain_to_device_messages), across lost answers, failed deletions and
\* restarts.  Left out are the messages past the limit of a sliding-sync
\* page, whose next_batch acknowledges them all the same, and what is sent
\* after a restart has resumed the counter below a device's token, for want
\* of the watermark.
RemovedOnlyIfReceived ==
    [][~rewound => \A m \in queue \ queue' :
           \E d \in Devices : Addressed(m, d) /\ m \in got[d] \cup leftOut[d]]_vars

\* What a device is about to be given is new to it: a token it holds covers
\* every message it received, also when a failed deletion brings rows back,
\* as long as no restart has resumed the counter below a token.
NeverDeliveredTwice ==
    ~rewound => \A d \in Devices : Drained(d, since[d], nextId) \cap got[d] = {}

=============================================================================
