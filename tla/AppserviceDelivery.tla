------------------------- MODULE AppserviceDelivery -------------------------
(***************************************************************************)
(* dispatch_appservice_delivery(): one event per transaction to an         *)
(* application service, with a durable cursor that holds the next          *)
(* transaction id, the highest delivered stream_ordering and the one       *)
(* transaction in flight.  Each appservice has a cursor of its own; one is *)
(* modelled.                                                               *)
(*                                                                         *)
(* The thread that stored the event delivers it.  A local request does so  *)
(* under runtime.mutex and releases it around the network call only; the   *)
(* thread of a federation PDU calls with no lock held, so its reads and    *)
(* writes of the cursor are steps of their own.  Threads stand for the     *)
(* events they store.                                                      *)
(***************************************************************************)
EXTENDS Integers, FiniteSets

CONSTANTS
    Locals,          \* threads that send an event of a local user
    Remotes,         \* threads that ingest a federation PDU
    None,
    StoreMayFail,    \* whether the backend may refuse to store the cursor
    MaxConcurrent,   \* bound: how many requests are under way at once
    MaxCrashes       \* bound: crashes of the process

Threads == Locals \cup Remotes

VARIABLES
    cursor,       \* the row of appservice_txn_cursor
    lock,         \* runtime.mutex: a local thread, or None
    top,          \* the last stream_ordering allocated
    pos,          \* the stream_ordering of each thread's event, 0 before it is stored
    pc, copy,     \* where each thread is, and its copy of the cursor
    sent,         \* history: the <<txn_id, stream_ordering>> pairs put on the wire
    acked,        \* history: the orderings the appservice has acknowledged
    overwritten,  \* history: a thread has stored its copy over what another stored since
    crashes

vars == <<cursor, lock, top, pos, pc, copy, sent, acked, overwritten, crashes>>

\* find_appservice_txn_cursor() when there is no row.
NoRow == [next |-> 1, delivered |-> 0, txn |-> 0, ord |-> 0]

Init ==
    /\ cursor = NoRow /\ lock = None /\ top = 0
    /\ pos = [t \in Threads |-> 0]
    /\ pc = [t \in Threads |-> "idle"] /\ copy = [t \in Threads |-> NoRow]
    /\ sent = {} /\ acked = {} /\ overwritten = FALSE /\ crashes = 0

Active == {t \in Threads : pc[t] \notin {"idle", "done"}}

\* What store_appservice_txn_cursor() leaves when asked to store c over old.
Stored(old, c) == {c} \cup (IF StoreMayFail THEN {old} ELSE {})

Lockable(t) == t \in Locals => lock \in {None, t}

Finish(t) ==
    /\ pc' = [pc EXCEPT ![t] = "done"] /\ copy' = [copy EXCEPT ![t] = NoRow]
    /\ lock' = IF lock = t THEN None ELSE lock

\* attempt_appservice_batch() up to the network call: the copy goes with it.
Transmit(t, c, where) ==
    /\ pc' = [pc EXCEPT ![t] = where] /\ copy' = [copy EXCEPT ![t] = c]
    /\ sent' = sent \cup {<<c.txn, c.ord>>}
    /\ lock' = IF lock = t THEN None ELSE lock

\* Mutant: the id is taken without moving the counter.
TakePending(c, n) == [c EXCEPT !.txn = c.next, !.ord = n]

\* The event becomes the pending transaction, under a fresh id.
AllocatePending(c, n) == [c EXCEPT !.txn = c.next, !.next = @ + 1, !.ord = n]

\* Whether storing c, made from the row as it was read, undoes what is there now.
Undoes(c, read, now) == now \notin {read, c}

\* The triggering event, once a pending batch has been dealt with and the
\* cursor read as c; the row itself is now, and undone says whether a copy has
\* been stored over a newer row.
Offer(t, c, now, undone) ==
    IF c.txn # 0 \/ pos[t] <= c.delivered
    THEN Finish(t) /\ cursor' = now /\ overwritten' = undone /\ UNCHANGED sent
    ELSE LET pending == AllocatePending(c, pos[t])
         IN  \/ /\ cursor' = pending /\ Transmit(t, pending, "sending")
                /\ overwritten' = (undone \/ Undoes(pending, c, now))
             \/ /\ StoreMayFail
                /\ cursor' = now /\ Finish(t) /\ overwritten' = undone /\ UNCHANGED sent

\* The cursor as read: a pending batch is retried first, as it is.
Consider(t, c) ==
    IF c.txn # 0
    THEN Transmit(t, c, "retrying") /\ UNCHANGED <<cursor, overwritten>>
    ELSE Offer(t, c, cursor, overwritten)

\* The copy with its batch acknowledged.
Acknowledge(c) == [c EXCEPT !.delivered = c.ord, !.txn = 0, !.ord = 0]

-----------------------------------------------------------------------------
\* The event is stored: send_event() and persist_membership_transition() keep
\* runtime.mutex, ingest_pdu_event() has returned.
StoreEvent(t) ==
    /\ pc[t] = "idle" /\ Cardinality(Active) < MaxConcurrent
    /\ Lockable(t)
    /\ top' = top + 1 /\ pos' = [pos EXCEPT ![t] = top + 1]
    /\ lock' = IF t \in Locals THEN t ELSE lock
    /\ pc' = [pc EXCEPT ![t] = "stored"]
    /\ UNCHANGED <<cursor, copy, sent, acked, overwritten, crashes>>

\* A local thread reads the cursor and acts on it in its critical section.
Dispatch(t) ==
    /\ pc[t] = "stored" /\ t \in Locals /\ Lockable(t)
    /\ Consider(t, cursor)
    /\ UNCHANGED <<top, pos, acked, crashes>>

\* A federation thread reads it with no lock held, ...
Read(t) ==
    /\ pc[t] \in {"stored", "retried"} /\ t \in Remotes
    /\ pc' = [pc EXCEPT ![t] = IF pc[t] = "stored" THEN "read" ELSE "reread"]
    /\ copy' = [copy EXCEPT ![t] = cursor]
    /\ UNCHANGED <<cursor, lock, top, pos, sent, acked, overwritten, crashes>>

\* ... and acts on what it read.
DispatchUnlocked(t) ==
    /\ pc[t] \in {"read", "reread"}
    /\ IF pc[t] = "read" THEN Consider(t, copy[t]) ELSE Offer(t, copy[t], cursor, overwritten)
    /\ UNCHANGED <<top, pos, acked, crashes>>

\* send_transaction() fails: the cursor stays pending, nothing newer is tried.
Failed(t) ==
    /\ pc[t] \in {"sending", "retrying"} /\ Lockable(t)
    /\ Finish(t)
    /\ UNCHANGED <<cursor, top, pos, sent, acked, overwritten, crashes>>

\* It succeeds: the copy, acknowledged, is written back; after a retry the
\* cursor is read again and the triggering event offered.
Succeeded(t) ==
    /\ pc[t] \in {"sending", "retrying"} /\ Lockable(t)
    /\ acked' = acked \cup {copy[t].ord}
    /\ \E c \in Stored(cursor, Acknowledge(copy[t])) :
        LET undone == overwritten \/ Undoes(c, copy[t], cursor)
        IN  \/ /\ pc[t] = "sending" /\ Finish(t)
               /\ cursor' = c /\ overwritten' = undone /\ UNCHANGED sent
            \/ pc[t] = "retrying" /\ t \in Locals /\ Offer(t, c, c, undone)
            \/ /\ pc[t] = "retrying" /\ t \in Remotes
               /\ cursor' = c /\ pc' = [pc EXCEPT ![t] = "retried"]
               /\ overwritten' = undone /\ UNCHANGED <<lock, copy, sent>>
    /\ UNCHANGED <<top, pos, crashes>>

\* The process dies; the cursor and the events are durable.
Crash ==
    /\ crashes < MaxCrashes /\ Active # {}
    /\ crashes' = crashes + 1 /\ lock' = None
    /\ pc' = [t \in Threads |-> IF t \in Active THEN "done" ELSE pc[t]]
    /\ copy' = [t \in Threads |-> NoRow]
    /\ UNCHANGED <<cursor, top, pos, sent, acked, overwritten>>

Next ==
    \/ \E t \in Threads : StoreEvent(t) \/ Dispatch(t) \/ Read(t) \/ DispatchUnlocked(t)
                            \/ Failed(t) \/ Succeeded(t)
    \/ Crash

Spec == Init /\ [][Next]_vars

-----------------------------------------------------------------------------
N == Cardinality(Threads)
Cursors == [next : 1 .. (N + 1), delivered : 0 .. N, txn : 0 .. N, ord : 0 .. N]

\* The type of every variable.
TypeOK ==
    /\ cursor \in Cursors /\ lock \in Locals \cup {None}
    /\ top \in 0 .. N /\ pos \in [Threads -> 0 .. N]
    /\ pc \in [Threads -> {"idle", "stored", "read", "sending", "retrying", "retried", "reread", "done"}]
    /\ copy \in [Threads -> Cursors]
    /\ sent \subseteq (1 .. N) \X (1 .. N) /\ acked \subseteq 1 .. N
    /\ overwritten \in BOOLEAN /\ crashes \in 0 .. MaxCrashes

\* docs/database-persistence.md: next_txn_id is never reused.  A transaction
\* id that has been on the wire with one event is never sent with another,
\* whatever fails or crashes between the attempts, until two deliveries overlap
\* in such a way that one stores the copy it took before its network call over
\* what the other has stored in the meantime (attempt_appservice_batch).
TxnIdsNeverReused == ~overwritten => \A x, y \in sent : x[1] = y[1] => x = y

\* The comment on dispatch_appservice_delivery(): a pending batch is retried as
\* it is, so a newer event never overtakes an older, still unacknowledged one.
\* Whatever has been on the wire before is acknowledged and older when a new
\* transaction is put there; the same overlap excepted.
NothingOvertakes ==
    [][~overwritten' => \A x \in sent' \ sent, y \in sent : y[2] \in acked' /\ y[2] < x[2]]_vars

=============================================================================
