---------------------------- MODULE PushDelivery ----------------------------
(***************************************************************************)
(* Push notifications: the pushers clients register (POST /pushers/set),   *)
(* the history GET /notifications pages through, the deliveries an event   *)
(* gives rise to (build_pending_push_deliveries), and the background tasks *)
(* that carry them to the gateways while other requests go on              *)
(* (dispatch_push_deliveries, run_pending_push_deliveries).                *)
(*                                                                         *)
(* Whether the push rules notify a recipient is the algorithm of module    *)
(* PushRules; here it is a choice.  A pusher is a user, a key (its app_id  *)
(* and pushkey) and the gateway it names.                                  *)
(***************************************************************************)
EXTENDS Integers, Sequences, FiniteSets, SequencesExt

CONSTANTS
    Members,      \* the room's members, in the order it keeps them
    Invitee,      \* a local user who is not a member
    Remote,       \* the members of other servers
    Ignores,      \* [user |-> the users on their m.ignored_user_list]
    Keys, Gateways,
    Enabled,      \* server.push.enabled
    MaxPushers,   \* k_max_pushers_per_delivery
    Retention,    \* k_max_notifications_per_user
    Capacity,     \* k_max_in_flight_push_deliveries
    Limit,        \* of a page of /notifications
    MaxEvents, MaxSets, MaxFaults, MaxLost, MaxRestarts

Local == (Range(Members) \union {Invitee}) \ Remote

VARIABLES
    pushers,      \* store.pushers: sequence of [user, key, gateway]
    history,      \* store.notifications: [user |-> set of orderings]
    rows,         \* the notifications table
    last,         \* the last stream ordering given
    tasks,        \* the background tasks: [id |-> deliveries still to make]
    inFlight,     \* push_delivery_in_flight_
    lost,         \* the places in inFlight that exceptions left taken, since the start
    dropped,      \* events whose deliveries were dropped at capacity
    reader,       \* a client paging through its notifications; `since' are those
                  \* it found at the start and that are still there
    sets, faults, restarts

vars == <<pushers, history, rows, last, tasks, inFlight, lost, dropped, reader, sets, faults, restarts>>

FirstOf(s, n) == SubSeq(s, 1, IF n < Len(s) THEN n ELSE Len(s))

----------------------------------------------------------------------------
(* Pushers. *)

Position(user, key) == {i \in DOMAIN pushers : pushers[i].user = user /\ pushers[i].key = key}

store_pusher(p) ==
    LET at == Position(p.user, p.key)
    IN IF at = {} THEN Append(pushers, p) ELSE [i \in DOMAIN pushers |-> IF i \in at THEN p ELSE pushers[i]]

delete_pusher(list, user, key) == SelectSeq(list, LAMBDA p : p.user # user \/ p.key # key)

list_pushers_for_user(user) == SelectSeq(pushers, LAMBDA p : p.user = user)

(* POST /pushers/set with a kind: the pusher is stored first, and then,    *)
(* unless append is set, the other users' pushers of the same key go; of   *)
(* these any whose delete fails (`kept') stays.                            *)
SetPusher(user, key, gateway, append, kept) ==
    LET stored == store_pusher([user |-> user, key |-> key, gateway |-> gateway])
        removes(p) == ~append /\ p.user # user /\ p.key = key /\ p.user \notin kept
    IN /\ sets < MaxSets /\ sets' = sets + 1
       /\ faults + Cardinality(kept) <= MaxFaults /\ faults' = faults + Cardinality(kept)
       /\ kept \subseteq (IF append THEN {} ELSE {u \in Local \ {user} : Position(u, key) # {}})
       /\ pushers' = SelectSeq(stored, LAMBDA p : ~removes(p))
       /\ UNCHANGED <<history, rows, last, tasks, inFlight, lost, dropped, reader, restarts>>

(* POST /pushers/set with a null kind. *)
DeletePusher(user, key) ==
    /\ sets < MaxSets /\ sets' = sets + 1
    /\ Position(user, key) # {}
    /\ pushers' = delete_pusher(pushers, user, key)
    /\ UNCHANGED <<history, rows, last, tasks, inFlight, lost, dropped, reader, faults, restarts>>

----------------------------------------------------------------------------
(* Events. *)

(* An ignored sender's messages and invitations are withheld; the other      *)
(* state events are not.                                                   *)
is_delivery_suppressed(user, sender, kind, target) ==
    /\ sender \in Ignores[user]
    /\ kind = "message" \/ (kind = "invite" /\ target = user)

(* The local users an event may notify: the members, and the target of a   *)
(* membership event who is not one yet.                                    *)
Recipients(sender, kind, target) ==
    LET all == IF kind = "message" \/ target \in Range(Members) THEN Members ELSE Append(Members, target)
    IN SelectSeq(all, LAMBDA u :
           u # sender /\ u \in Local /\ ~is_delivery_suppressed(u, sender, kind, target))

(* The oldest rows beyond the retention bound. *)
Stale(S) == {n \in S : Cardinality({m \in S : m > n}) >= Retention}

(* A notification per user of `notified'; for the users of `unwritten' the *)
(* row cannot be written, and for those of `unpruned' the stale rows       *)
(* cannot be deleted, though the memory forgets them.                      *)
store_notification(notified, unwritten, unpruned) ==
    LET written == notified \ unwritten
        added == [u \in Local |-> IF u \in written THEN history[u] \union {last + 1} ELSE history[u]]
        stale(u) == IF u \in written THEN Stale(added[u]) ELSE {}
    IN /\ history' = [u \in Local |-> added[u] \ stale(u)]
       /\ rows' = [u \in Local |-> (IF u \in written THEN rows[u] \union {last + 1} ELSE rows[u])
                                       \ (IF u \in unpruned THEN {} ELSE stale(u))]
       /\ faults' = faults + Cardinality(unwritten) + Cardinality(unpruned)

(* What an event is to be delivered to: the first pushers of every         *)
(* notified user, in the order of the recipients.                          *)
Deliveries(recipients, notified) ==
    LET of(u) == FirstOf(list_pushers_for_user(u), MaxPushers)
    IN IF ~Enabled THEN <<>>
       ELSE FlattenSeq([i \in DOMAIN recipients |-> IF recipients[i] \in notified THEN of(recipients[i]) ELSE <<>>])

(* An exception after the place was taken: nothing gives the place back.   *)
LosePlace == lost < MaxLost /\ lost' = lost + 1

(* One task per event, unless as many places as there may be are taken.    *)
(* The place is taken before the thread is made: when there is no thread   *)
(* to be had std::async throws, and there is no task.                      *)
dispatch_push_deliveries(deliveries, id) ==
    IF deliveries = <<>> THEN UNCHANGED <<tasks, inFlight, lost, dropped>>
    ELSE IF inFlight >= Capacity THEN dropped' = dropped + 1 /\ UNCHANGED <<tasks, inFlight, lost>>
    ELSE /\ inFlight' = inFlight + 1
         /\ \/ /\ tasks' = [t \in DOMAIN tasks \union {id} |-> IF t = id THEN deliveries ELSE tasks[t]]
               /\ UNCHANGED lost
            \/ LosePlace /\ UNCHANGED tasks
         /\ UNCHANGED dropped

(* send_event, a membership transition, or a PDU accepted from another     *)
(* server: the event is persisted, its notifications recorded, and its     *)
(* deliveries handed to a task.                                            *)
NewEvent(sender, kind, target, notified, unwritten, unpruned) ==
    LET recipients == Recipients(sender, kind, target)
    IN /\ last < MaxEvents
       /\ notified \subseteq Range(recipients)
       /\ faults + Cardinality(unwritten) + Cardinality(unpruned) <= MaxFaults
       /\ store_notification(notified, unwritten, unpruned)
       /\ last' = last + 1
       /\ dispatch_push_deliveries(Deliveries(recipients, notified), last + 1)
       /\ reader' = [reader EXCEPT !.since = @ \intersect history'[reader.user]]
       /\ UNCHANGED <<pushers, sets, restarts>>

----------------------------------------------------------------------------
(* Tasks. *)

(* The gateway is called outside the runtime lock: it refuses, cannot be   *)
(* reached, or takes the notification.                                     *)
Notify(id) ==
    /\ tasks[id] # <<>>
    /\ tasks' = [tasks EXCEPT ![id] = Tail(@)]
    /\ UNCHANGED <<pushers, history, rows, last, inFlight, lost, dropped, reader, sets, faults, restarts>>

(* ... or rejects the pushkey: the lock is taken again and the pusher      *)
(* deleted, by user and key.                                               *)
Rejected(id) ==
    /\ tasks[id] # <<>>
    /\ pushers' = delete_pusher(pushers, Head(tasks[id]).user, Head(tasks[id]).key)
    /\ tasks' = [tasks EXCEPT ![id] = Tail(@)]
    /\ UNCHANGED <<history, rows, last, inFlight, lost, dropped, reader, sets, faults, restarts>>

TaskEnds(id) ==
    /\ tasks[id] = <<>>
    /\ tasks' = [t \in DOMAIN tasks \ {id} |-> tasks[t]]
    /\ inFlight' = inFlight - 1
    /\ UNCHANGED <<pushers, history, rows, last, lost, dropped, reader, sets, faults, restarts>>

(* A delivery throws: the future keeps the exception, which nobody reads,  *)
(* and the decrement after the deliveries is not reached.                  *)
TaskThrows(id) ==
    /\ tasks[id] # <<>>
    /\ tasks' = [t \in DOMAIN tasks \ {id} |-> tasks[t]]
    /\ LosePlace
    /\ UNCHANGED <<pushers, history, rows, last, inFlight, dropped, reader, sets, faults, restarts>>

(* ~HomeserverRuntime waits for every task; the next start loads the rows, *)
(* with every place free.                                                  *)
Restart ==
    /\ restarts < MaxRestarts /\ restarts' = restarts + 1
    /\ DOMAIN tasks = {}
    /\ history' = rows
    /\ inFlight' = 0 /\ lost' = 0
    /\ UNCHANGED <<pushers, rows, last, tasks, dropped, reader, sets, faults>>

----------------------------------------------------------------------------
(* GET /notifications. *)

Descending(S) == SetToSortSeq(S, LAMBDA m, n : m > n)

Idle == [user |-> Invitee, open |-> FALSE, from |-> 0, got |-> <<>>, since |-> {}]

StartReading(user) ==
    /\ reader = Idle
    /\ reader' = [user |-> user, open |-> TRUE, from |-> MaxEvents + 1, got |-> <<>>, since |-> history[user]]
    /\ UNCHANGED <<pushers, history, rows, last, tasks, inFlight, lost, dropped, sets, faults, restarts>>

(* Mutant: a page begins after the entry its token names. *)
AfterToken(n) == n < reader.from

FromToken(n) == n <= reader.from

(* A page: the newest entries from the token on, and the token of the      *)
(* first entry left out, if there is one.                                  *)
ReadPage ==
    LET entries == SelectSeq(Descending(history[reader.user]), FromToken)
        more == Len(entries) > Limit
    IN /\ reader.open
       /\ reader' = [reader EXCEPT !.open = more,
                                   !.from = IF more THEN entries[Limit + 1] ELSE @,
                                   !.got = @ \o FirstOf(entries, Limit)]
       /\ UNCHANGED <<pushers, history, rows, last, tasks, inFlight, lost, dropped, sets, faults, restarts>>

----------------------------------------------------------------------------
Init ==
    /\ pushers = <<>>
    /\ history = [u \in Local |-> {}] /\ rows = history
    /\ last = 0
    /\ tasks = <<>> /\ inFlight = 0
    /\ lost = 0 /\ dropped = 0
    /\ reader = Idle
    /\ sets = 0 /\ faults = 0 /\ restarts = 0

Task == \E id \in DOMAIN tasks : Notify(id) \/ Rejected(id) \/ TaskEnds(id) \/ TaskThrows(id)

Next ==
    \/ \E user \in Local, key \in Keys :
         \/ \E gateway \in Gateways, append \in BOOLEAN, kept \in SUBSET Local :
              SetPusher(user, key, gateway, append, kept)
         \/ DeletePusher(user, key)
    \/ \E sender \in Range(Members), kind \in {"message", "state", "invite"}, target \in {Invitee} :
         \E notified \in SUBSET Local : \E unwritten, unpruned \in SUBSET notified :
              NewEvent(sender, kind, target, notified, unwritten, unpruned)
    \/ Task
    \/ Restart
    \/ \E user \in Local : StartReading(user)
    \/ ReadPage

Spec == Init /\ [][Next]_vars

FairSpec == Spec /\ WF_vars(Task)

----------------------------------------------------------------------------
TypeOK ==
    /\ \A i \in DOMAIN pushers : pushers[i] \in [user : Local, key : Keys, gateway : Gateways]
    /\ history \in [Local -> SUBSET (1 .. MaxEvents)] /\ rows \in [Local -> SUBSET (1 .. MaxEvents)]
    /\ inFlight \in 0 .. Capacity

(* Deliveries are dropped only when every place is a task still running or *)
(* one an exception left taken since the last start: a task that returns   *)
(* gives its place back, whatever the gateways answered, and no other step *)
(* takes one.                                                              *)
DropsOnlyWhenFull ==
    [][dropped' > dropped => Cardinality(DOMAIN tasks) + lost = Capacity]_vars

(* A client that pages through GET /notifications to the end has received  *)
(* every notification that was there from beginning to end, none of them   *)
(* twice, whatever was recorded and pruned between its pages.              *)
PagesAreComplete ==
    /\ \A i, j \in DOMAIN reader.got : reader.got[i] = reader.got[j] => i = j
    /\ ~reader.open => reader.since \subseteq Range(reader.got)
============================================================================
