----------------------------- MODULE SlidingSync -----------------------------
(***************************************************************************)
(* Sliding sync (sync/sliding_sync_*.cpp and sliding_sync_json of          *)
(* client_server.cpp) and one device that polls over several connections:  *)
(* the rooms of a list's window, what each room adds since the connection  *)
(* last had it, the extensions, and the state of a connection, which is    *)
(* committed once the position of a response comes back.                   *)
(*                                                                         *)
(* A room is a number, its place among the room ids; an event is known by  *)
(* its stream ordering, its place in `events'; the membership and receipts *)
(* that matter are the polling user's.                                     *)
(***************************************************************************)
EXTENDS Integers, Sequences, SequencesExt, FiniteSets, FiniteSetsExt, TLC

---------------------------------------------------------------------------
(***************************************************************************)
(* JSON values (canonicaljson/value.hpp) as request parsers look at them.  *)
(* A value is tagged with its type: <<"str", s>>, <<"int", n>>,            *)
(* <<"bool", b>>, <<"null">>, <<"arr", sequence>>, <<"obj", function from  *)
(* member names>>.  What may be missing is a set of at most one value.     *)
(***************************************************************************)

\* std::get_if of a value's storage.
As(v, type) == {x[2] : x \in {y \in v : y[1] = type}}

\* find_member
Member(v, name) == {obj[name] : obj \in {o \in As(v, "obj") : name \in DOMAIN o}}

TypedMember(v, name, type) == As(Member(v, name), type)

Or(option, default) == IF option = {} THEN default ELSE CHOOSE x \in option : TRUE

The(option) == CHOOSE x \in option : TRUE

\* extract_strings: the strings of an array, whatever else it holds.
Strings(v) ==
    LET Text(seq) == SelectSeq(seq, LAMBDA x : x[1] = "str")
        all == Text(Or(As(v, "arr"), <<>>))
    IN [i \in DOMAIN all |-> all[i][2]]

---------------------------------------------------------------------------
(***************************************************************************)
(* Sliding sync requests: what sync/sliding_sync_parser.cpp makes of a     *)
(* body, the window a list's ranges cut out of the sorted rooms, and what  *)
(* two configurations of one room come to.                                 *)
(***************************************************************************)

---------------------------------------------------------------------------
(* The parser.  A malformed list refuses the request; most else that is    *)
(* malformed counts as absent.                                             *)

ParseRange(v) ==
    LET arr == Or(As({v}, "arr"), <<>>)
        Bound(i) == {n \in As({arr[i]}, "int") : n >= 0}
    IN IF Len(arr) < 2 THEN {} ELSE {<<start, end>> : start \in Bound(1), end \in Bound(2)}

RangesValid(ranges) ==
    \A i \in DOMAIN ranges :
        /\ ranges[i][1] <= ranges[i][2]
        /\ i < Len(ranges) => ranges[i][2] < ranges[i + 1][1]

ParseRanges(v) ==
    {[i \in DOMAIN arr |-> The(ParseRange(arr[i]))] :
        arr \in {a \in As({v}, "arr") : \A i \in DOMAIN a : ParseRange(a[i]) # {}}}

\* "ranges", or else "range", or else no window at all.
ListRanges(obj) ==
    LET several == Member(obj, "ranges")
        single == Member(obj, "range")
        parsed == IF several # {} THEN ParseRanges(The(several))
                  ELSE IF single # {} THEN {<<r>> : r \in ParseRange(The(single))}
                  ELSE {<<>>}
    IN {r \in parsed : RangesValid(r)}

\* Pairs of an event type and a state key.
ParseRequiredState(v) ==
    LET arr == Or(As(v, "arr"), <<>>)
        Pair(x) == LET p == Or(As({x}, "arr"), <<>>) IN
            IF Len(p) < 2 THEN {} ELSE {<<type, key>> : type \in As({p[1]}, "str"), key \in As({p[2]}, "str")}
    IN UNION {Pair(arr[i]) : i \in DOMAIN arr}

Limit(obj) == Or({n \in TypedMember(obj, "timeline_limit", "int") : n >= 0}, 20)

ParseFilters(obj) ==
    [is_encrypted |-> TypedMember(obj, "is_encrypted", "bool"), is_invite |-> TypedMember(obj, "is_invite", "bool"),
     is_dm |-> TypedMember(obj, "is_dm", "bool"), is_favourite |-> TypedMember(obj, "is_favourite", "bool"),
     room_types |-> Range(Strings(Member(obj, "room_types"))),
     not_room_types |-> Range(Strings(Member(obj, "not_room_types")))]

ParseRoomSubscription(obj) ==
    [timeline_limit |-> Limit(obj), include_heroes |-> Or(TypedMember(obj, "include_heroes", "bool"), FALSE),
     required_state |-> ParseRequiredState(Member(obj, "required_state"))]

ParseList(obj) ==
    {[ranges |-> ranges, sort |-> Strings(Member(obj, "sort")),
      bump_event_types |-> Range(Strings(Member(obj, "bump_event_types"))),
      filters |-> {ParseFilters(f) : f \in {{x} : x \in {y \in Member(obj, "filters") : y[1] = "obj"}}},
      timeline_limit |-> Limit(obj), include_heroes |-> Or(TypedMember(obj, "include_heroes", "bool"), FALSE),
      required_state |-> ParseRequiredState(Member(obj, "required_state"))] : ranges \in ListRanges(obj)}

\* An extension counts when it is an object that says enabled: true; the
\* rooms it names, if it may name any.
ParseExtensionRequests(obj) ==
    LET Enabled(name) == {e \in Member(obj, name) : e[1] = "obj" /\ TRUE \in TypedMember({e}, "enabled", "bool")}
        Rooms(name) == {Range(Strings(Member({e}, "rooms"))) : e \in Enabled(name)}
    IN [to_device |-> {[limit |-> Or({n \in TypedMember({e}, "limit", "int") : n > 0}, 20),
                        since |-> TypedMember({e}, "since", "str")] : e \in Enabled("to_device")},
        e2ee |-> Enabled("e2ee") # {}, account_data |-> Enabled("account_data") # {},
        receipts |-> Rooms("receipts"), typing |-> Rooms("typing")]

\* The members of an object that are objects themselves.
Objects(v) == LET o == Or(As(v, "obj"), <<>>) IN [k \in {k \in DOMAIN o : o[k][1] = "obj"} |-> {o[k]}]

ParseSlidingSyncRequest(body) ==
    LET lists == Member(body, "lists")
        named == Or(As(lists, "obj"), <<>>)
        subs == Objects(Member(body, "room_subscriptions"))
    IN IF \/ As(body, "obj") = {}
          \/ lists # {} /\ As(lists, "obj") = {}
          \/ \E k \in DOMAIN named : named[k][1] # "obj" \/ ParseList({named[k]}) = {}
       THEN {}
       ELSE {[conn_id |-> Or(TypedMember(body, "conn_id", "str"), "__default__"),
              lists |-> [k \in DOMAIN named |-> The(ParseList({named[k]}))],
              subscriptions |-> [k \in DOMAIN subs |-> ParseRoomSubscription(subs[k])],
              extensions |-> ParseExtensionRequests(Member(body, "extensions")),
              pos |-> TypedMember(body, "pos", "str"),
              timeout |-> {n \in TypedMember(body, "timeout", "int") : n >= 0}]}

---------------------------------------------------------------------------
(* The window of a list.                                                   *)

\* The rooms of one range, counted from 0.
Slice(sorted, range) == SubSeq(sorted, range[1] + 1, Min({range[2] + 1, Len(sorted)}))

\* window_rooms
WindowRooms(sorted, ranges) == FlattenSeq([i \in DOMAIN ranges |-> Slice(sorted, ranges[i])])

\* The part of the previous window that stands for a range.
PrevSlice(prev, ranges, i) ==
    LET Length(range) == range[2] - range[1] + 1
        offset == FoldLeft(LAMBDA n, range : n + Length(range), 0, SubSeq(ranges, 1, i - 1))
    IN SubSeq(prev, offset + 1, Min({offset + Length(ranges[i]), Len(prev)}))

---------------------------------------------------------------------------
(* What state is asked for of a room; "*" stands for any type or key.      *)

\* matches_required_state_pair
Matches(pair, type, key) == pair[1] \in {"*", type} /\ pair[2] \in {"*", key}

CombineRoomConfigs(list, sub) ==
    LET merged == sub.required_state \union list.required_state IN
    [timeline_limit |-> Max({list.timeline_limit, sub.timeline_limit}),
     include_heroes |-> list.include_heroes \/ sub.include_heroes,
     required_state |-> {p \in merged : ~\E o \in merged \ {p} : Matches(o, p[1], p[2])}]

---------------------------------------------------------------------------
(* Connections. *)

CONSTANTS
    Me,             \* the polling user
    Others,         \* the other users
    Ignored,        \* those of them that are ignored
    Rooms,          \* the rooms
    Direct,         \* rooms that m.direct names
    Favourite,      \* rooms tagged m.favourite
    TypeOf,         \* the type each room was created with
    Conns,          \* conn_ids of the device
    MaxConns,       \* sliding_sync_connections_per_device
    Requests,       \* what a client asks for
    Posts,          \* the events that are posted
    MaxEvents,      \* bound: events
    MaxSyncId,      \* bound: receipts, typing notices and account data
    MaxLost,        \* bound: responses that do not arrive
    MaxCancelled,   \* bound: requests the client gives up
    MaxRestarts     \* bound: restarts of the server

VARIABLES
    events,         \* PersistentStore::events
    joined,         \* the user's rooms
    syncId,         \* PersistentStore::next_sync_stream_id
    receipts,       \* HomeserverRuntime::receipts
    typing,         \* typing_users and room_typing_stream_id
    account,        \* account data rows of the user; room 0 is none
    conns,          \* sliding_sync_connections
    recent,         \* the connections, least recently used first
    asked,          \* requests that have not been answered
    reply,          \* the response on its way to a connection
    client,         \* what the device has of each connection
    guessed,        \* kept for the properties: the connections of which a response was
                    \* taken for received because a request without position followed
    lost,
    cancelled,
    restarts

stored == <<events, joined, syncId, receipts, typing, account>>
vars == <<events, joined, syncId, receipts, typing, account, conns, recent, asked, reply, client, guessed, lost, cancelled, restarts>>

Users == {Me} \union Others

NoPos == [event |-> -1, sync |-> -1]

Token == [event |-> Len(events), sync |-> syncId]

---------------------------------------------------------------------------
(* Rooms and their events.                                                 *)

EventsOf(room) == {i \in DOMAIN events : events[i].room = room}

\* The rows of the state table: the last event of each type and key.
StateOf(room) ==
    {i \in EventsOf(room) : events[i].key # {} /\
        ~\E j \in EventsOf(room) : j > i /\ events[j].type = events[i].type /\ events[j].key = events[i].key}

\* is_delivery_suppressed, of an event
Suppressed(i) ==
    /\ events[i].sender \in Ignored
    /\ events[i].key # {} => events[i].invite /\ events[i].key = {Me}

ReadReceiptOrdering(room) == Max({0} \union {r.event : r \in {r \in receipts : r.room = room /\ r.user = Me}})

CountNotifications(room, read) ==
    Cardinality({i \in EventsOf(room) : i > read /\ events[i].sender # Me /\ events[i].type = "message"})

CountHighlights(room, read) ==
    Cardinality({i \in EventsOf(room) : i > read /\ events[i].sender # Me /\ Me \in events[i].mentions})

RecencyKey(room, bump) == Max({0} \union {i \in EventsOf(room) : bump = {} \/ events[i].type \in bump})

\* room_display_name and state_content_string; 0 is none.
Named(room, type) ==
    LET e == {i \in StateOf(room) : events[i].type = type} IN
    IF e = {} THEN 0 ELSE events[CHOOSE i \in e : TRUE].text

PassesFilters(room, f) ==
    /\ \A b \in f.is_encrypted : b = \E i \in StateOf(room) : events[i].type = "encryption"
    /\ \A b \in f.is_invite : b = FALSE
    /\ \A b \in f.is_dm : b = (room \in Direct)
    /\ \A b \in f.is_favourite : b = (room \in Favourite)
    /\ f.room_types # {} => TypeOf[room] \in f.room_types
    /\ TypeOf[room] \notin f.not_room_types

---------------------------------------------------------------------------
(* Lists.                                                                  *)

\* What a sort key says of two rooms: before, after or neither.
Compared(list, key, a, b) ==
    LET read == [r \in {a, b} |-> CountNotifications(r, ReadReceiptOrdering(r))]
        recency == [r \in {a, b} |-> RecencyKey(r, list.bump_event_types)]
        name == [r \in {a, b} |-> Named(r, "name")]
    IN CASE key = "by_notification_count" -> read[b] - read[a]
         [] key = "by_recency" -> recency[b] - recency[a]
         [] key = "by_name" -> IF name[a] = 0 THEN name[b] ELSE IF name[b] = 0 THEN -1 ELSE name[a] - name[b]
         [] OTHER -> 0

Before(list, a, b) ==
    LET decisive == SelectInSeq(list.sort, LAMBDA key : Compared(list, key, a, b) # 0) IN
    IF decisive = 0 THEN a < b ELSE Compared(list, list.sort[decisive], a, b) < 0

Sorted(list) ==
    SetToSortSeq({r \in joined : \A f \in list.filters : PassesFilters(r, f)}, LAMBDA a, b : Before(list, a, b))

\* compute_room_list
ComputeRoomList(list, prev) ==
    LET sorted == Sorted(list)
        changed == {i \in DOMAIN list.ranges :
                        prev = <<>> \/ Slice(sorted, list.ranges[i]) # PrevSlice(prev, list.ranges, i)}
    IN [count |-> Len(sorted), window |-> WindowRooms(sorted, list.ranges),
        ops |-> {[range |-> list.ranges[i], rooms |-> Slice(sorted, list.ranges[i])] : i \in changed}]

---------------------------------------------------------------------------
(* A room's part of a response.                                            *)

ResolveRequiredState(required, inTimeline, scoped) ==
    UNION {CASE p = <<"member", "$LAZY">> -> IF scoped THEN {<<"member", u>> : u \in inTimeline} ELSE {<<"member", "*">>}
             [] p = <<"member", "$ME">> -> {<<"member", Me>>}
             [] OTHER -> {p} : p \in required}

\* extract_timeline_membership
TimelineMembership(timeline) ==
    {events[i].sender : i \in timeline} \union UNION {events[i].key : i \in {i \in timeline : events[i].type = "member"}}

LastOf(set, n) == {i \in set : Cardinality({j \in set : j > i}) < n}

KeyText(i) == CHOOSE k \in events[i].key : TRUE

BuildRoomResponse(room, sub, since, initial, lazySent) ==
    LET all == {i \in EventsOf(room) : (initial \/ i > since) /\ ~Suppressed(i)}
        timeline == LastOf(all, sub.timeline_limit)
        lazy == <<"member", "$LAZY">> \in sub.required_state
        relevant == IF lazy THEN TimelineMembership(timeline) ELSE {}
        required == ResolveRequiredState(sub.required_state, relevant, timeline # all \/ initial)
        wanted == {i \in StateOf(room) : \E p \in required : Matches(p, events[i].type, KeyText(i))}
        sent == {i \in wanted :
                    /\ ~Suppressed(i)
                    /\ \/ initial \/ i > since
                       \/ events[i].type = "member" /\ KeyText(i) \in relevant \ lazySent}
        read == ReadReceiptOrdering(room)
    IN [initial |-> initial, timeline |-> timeline, limited |-> timeline # all, state |-> sent, name |-> Named(room, "name"),
        notifications |-> CountNotifications(room, read), highlights |-> CountHighlights(room, read),
        lazy |-> relevant \intersect {KeyText(i) : i \in {i \in sent : events[i].type = "member"}}]

---------------------------------------------------------------------------
(* Extensions.  Room 0 is "*" among the rooms an extension is asked for.   *)

\* effective_rooms
EffectiveRooms(wanted, shown) == IF wanted \subseteq {0} THEN shown ELSE wanted

BuildReceipts(since, rooms) ==
    {r \in receipts : r.room \in rooms /\ r.stream > since /\ r.user \notin Ignored}

BuildTyping(since, rooms) ==
    {[room |-> r, users |-> typing[r].users \ Ignored] :
        r \in {r \in rooms : typing[r].stream > since /\ (since > 0 \/ typing[r].users \ Ignored # {})}}

BuildAccountData(since, shown) == {a \in account : a.stream > since /\ a.room \in shown \union {0}}

BuildExtensions(ext, since, shown) ==
    [receipts |-> UNION {BuildReceipts(since, EffectiveRooms(rooms, shown)) : rooms \in ext.receipts},
     typing |-> UNION {BuildTyping(since, EffectiveRooms(rooms, shown)) : rooms \in ext.typing},
     account |-> IF ext.account_data THEN BuildAccountData(since, shown) ELSE {}]

---------------------------------------------------------------------------
(* Connections.                                                            *)

Fresh == [windows |-> <<>>, seen |-> <<>>, lazy |-> <<>>, event |-> 0, sync |-> 0, pending |-> {}]

\* prune_sliding_sync_connections: the idle ones, and, for a new connection,
\* the least recently used ones that leave no room for it.
Pruned(c, idle) ==
    LET left == SelectSeq(recent, LAMBDA x : x \notin idle)
    IN IF c \in Range(left) \/ Len(left) < MaxConns THEN left ELSE SubSeq(left, Len(left) - MaxConns + 2, Len(left))

\* Mutant: a response counts as received when the next request comes.
AlwaysAcknowledges(pending, pos) == TRUE

Acknowledges(pending, pos) == pos = NoPos \/ (pos = pending.response_pos /\ pos # pending.request_pos)

\* The connection as a request finds it, its pending response committed.
Committed(conn, pos) ==
    LET p == {p \in conn.pending : Acknowledges(p, pos)} IN
    IF p = {} THEN conn
    ELSE LET q == CHOOSE q \in p : TRUE IN
         [windows |-> q.windows, seen |-> q.seen, lazy |-> q.lazy, event |-> q.event, sync |-> q.sync, pending |-> {}]

\* Where a request takes up: its position, or else where the connection was.
Since(conn, pos) ==
    CASE pos # NoPos -> pos
      [] DOMAIN conn.seen = {} -> [event |-> 0, sync |-> 0]
      [] OTHER -> [event |-> conn.event, sync |-> conn.sync]

\* Nothing a request asks for has come since: it waits.
NothingNew(req, since) ==
    LET ext == req.extensions IN
    /\ DOMAIN req.lists \union DOMAIN req.subscriptions # {} =>
        ~\E i \in DOMAIN events : i > since.event /\ events[i].room \in joined
    /\ ~\E a \in account : ext.account_data /\ a.stream > since.sync
    /\ ~\E r \in receipts : ext.receipts # {} /\ r.room \in joined /\ r.stream > since.sync
    /\ ~\E r \in joined : ext.typing # {} /\ typing[r].stream > since.sync

ListResults(req, conn) ==
    [l \in DOMAIN req.lists |->
        ComputeRoomList(req.lists[l], IF l \in DOMAIN conn.windows THEN conn.windows[l] ELSE <<>>)]

ResponseRooms(req, results) ==
    UNION {Range(results[l].window) : l \in DOMAIN results} \union DOMAIN req.subscriptions

\* A room's configuration: its subscription and every list that shows it.
RoomConfig(req, results, room) ==
    LET start == IF room \in DOMAIN req.subscriptions THEN req.subscriptions[room]
                 ELSE [timeline_limit |-> 0, include_heroes |-> FALSE, required_state |-> {}]
        showing == {l \in DOMAIN results : room \in Range(results[l].window)}
    IN FoldSet(LAMBDA l, sub : CombineRoomConfigs(req.lists[l], sub), start, showing)

\* The floor of a room the connection has shown before.
RoomSince(conn, since, room) == Max({since.event, conn.seen[room]})

RoomResponse(req, results, conn, since, room) ==
    LET initial == room \notin DOMAIN conn.seen IN
    BuildRoomResponse(room, RoomConfig(req, results, room), IF initial THEN 0 ELSE RoomSince(conn, since, room), initial,
                      IF room \in DOMAIN conn.lazy THEN conn.lazy[room] ELSE {})

\* Every room the lists and subscriptions show, as the response has it.
RoomResponses(req, results, conn, since) ==
    [r \in ResponseRooms(req, results) |-> RoomResponse(req, results, conn, since, r)]

\* The connection once a response is acknowledged.
NextState(pos, conn, results, rooms) ==
    LET seenLazily == [r \in {r \in DOMAIN rooms : rooms[r].lazy # {}} |->
                        rooms[r].lazy \union (IF r \in DOMAIN conn.lazy THEN conn.lazy[r] ELSE {})]
    IN [request_pos |-> pos, response_pos |-> Token,
        windows |-> [l \in DOMAIN results |-> results[l].window] @@ conn.windows,
        seen |-> [r \in DOMAIN rooms |-> Len(events)] @@ conn.seen,
        lazy |-> seenLazily @@ conn.lazy, event |-> Len(events), sync |-> syncId]

\* sliding_sync_json, once it does not wait: the response, and the state of
\* the connection if the response is acknowledged.
ResponseWith(req, pos, conn, results, rooms) ==
    LET updated == {r \in DOMAIN rooms : rooms[r].initial \/ rooms[r].timeline # {} \/ rooms[r].state # {}} IN
    [pos |-> Token, rooms |-> [r \in updated |-> rooms[r]],
     lists |-> [l \in DOMAIN results |-> [count |-> results[l].count, ops |-> results[l].ops]],
     extensions |-> BuildExtensions(req.extensions, Since(conn, pos).sync, DOMAIN rooms),
     next |-> NextState(pos, conn, results, rooms)]

ResponseFrom(req, pos, conn, results) ==
    ResponseWith(req, pos, conn, results, RoomResponses(req, results, conn, Since(conn, pos)))

Response(req, pos, conn) == ResponseFrom(req, pos, conn, ListResults(req, conn))

\* A position ahead of the streams was not given by this server.
UnknownPos(pos) == pos # NoPos /\ (pos.event > Len(events) \/ pos.sync > syncId)

---------------------------------------------------------------------------
Unheard == [pos |-> NoPos, held |-> {}, from |-> <<>>, lists |-> <<>>, shown |-> <<>>]

Init ==
    /\ events = <<>>
    /\ joined = Rooms
    /\ syncId = 0
    /\ receipts = {}
    /\ typing = [r \in Rooms |-> [users |-> {}, stream |-> 0]]
    /\ account = {}
    /\ conns = <<>>
    /\ recent = <<>>
    /\ asked = {}
    /\ reply = <<>>
    /\ client = [c \in Conns |-> Unheard]
    /\ guessed = {}
    /\ lost = 0
    /\ cancelled = 0
    /\ restarts = 0

Post(e) ==
    /\ Len(events) < MaxEvents
    /\ e.sender = Me => e.room \in joined
    /\ events' = Append(events, e)
    /\ UNCHANGED <<joined, syncId, receipts, typing, account, conns, recent, asked, reply, client, guessed, lost, cancelled, restarts>>

SetReceipt(room, user, event) ==
    /\ syncId < MaxSyncId
    /\ event \in EventsOf(room)
    /\ user = Me => room \in joined
    /\ syncId' = syncId + 1
    /\ receipts' = {r \in receipts : r.room # room \/ r.user # user} \union
                    {[room |-> room, user |-> user, event |-> event, stream |-> syncId + 1]}
    /\ UNCHANGED <<events, joined, typing, account, conns, recent, asked, reply, client, guessed, lost, cancelled, restarts>>

SetTyping(room, user, isTyping) ==
    /\ syncId < MaxSyncId
    /\ user = Me => room \in joined
    /\ isTyping # (user \in typing[room].users)
    /\ syncId' = syncId + 1
    /\ typing' = [typing EXCEPT ![room] =
                    [users |-> IF isTyping THEN @.users \union {user} ELSE @.users \ {user}, stream |-> syncId + 1]]
    /\ UNCHANGED <<events, joined, receipts, account, conns, recent, asked, reply, client, guessed, lost, cancelled, restarts>>

PutAccountData(room) ==
    /\ syncId < MaxSyncId
    /\ syncId' = syncId + 1
    /\ account' = {a \in account : a.room # room} \union {[room |-> room, stream |-> syncId + 1]}
    /\ UNCHANGED <<events, joined, receipts, typing, conns, recent, asked, reply, client, guessed, lost, cancelled, restarts>>

\* The user's membership changes with an event of its own.
Move(room) ==
    /\ Len(events) < MaxEvents
    /\ events' = Append(events, [room |-> room, sender |-> Me, type |-> "member", key |-> {Me}, text |-> 0,
                                 mentions |-> {}, invite |-> FALSE])
    /\ joined' = IF room \in joined THEN joined \ {room} ELSE joined \union {room}
    /\ client' = [c \in Conns |-> [client[c] EXCEPT !.from = [r \in DOMAIN @ \ {room} |-> @[r]]]]
    /\ UNCHANGED <<syncId, receipts, typing, account, conns, recent, asked, reply, guessed, lost, cancelled, restarts>>

---------------------------------------------------------------------------
(* The device's connections.                                               *)

Live(c) == {q \in asked : q.conn = c /\ q.live}

Ask(c, req) ==
    /\ Live(c) = {} /\ c \notin DOMAIN reply
    /\ asked' = asked \union {[conn |-> c, req |-> req, pos |-> client[c].pos, live |-> TRUE]}
    /\ UNCHANGED <<stored, conns, recent, reply, client, guessed, lost, cancelled, restarts>>

\* The connection drops before the answer; the server does not notice.
Cancel(q) ==
    /\ cancelled < MaxCancelled
    /\ q.live
    /\ asked' = (asked \ {q}) \union {[q EXCEPT !.live = FALSE]}
    /\ cancelled' = cancelled + 1
    /\ UNCHANGED <<stored, conns, recent, reply, client, guessed, lost, restarts>>

Answer(q, response) == IF q.live THEN reply' = (q.conn :> response) @@ reply ELSE UNCHANGED reply

Without(map, keys) == [k \in DOMAIN map \ keys |-> map[k]]

\* A position the server has not reached: the connection starts again.
RefusePos(q) ==
    /\ UnknownPos(q.pos)
    /\ asked' = asked \ {q}
    /\ conns' = Without(conns, {q.conn})
    /\ recent' = SelectSeq(recent, LAMBDA x : x # q.conn)
    /\ Answer(q, [unknown |-> TRUE, pos |-> NoPos])
    /\ UNCHANGED <<stored, client, guessed, lost, cancelled, restarts>>

\* The connection of a request once the others have been pruned.
Kept(q, idle) == IF q.conn \in Range(Pruned(q.conn, idle)) THEN conns[q.conn] ELSE Fresh

Found(q, idle) == Committed(Kept(q, idle), q.pos)

Touch(q, idle, conn) ==
    LET kept == SelectSeq(Pruned(q.conn, idle), LAMBDA x : x # q.conn) IN
    /\ guessed' = guessed \union {c \in {q.conn} : q.pos = NoPos /\ Kept(q, idle).pending # {}}
    /\ recent' = Append(kept, q.conn)
    /\ conns' = (q.conn :> conn) @@ [c \in Range(kept) |-> conns[c]]

\* Nothing to say yet: the request waits for the streams to move.
Park(q, idle) ==
    /\ ~UnknownPos(q.pos)
    /\ NothingNew(q.req, Since(Found(q, idle), q.pos))
    /\ Touch(q, idle, Found(q, idle))
    /\ UNCHANGED <<stored, asked, reply, client, lost, cancelled, restarts>>

\* sliding_sync_json answers, at once or when the time is up.
Serve(q, idle) ==
    /\ ~UnknownPos(q.pos)
    /\ \E conn \in {Found(q, idle)} : \E response \in {Response(q.req, q.pos, conn)} :
        /\ Touch(q, idle, [conn EXCEPT !.pending = {response.next}])
        /\ Answer(q, [unknown |-> FALSE, pos |-> response.pos, body |-> response])
    /\ asked' = asked \ {q}
    /\ UNCHANGED <<stored, client, lost, cancelled, restarts>>

\* What the client makes of a response: the ranges of a list it is told to
\* replace, the rooms that start afresh, or start again where the timeline was
\* cut to its limit (which the response does not tell), and the events.
Learn(was, response) ==
    LET fresh == {r \in DOMAIN response.rooms : response.rooms[r].initial \/ response.rooms[r].limited}
        First(r) == Min(response.rooms[r].timeline \union {response.pos.event + 1})
        told == [l \in DOMAIN response.lists |->
                    LET ops == response.lists[l].ops IN
                    [range \in {op.range : op \in ops} |-> (CHOOSE op \in ops : op.range = range).rooms]]
    IN [pos |-> response.pos,
        held |-> was.held \union UNION {response.rooms[r].timeline : r \in DOMAIN response.rooms},
        from |-> [r \in fresh \intersect joined |-> First(r)] @@ was.from,
        lists |-> [l \in DOMAIN told |-> told[l] @@ (IF l \in DOMAIN was.lists THEN was.lists[l] ELSE <<>>)] @@ was.lists,
        shown |-> response.next.windows]

Deliver(c) ==
    /\ c \in DOMAIN reply
    /\ client' = [client EXCEPT ![c] = IF reply[c].unknown THEN Unheard ELSE Learn(@, reply[c].body)]
    /\ guessed' = IF reply[c].unknown THEN guessed \ {c} ELSE guessed
    /\ reply' = Without(reply, {c})
    /\ UNCHANGED <<stored, conns, recent, asked, lost, cancelled, restarts>>

Lose(c) ==
    /\ c \in DOMAIN reply
    /\ lost < MaxLost
    /\ reply' = Without(reply, {c})
    /\ lost' = lost + 1
    /\ UNCHANGED <<stored, conns, recent, asked, client, guessed, cancelled, restarts>>

\* Connections, receipts and typing notices are in memory only; the counter
\* is read from its row, whose writing may have failed, and from the rows of
\* account data.
Restart(row) ==
    /\ restarts < MaxRestarts
    /\ syncId' = Max({row} \union {a.stream : a \in account})
    /\ restarts' = restarts + 1
    /\ conns' = <<>> /\ recent' = <<>> /\ asked' = {}
    /\ receipts' = {}
    /\ typing' = [r \in Rooms |-> [users |-> {}, stream |-> 0]]
    /\ UNCHANGED <<events, joined, account, reply, client, guessed, lost, cancelled>>

Next ==
    \/ \E e \in Posts : Post(e)
    \/ \E r \in Rooms : \/ \E u \in Users : \E i \in DOMAIN events : SetReceipt(r, u, i)
                        \/ \E u \in Users, b \in BOOLEAN : SetTyping(r, u, b)
                        \/ Move(r)
    \/ \E r \in Rooms \union {0} : PutAccountData(r)
    \/ \E c \in Conns : \/ \E req \in Requests[c] : Ask(c, req)
                        \/ Deliver(c)
                        \/ Lose(c)
    \/ \E q \in asked : \/ Cancel(q)
                        \/ RefusePos(q)
                        \/ \E idle \in SUBSET (DOMAIN conns) : Park(q, idle) \/ Serve(q, idle)
    \/ \E row \in 0..syncId : Restart(row)

Spec == Init /\ [][Next]_vars

---------------------------------------------------------------------------
(* Properties.                                                             *)

\* Variables keep their shape: the connections in order of use are the ones
\* kept, no more than a device may have, and a device has one request open.
TypeOK ==
    /\ joined \subseteq Rooms /\ syncId \in 0..MaxSyncId
    /\ Range(recent) = DOMAIN conns /\ Len(recent) = Cardinality(DOMAIN conns) /\ Len(recent) <= MaxConns
    /\ \A c \in Conns : Cardinality(Live(c)) + Cardinality({c} \intersect DOMAIN reply) <= 1

\* A device has, of a room it was shown, every event from the first it was
\* shown, or the first after a timeline was last cut to its limit, up to the
\* position it has come to (sliding_sync_json): no other event is passed over
\* by the position of a response that did not hold it, unless the response to
\* one of its requests was taken for received without having been: any
\* request without position has sliding_sync_json do so with the last.
NothingSkipped ==
    \A c \in Conns \ guessed : \A r \in DOMAIN client[c].from :
        \A i \in EventsOf(r) : client[c].from[r] <= i /\ i <= client[c].pos.event /\ ~Suppressed(i) => i \in client[c].held

\* A request that waits would have had nothing to tell of the rooms the
\* connection has been shown (the needs_wait decision).
ParkingWithholdsNothing ==
    \A q \in asked :
        \A conn \in {IF q.conn \in DOMAIN conns THEN Committed(conns[q.conn], q.pos) ELSE Fresh} :
        ~UnknownPos(q.pos) /\ NothingNew(q.req, Since(conn, q.pos)) =>
        \A response \in {Response(q.req, q.pos, conn)} :
            /\ \A r \in DOMAIN response.rooms \intersect joined : response.rooms[r].initial
            /\ \A x \in response.extensions.receipts \union response.extensions.typing : x.room \notin joined
            /\ response.extensions.account = {}

\* The rooms a device has in the ranges of its lists are the ones the server
\* counts as its windows (the operations of compute_room_list), unless a
\* request that was given up is answered late, or a response was taken for
\* received without having been, whose windows are then not told again.
ListsFollow ==
    cancelled = 0 => \A c \in Conns \ guessed : \A l \in DOMAIN client[c].shown :
        UNION {Range(client[c].lists[l][range]) : range \in DOMAIN client[c].lists[l]} = Range(client[c].shown[l])
=============================================================================
