----------------------------- MODULE RoomPages ------------------------------
(***************************************************************************)
(* What a client reads a page at a time: the history of a room, and the    *)
(* rooms of a space.                                                       *)
(***************************************************************************)
EXTENDS Integers, Sequences, SequencesExt

CONSTANTS
    MaxPage,        \* kSearchMaxPageLimit, and the 100 of /messages and /context
    DefaultPage,    \* the limit of a request that gives none
    MaxScanned,     \* ClientApiLimits::max_search_events_scanned
    DefaultDepth, HardDepth, DefaultLimit, MaxLimit

(***************************************************************************)
(* The endpoints that read a room's history a page at a time: /messages,   *)
(* /context, /initialSync, /relations, /threads and /search.  Each of them *)
(* looks at the whole store on every request and hands out a token that is *)
(* the stream ordering of some event, so what a client has seen when it    *)
(* stops is decided by which neighbour the token names and on which side   *)
(* of it the next page starts; /messages and /search resume beyond the     *)
(* event the token names, /relations and /threads at it.                   *)
(*                                                                         *)
(* A store is [events, ignored, joined, encrypted] as one user sees it; an *)
(* event carries what these readers tell apart.  A token that is no number *)
(* reads as no token (in /threads it is refused).  The current state sent  *)
(* beside the chunks and the rendering of the events are left out; type    *)
(* patterns are in Codecs, the state at an event in StateResolution.       *)
(***************************************************************************)

NoToken == 0

Smaller(a, b) == IF a < b THEN a ELSE b

FirstOf(s, n) == SubSeq(s, 1, Smaller(n, Len(s)))

LastOr(s, otherwise) == IF s = <<>> THEN otherwise ELSE Last(s).ordering

(* The member of a set of at most one. *)
Given(asked, otherwise) == IF asked = {} THEN otherwise ELSE CHOOSE x \in asked : TRUE

limit_of(asked) == Smaller(Given(asked, DefaultPage), MaxPage)

-----------------------------------------------------------------------------
(* What the readers share: a room's events in order, and what is withheld. *)

is_delivery_suppressed(store, e) == e.sender \in store.ignored /\ ~e.state

Oldest(s) == SortSeq(s, LAMBDA a, b : a.ordering < b.ordering)

Newest(s) == SortSeq(s, LAMBDA a, b : a.ordering > b.ordering)

InRoom(store, room) == SelectSeq(store.events, LAMBDA e : e.room = room)

(* An empty list passes everything. *)
event_passes_filter(filter, e) ==
    /\ filter.types = {} \/ e.type \in filter.types
    /\ e.type \notin filter.not_types
    /\ filter.senders = {} \/ e.sender \in filter.senders
    /\ e.sender \notin filter.not_senders

room_passes_filter(filter, room) ==
    /\ filter.rooms = {} \/ room \in filter.rooms
    /\ room \notin filter.not_rooms

-----------------------------------------------------------------------------
messages_json(store, room, dir, from, limit) ==
    LET entries == SelectSeq(InRoom(store, room), LAMBDA e : ~is_delivery_suppressed(store, e))
        beyond == IF dir = "f"
                  THEN SelectSeq(Oldest(entries), LAMBDA e : from = NoToken \/ e.ordering > from)
                  ELSE SelectSeq(Newest(entries), LAMBDA e : from = NoToken \/ e.ordering < from)
        chunk == FirstOf(beyond, limit_of(limit))
    IN [chunk |-> chunk, end |-> LastOr(chunk, NoToken)]

(* /initialSync starts from the newest event and withholds nothing. *)
build_initial_sync_messages(store, room, limit) ==
    LET chunk == FirstOf(Newest(InRoom(store, room)), limit_of(limit))
    IN [chunk |-> chunk, end |-> LastOr(chunk, NoToken)]

(* The nearest events on either side of the target that pass the filter    *)
(* and are not withheld; the target itself is always returned.             *)
Around(store, filter, target, before_limit, after_limit) ==
    LET shown == SelectSeq(InRoom(store, target.room), LAMBDA e :
                              event_passes_filter(filter, e) /\ ~is_delivery_suppressed(store, e))
        before == FirstOf(SelectSeq(Newest(shown), LAMBDA e : e.ordering < target.ordering), before_limit)
        after == FirstOf(SelectSeq(Oldest(shown), LAMBDA e : e.ordering > target.ordering), after_limit)
    IN [before |-> before, after |-> after,
        start |-> LastOr(before, target.ordering), end |-> LastOr(after, target.ordering)]

room_context_json(store, filter, target, limit) ==
    IF room_passes_filter(filter, target.room)
    THEN LET half == limit_of(limit) \div 2 IN Around(store, filter, target, half, limit_of(limit) - half)
    ELSE [before |-> <<>>, after |-> <<>>, start |-> target.ordering, end |-> target.ordering]

-----------------------------------------------------------------------------
(* Pages that start at the event the token names.  from cuts the front, to *)
(* the back, the limit what is left.                                       *)
PageFrom(matches, forward, from, to, limit) ==
    LET Cut(e) == from # NoToken /\ (IF forward THEN e.ordering < from ELSE e.ordering > from)
        Past(e) == to # NoToken /\ (IF forward THEN e.ordering > to ELSE e.ordering < to)
        rest == SelectSeq(matches, LAMBDA e : ~Cut(e))
        chunk == FirstOf(SelectSeq(rest, LAMBDA e : ~Past(e)), limit)
    IN [status |-> 200, chunk |-> chunk,
        next |-> IF Len(chunk) < Len(rest) THEN rest[Len(chunk) + 1].ordering ELSE NoToken]

Refused(status) == [status |-> status, chunk |-> <<>>, next |-> NoToken]

(* The children of an event, by the relation and the type asked for.  A    *)
(* limit of zero, or beyond the largest, is the largest.                   *)
fetch_relations(store, room, parent, request) ==
    LET limit == Given(request.limit, DefaultPage)
        matches == SelectSeq(InRoom(store, room), LAMBDA e :
                       /\ e.rel.id = parent
                       /\ request.rel_type = {} \/ e.rel.type \in request.rel_type
                       /\ request.event_type = {} \/ e.type \in request.event_type)
    IN IF room \notin store.joined \/ ~\E e \in Range(InRoom(store, room)) : e.id = parent THEN Refused(404)
       ELSE PageFrom(IF request.dir = "f" THEN Oldest(matches) ELSE Newest(matches), request.dir = "f",
                     request.from, request.to, IF limit = 0 \/ limit > MaxPage THEN MaxPage ELSE limit)

(* The thread replies that count: not those of ignored users, state events *)
(* included, and only where the server has the root.                       *)
Replies(store, room, root) ==
    SelectSeq(InRoom(store, room), LAMBDA e :
        e.rel.type = "thread" /\ e.rel.id = root.id /\ e.sender \notin store.ignored)

Thread(store, room, user, root) ==
    LET replies == Replies(store, room, root)
    IN [root |-> root, ordering |-> Head(Newest(replies)).ordering, count |-> Len(replies),
        participated |-> \E e \in Range(replies) \union {root} : e.sender = user]

(* The threads, the one with the latest reply first. *)
Threads(store, room, user, include) ==
    LET roots == SelectSeq(InRoom(store, room), LAMBDA e : Replies(store, room, e) # <<>>)
        threads == [i \in DOMAIN roots |-> Thread(store, room, user, roots[i])]
    IN Newest(SelectSeq(threads, LAMBDA t : include = "participated" => t.participated))

fetch_room_threads(store, room, user, include, from, limit) ==
    IF include \notin {"all", "participated"} \/ limit = {0} THEN Refused(400)
    ELSE IF room \notin store.joined THEN Refused(403)
    ELSE PageFrom(Threads(store, room, user, include), FALSE, from, NoToken, limit_of(limit))

-----------------------------------------------------------------------------
(* What a search asks for, {} where a member of it has the wrong shape.    *)
AnyEvent == [types |-> {}, not_types |-> {}, senders |-> {}, not_senders |-> {},
             rooms |-> {}, not_rooms |-> {}, contains_url |-> {}, limit |-> 0]

parse_search_request(body) ==
    LET filter == Given(body.filter, AnyEvent)
        context == Given(body.event_context, [before |-> DefaultPage, after |-> DefaultPage])
    IN IF body.garbled THEN {}
       ELSE {[order_recent |-> body.order_by = {"recent"},
              keys |-> body.keys,
              filter |-> filter,
              page_limit |-> IF filter.limit = 0 THEN DefaultPage ELSE Smaller(filter.limit, MaxPage),
              before_limit |-> Smaller(context.before, MaxPage),
              after_limit |-> Smaller(context.after, MaxPage),
              group_by |-> body.group_by \intersect {"room_id", "sender"}]}

(* The one text each searchable type has, if the keys ask for it. *)
search_event_rank(request, e) ==
    IF e.type \in {"message", "name", "topic"} /\ (request.keys = {} \/ e.type \in request.keys)
    THEN e.hits ELSE 0

SearchMatches(store, request, e) ==
    /\ event_passes_filter(request.filter, e)
    /\ ~is_delivery_suppressed(store, e)
    /\ request.filter.contains_url = {} \/ e.url \in request.filter.contains_url
    /\ search_event_rank(request, e) > 0

Candidates(store, request) ==
    Newest(SelectSeq(store.events, LAMBDA e :
        /\ e.room \in store.joined
        /\ room_passes_filter(request.filter, e.room)
        /\ e.room \notin store.encrypted))

(* Mutant: the token names the first candidate not yet examined, and the   *)
(* next page starts strictly before it.                                    *)
ResumeAtNext(left, examined) ==
    IF examined < Len(left) THEN left[examined + 1].ordering ELSE NoToken

(* The next page starts strictly before the last candidate examined. *)
Resume(left, examined) ==
    IF examined > 0 /\ examined < Len(left) THEN left[examined].ordering ELSE NoToken

Ranked(request, matches) ==
    IF request.order_recent THEN matches
    ELSE SortSeq(matches, LAMBDA a, b :
             \/ search_event_rank(request, a) > search_event_rank(request, b)
             \/ /\ search_event_rank(request, a) = search_event_rank(request, b)
                /\ a.ordering > b.ordering)

(* The results of a page by their room, their sender, or both ways. *)
Groups(request, matches) ==
    LET By(key, e) == IF key = "room_id" THEN e.room ELSE e.sender
    IN [key \in request.group_by |->
          [v \in {By(key, e) : e \in Range(matches)} |-> SelectSeq(matches, LAMBDA e : By(key, e) = v)]]

(* A page stops at its limit of matches or after MaxScanned candidates. *)
search_room_events_json(store, request, resume_before) ==
    LET left == SelectSeq(Candidates(store, request), LAMBDA e :
                    resume_before = NoToken \/ e.ordering < resume_before)
        Found(n) == SelectSeq(FirstOf(left, n), LAMBDA e : SearchMatches(store, request, e))
        examined == CHOOSE n \in 0 .. Len(left) :
                        /\ n = Len(left) \/ n >= MaxScanned \/ Len(Found(n)) >= request.page_limit
                        /\ \A m \in 0 .. n - 1 : m < MaxScanned /\ Len(Found(m)) < request.page_limit
        matches == Ranked(request, Found(examined))
    IN [chunk |-> matches,
        groups |-> Groups(request, matches),
        contexts |-> [i \in DOMAIN matches |->
                        Around(store, request.filter, matches[i], request.before_limit, request.after_limit)],
        next |-> Resume(left, examined)]

-----------------------------------------------------------------------------
(***************************************************************************)
(* The space hierarchy: which rooms below a space a user, or another       *)
(* server, is told of.  A space is a room whose m.space.child events name  *)
(* other rooms; they may form any graph, with cycles and with rooms in     *)
(* several spaces.                                                         *)
(*                                                                         *)
(* A store is [rooms, spaces, membership, rule, readable, children]:       *)
(* membership and rule are the requesting user's membership and the join   *)
(* rule of each room, readable the world-readable rooms, children a room's *)
(* m.space.child events in the order of the state table.  The names,       *)
(* topics and counts of a summary are left out.                            *)
(***************************************************************************)

can_view_room_federation(store, room) ==
    store.rule[room] \in {"public", "knock", "knock_restricted"} \/ room \in store.readable

can_view_room_client(store, room) ==
    store.membership[room] \in {"join", "invite"} \/ can_view_room_federation(store, room)

(* An event with an empty via removes the child. *)
space_children(store, room) == SelectSeq(store.children[room], LAMBDA c : c.via)

room_summary_object(store, room) ==
    [room |-> room, rule |-> store.rule[room], readable |-> room \in store.readable,
     children_state |-> IF room \in store.spaces THEN space_children(store, room) ELSE <<>>]

Considered(store, room, suggested_only) ==
    SelectSeq(space_children(store, room), LAMBDA c : suggested_only => c.suggested)

-----------------------------------------------------------------------------
DeepEnough(depth, max_depth) == depth >= max_depth

(* One turn of the depth-first loop pops the last pair of the stack.  A    *)
(* room that is listed puts its children there, the last of them first.    *)
RECURSIVE Walk(_, _, _, _, _)
Walk(store, stack, max_depth, suggested_only, listed) ==
    IF stack = <<>> THEN listed
    ELSE LET top == Last(stack)
             rest == Front(stack)
             children == Considered(store, top.room, suggested_only)
             below == [i \in DOMAIN children |->
                         [room |-> children[Len(children) + 1 - i].room, depth |-> top.depth + 1]]
         IN IF \/ top.room \notin store.rooms
               \/ ~can_view_room_client(store, top.room)
               \/ top.room \in Range(listed)
            THEN Walk(store, rest, max_depth, suggested_only, listed)
            ELSE IF DeepEnough(top.depth, max_depth) \/ top.room \notin store.spaces
            THEN Walk(store, rest, max_depth, suggested_only, Append(listed, top.room))
            ELSE Walk(store, rest \o below, max_depth, suggested_only, Append(listed, top.room))

collect_visible_room_ids_client(store, root, max_depth, suggested_only) ==
    Walk(store, <<[room |-> root, depth |-> 0]>>, max_depth, suggested_only, <<>>)

(* The token repeats what the request was about, and where to go on. *)
Token(room, max_depth, suggested_only, offset) ==
    [room |-> room, max_depth |-> max_depth, suggested_only |-> suggested_only, offset |-> offset]

Error(status) == [status |-> status, rooms |-> <<>>, next |-> {}]

handle_client_space_hierarchy(store, request) ==
    LET max_depth == Smaller(Given(request.max_depth, DefaultDepth), HardDepth)
        limit == Smaller(Given(request.limit, DefaultLimit), MaxLimit)
        token == Given(request.from, Token(request.room, max_depth, request.suggested_only, 0))
        all == collect_visible_room_ids_client(store, request.room, max_depth, request.suggested_only)
        offset == Smaller(token.offset, Len(all))
        end == Smaller(offset + limit, Len(all))
    IN IF request.room \notin store.rooms THEN Error(404)
       ELSE IF ~can_view_room_client(store, request.room) THEN Error(403)
       ELSE IF \/ limit = 0
               \/ token # Token(request.room, max_depth, request.suggested_only, token.offset) THEN Error(400)
       ELSE [status |-> 200,
             rooms |-> [i \in 1 .. end - offset |-> room_summary_object(store, all[offset + i])],
             next |-> IF end < Len(all) THEN {Token(request.room, max_depth, request.suggested_only, end)} ELSE {}]

(* What another server is told: the room and the children it may see. *)
build_federation_space_hierarchy_response(store, room, suggested_only) ==
    IF room \notin store.rooms \/ ~can_view_room_federation(store, room) THEN {}
    ELSE LET children == IF room \in store.spaces THEN Considered(store, room, suggested_only) ELSE <<>>
             shown == SelectSeq(children, LAMBDA c : c.room \in store.rooms /\ can_view_room_federation(store, c.room))
         IN {[room |-> room_summary_object(store, room),
              children |-> [i \in DOMAIN shown |-> room_summary_object(store, shown[i].room)]]}

-----------------------------------------------------------------------------
(* The rooms within a number of steps of the root, each step from a space  *)
(* the user may view to a child the user may view.                         *)
RECURSIVE Within(_, _, _, _)
Within(store, root, steps, suggested_only) ==
    IF steps = 0 THEN {root}
    ELSE LET nearer == Within(store, root, steps - 1, suggested_only)
         IN nearer \union {c \in store.rooms :
                /\ can_view_room_client(store, c)
                /\ \E s \in nearer \intersect store.spaces :
                      c \in {x.room : x \in Range(Considered(store, s, suggested_only))}}
=============================================================================
