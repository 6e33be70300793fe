-------------------------- MODULE StateResolution ---------------------------
(***************************************************************************)
(* The graph of events: how the state of two branches is merged, and what  *)
(* is told of a past state.                                                *)
(***************************************************************************)
EXTENDS AuthRules, Sequences, SequencesExt, Integers

CONSTANTS
    MaxGroups,      \* max_state_groups
    MaxGroupEvents, \* max_events_per_state_group
    MaxConflicted,  \* max_conflicted_state_keys
    MaxMainline     \* max_mainline_auth_chain_depth

(***************************************************************************)
(* events/state_resolution.cpp: the depth-based merge of room version 1    *)
(* and the power-ordered merge of later versions.                          *)
(*                                                                         *)
(* A state group is a set of events, one at most for each (type, state     *)
(* key); the groups come in a sequence.  Besides what AuthRules reads, an  *)
(* event has its `id', a number standing for the event id's place in the   *)
(* order of strings, its origin_server_ts `ts', its `depth', the sequence  *)
(* `auth' of its auth event ids, and `has_json', whether its JSON is       *)
(* known.  A state is a function from keys to events.                      *)
(***************************************************************************)

Key(e) == <<e.type, e.key>>

Keys(groups) == {Key(e) : e \in UNION Range(groups)}

PowerKey == <<"power_levels", "">>

\* state_group_event
GroupEvent(group, k) == {e \in group : Key(e) = k}

Within(groups) == /\ Len(groups) <= MaxGroups
                  /\ \A i \in DOMAIN groups : Cardinality(groups[i]) <= MaxGroupEvents

Failure == [resolved |-> FALSE, state |-> <<>>]

Success(state) == [resolved |-> TRUE, state |-> state]

---------------------------------------------------------------------------
(* resolve_state: the deeper event wins, then the smaller event id.        *)

Winner(existing, candidate) ==
    IF candidate.depth # existing.depth
    THEN IF candidate.depth > existing.depth THEN candidate ELSE existing
    ELSE IF candidate.id < existing.id THEN candidate ELSE existing

\* The events that the groups give a key, in the order of the groups.
Candidates(groups, k) ==
    LET with == SelectSeq(groups, LAMBDA g : GroupEvent(g, k) # {}) IN
    [i \in DOMAIN with |-> The(GroupEvent(with[i], k))]

ResolveState(groups) ==
    IF ~Within(groups) THEN Failure
    ELSE Success([k \in Keys(groups) |->
            LET c == Candidates(groups, k) IN FoldLeft(Winner, Head(c), Tail(c))])

---------------------------------------------------------------------------
(* partition_conflicted_state: a key that some group lacks is conflicted;  *)
(* where all have it, the walk over the groups keeps one event until       *)
(* another comes, which takes it away, and the next is kept again.         *)

Keep(walk, e) ==
    IF walk.held = {} THEN [walk EXCEPT !.held = {e}]
    ELSE IF The(walk.held).id # e.id THEN [held |-> {}, clash |-> TRUE]
    ELSE walk

Walked(groups, k) ==
    FoldLeft(Keep, [held |-> {}, clash |-> FALSE], Candidates(groups, k))

InAll(groups, k) == \A i \in DOMAIN groups : GroupEvent(groups[i], k) # {}

Conflicted(groups) ==
    {k \in Keys(groups) : ~InAll(groups, k) \/ Walked(groups, k).clash}

Unconflicted(groups) ==
    LET keys == {k \in Keys(groups) : InAll(groups, k) /\ Walked(groups, k).held # {}} IN
    [k \in keys |-> The(Walked(groups, k).held)]

---------------------------------------------------------------------------
(* Power events, in the order of their senders' power.                     *)

\* extract_user_power
ExtractUserPower(content, u) ==
    Level(content.users, u, Level(content.levels, "users_default", 0))

\* power_level_from_event: a power_levels event speaks for its own sender.
SenderPower(e, unconflicted) ==
    IF Key(e) = PowerKey THEN ExtractUserPower(e.content, e.sender)
    ELSE IF PowerKey \in DOMAIN unconflicted /\ unconflicted[PowerKey].has_json
    THEN ExtractUserPower(unconflicted[PowerKey].content, e.sender)
    ELSE 0

\* Mutant: equal timestamps are left as they came.
OlderOnly(a, b) == a.ts < b.ts

\* Both orders end with the timestamp and the event id.
Older(a, b) == a.ts < b.ts \/ (a.ts = b.ts /\ a.id < b.id)

ReverseTopologicalPowerSort(events, unconflicted) ==
    SortSeq(events, LAMBDA a, b :
        LET pa == SenderPower(a, unconflicted)
            pb == SenderPower(b, unconflicted) IN
        pa > pb \/ (pa = pb /\ Older(a, b)))

IsPowerEvent(e) ==
    \/ e.type \in {"power_levels", "join_rules"} /\ e.key = ""
    \/ e.type = "member" /\ e.membership \in {"leave", "ban"} /\ e.sender # e.key

---------------------------------------------------------------------------
(* The mainline: the chain of power_levels events behind the resolved one. *)

\* build_event_json_index
EventIndex(groups) == {e \in UNION Range(groups) : e.has_json}

Indexed(index, id) == {e \in index : e.id = id}

\* power_levels_auth_ancestor: the first such auth event that is indexed.
PowerLevelsAuthAncestor(e, index) ==
    LET named == SelectSeq(e.auth, LAMBDA id : \E x \in Indexed(index, id) : x.type = "power_levels")
    IN IF named = <<>> THEN {} ELSE Indexed(index, Head(named))

RECURSIVE CollectMainline(_, _, _)
CollectMainline(e, index, mainline) ==
    IF Len(mainline) >= MaxMainline \/ Contains(mainline, e.id) THEN mainline
    ELSE LET ancestor == PowerLevelsAuthAncestor(e, index)
             longer == Append(mainline, e.id)
         IN IF ancestor = {} THEN longer ELSE CollectMainline(The(ancestor), index, longer)

\* numeric_limits<size_t>::max: past every place on a mainline.
Infinity == MaxMainline + 1

\* mainline_position: the first mainline event among the auth events of the
\* event, of its power_levels ancestor, and so on.
RECURSIVE MainlinePosition(_, _, _, _)
MainlinePosition(e, mainline, index, visited) ==
    LET hits == SelectSeq(e.auth, LAMBDA id : Contains(mainline, id))
        ancestor == PowerLevelsAuthAncestor(e, index)
    IN IF hits # <<>> THEN SelectInSeq(mainline, LAMBDA id : id = Head(hits))
       ELSE IF ancestor = {} \/ ancestor \subseteq visited \/ Cardinality(visited) >= MaxMainline
       THEN Infinity
       ELSE MainlinePosition(The(ancestor), mainline, index, visited \union ancestor)

MainlineOrder(events, resolved, index) ==
    LET mainline == IF PowerKey \in DOMAIN resolved /\ resolved[PowerKey].has_json
                    THEN CollectMainline(resolved[PowerKey], index, <<>>) ELSE <<>>
        position == [e \in Range(events) |->
                        IF Len(mainline) >= MaxMainline \/ ~e.has_json THEN Infinity
                        ELSE MainlinePosition(e, mainline, index, {})]
    IN SortSeq(events, LAMBDA a, b :
        position[a] > position[b] \/ (position[a] = position[b] /\ Older(a, b)))

---------------------------------------------------------------------------
(* The iterative authorisation checks.                                     *)

\* build_auth_event_map_from_state: the view AuthRules takes of a state.
AuthMapFromState(policy, e, state) ==
    LET Content(k) == IF k \in DOMAIN state THEN {state[k].content} ELSE {}
        seen == {e.sender} \union (IF e.type = "member" THEN {e.key} \union e.via ELSE {})
    IN [policy      |-> policy,
        create      |-> Content(<<"create", "">>),
        pl          |-> Content(PowerKey),
        join_rule   |-> Content(<<"join_rules", "">>),
        mem         |-> [u \in Users |-> IF u \in seen /\ <<"member", u>> \in DOMAIN state
                                         THEN state[<<"member", u>>].membership ELSE "none"],
        tokens      |-> {<<t, state[<<"third_party_invite", t>>].sender>> :
                            t \in {t \in e.token : <<"third_party_invite", t>> \in DOMAIN state}},
        authorisers |-> IF e.membership = "join"
                        THEN {w \in e.via : <<"member", w>> \in DOMAIN state} ELSE {}]

ApplyIterativeAuthChecks(policy, resolved, sorted) ==
    FoldLeft(LAMBDA state, e :
                IF e.has_json /\ Authorized(AuthMapFromState(policy, e, state), e)
                THEN (Key(e) :> e) @@ state ELSE state,
             resolved, sorted)

---------------------------------------------------------------------------
(* resolve_state_v2.                                                       *)

\* The events of the conflicted keys, each once, as the groups name them.
AllConflicted(groups) ==
    LET conflicted == Conflicted(groups)
        InGroup(g) == SetToSeq({e \in g : Key(e) \in conflicted}) IN
    FoldLeft(LAMBDA all, g : all \o SelectSeq(InGroup(g), LAMBDA e : ~Contains(all, e)),
             <<>>, groups)

ResolveStateV2(policy, groups) ==
    LET unconflicted == Unconflicted(groups)
        all == AllConflicted(groups)
        power == ReverseTopologicalPowerSort(SelectSeq(all, IsPowerEvent), unconflicted)
        settled == ApplyIterativeAuthChecks(policy, unconflicted, power)
        rest == MainlineOrder(SelectSeq(all, LAMBDA e : ~IsPowerEvent(e)), settled, EventIndex(groups))
    IN IF groups = <<>> THEN Success(<<>>)
       ELSE IF
          \/ ~Within(groups)
          \/ Keys(groups) = {} \/ Cardinality(Keys(groups)) > MaxConflicted
          \/ Len(all) > MaxConflicted
       THEN Failure
       ELSE Success(ApplyIterativeAuthChecks(policy, settled, rest))

\* apply_state_resolution_v2: what the caller writes as the room's state.
ApplyStateResolutionV2(policy, groups) ==
    IF groups = <<>> THEN Failure ELSE ResolveStateV2(policy, groups)

-----------------------------------------------------------------------------
(***************************************************************************)
(* federation/event_query.cpp: what a server is told of a room's past, out *)
(* of the stored events.                                                   *)
(*                                                                         *)
(* A store is [events, state]: the sequence of stored events, and the      *)
(* current state as a set of [room, id].  An event has its `id', a number  *)
(* standing for the place of the event id in the order of strings, `room', *)
(* `depth', the sequences `prev' and `auth' of event ids, `json' (whether  *)
(* its JSON is there and parses), and `key', the set of the (type, state   *)
(* key) that JSON gives it: empty for a message.                           *)
(***************************************************************************)

\* find_event: the first with that id.
FindEvent(store, id) ==
    LET i == SelectInSeq(store.events, LAMBDA e : e.id = id) IN
    IF i = 0 THEN {} ELSE {store.events[i]}

Ids(store) == {e.id : e \in Range(store.events)}

Event(store, id) == CHOOSE e \in FindEvent(store, id) : TRUE

---------------------------------------------------------------------------
(* The three walks are breadth-first over events that can be read.         *)

\* Ids not met before, each once, in order.
Fresh(ids, seen) ==
    FoldLeft(LAMBDA fresh, id : IF id \in seen \/ Contains(fresh, id) THEN fresh ELSE Append(fresh, id),
             <<>>, ids)

\* `links' gives the ids that each readable event names.
RECURSIVE Walk(_, _, _, _, _)
Walk(links, queue, seen, out, limit) ==
    IF queue = <<>> \/ Len(out) >= limit THEN out
    ELSE IF Head(queue) \notin DOMAIN links THEN Walk(links, Tail(queue), seen, out, limit)
    ELSE LET more == Fresh(links[Head(queue)], seen) IN
         Walk(links, Tail(queue) \o more, seen \union Range(more), Append(out, Head(queue)), limit)

WalkFrom(links, ids, limit) ==
    LET start == Fresh(ids, {}) IN Walk(links, start, Range(start), <<>>, limit)

AuthLinks(store) == [id \in Ids(store) |-> Event(store, id).auth]

PrevLinks(store, room) ==
    LET readable == {id \in Ids(store) : Event(store, id).room = room /\ Event(store, id).json} IN
    [id \in readable |-> Event(store, id).prev]

\* No walk is longer than the store.
NoLimit(store) == Len(store.events) + 1

CollectAuthChain(store, seeds) == WalkFrom(AuthLinks(store), seeds, NoLimit(store))

---------------------------------------------------------------------------
(* The state before and after an event.                                    *)

\* The greatest (depth, event id).
Deepest(store, ids) ==
    {x \in Range(ids) : \A y \in Range(ids) \ {x} :
        \/ Event(store, x).depth > Event(store, y).depth
        \/ Event(store, x).depth = Event(store, y).depth /\ x > y}

ReconstructStateAtEvent(store, room, at) ==
    IF at \notin Ids(store) \/ Event(store, at).room # room THEN {}
    ELSE LET past == WalkFrom(PrevLinks(store, room), Event(store, at).prev, NoLimit(store))
             keys == UNION {Event(store, id).key : id \in Range(past)}
         IN UNION {Deepest(store, SelectSeq(past, LAMBDA id : k \in Event(store, id).key)) : k \in keys}

CurrentStateEventIds(store, room) == {s.id : s \in {s \in store.state : s.room = room}}

ResolvedStateEventIds(store, room, at) ==
    IF at \in Ids(store) THEN ReconstructStateAtEvent(store, room, at)
                         ELSE CurrentStateEventIds(store, room)

ReconstructStateIncludingEvent(store, room, at) ==
    LET before == ReconstructStateAtEvent(store, room, at)
        own == Event(store, at).key
    IN IF own = {} THEN before
       ELSE {id \in before : Event(store, id).key \intersect own = {}} \union {at}

\* resolve_state_event_ids_at, for members and state at a point in time.
ResolveStateEventIdsAt(store, room, at) ==
    IF at \in Ids(store) /\ Event(store, at).room = room
    THEN ReconstructStateIncludingEvent(store, room, at)
    ELSE CurrentStateEventIds(store, room)

---------------------------------------------------------------------------
(* The responses.                                                          *)

\* build_event_response
EventResponse(store, id) == {e \in FindEvent(store, id) : e.json}

Seeds(store, ids) == FlattenSeq(SetToSeq({Event(store, id).auth : id \in ids}))

\* build_state_response gives bodies, so only of events that can be read.
StateResponse(store, room, at) ==
    LET pdus == {id \in ResolvedStateEventIds(store, room, at) \intersect Ids(store) : Event(store, id).json}
    IN [pdus |-> pdus,
        auth_chain |-> IF pdus = {} THEN {}
                       ELSE {id \in Range(CollectAuthChain(store, Seeds(store, pdus))) : Event(store, id).json}]

StateIdsResponse(store, room, at) ==
    LET ids == ResolvedStateEventIds(store, room, at) IN
    [pdu_ids |-> ids,
     auth_chain_ids |-> Range(CollectAuthChain(store, Seeds(store, ids \intersect Ids(store))))]

BackfillPdus(store, room, ids, limit) == WalkFrom(PrevLinks(store, room), ids, limit)

\* build_get_missing_events_response: by depth from min_depth on; a limit
\* that is not positive reads as ten.  Equal depths come in any order.
GetMissingEvents(store, room, min_depth, limit) ==
    LET capped == IF limit > 0 THEN limit ELSE 10
        readable == SelectSeq(store.events, LAMBDA e : e.room = room /\ e.json /\ e.depth >= min_depth)
        sorted == SortSeq(readable, LAMBDA x, y : x.depth < y.depth)
    IN SubSeq(sorted, 1, IF Len(sorted) < capped THEN Len(sorted) ELSE capped)
=============================================================================
