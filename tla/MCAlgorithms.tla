---------------------------- MODULE MCAlgorithms ----------------------------
(***************************************************************************)
(* What clients and other servers are answered: the pure algorithms, each  *)
(* against what it should compute, and the state machines of sliding sync, *)
(* notifications and media.  `focus' says which one a behaviour is about.  *)
(* The `input' of an algorithm grows from nothing, or is one of a set, up  *)
(* to the bounds named below; the rest stays as it began.                  *)
(***************************************************************************)
EXTENDS Integers, Sequences, FiniteSets, SequencesExt, TLC

VARIABLES
    focus, input,
    posted, joined, syncId, receipts, typing, account, conns, lru, asked, reply, client, guessed, lost, cancelled,
    pushers, history, historyRows, lastOrdering, tasks, inFlight, lostPlaces, dropped, reader, sets,
    records, blobs, sequence, mediaRows, blobRows, blocked, fetching, served,
    faults, restarts

sliding == <<posted, joined, syncId, receipts, typing, account, conns, lru, asked, reply, client, guessed, lost, cancelled>>
notifications == <<pushers, history, historyRows, lastOrdering, tasks, inFlight, lostPlaces, dropped, reader, sets>>
media == <<records, blobs, sequence, mediaRows, blobRows, blocked, fetching, served>>
vars == <<focus, input, sliding, notifications, media, faults, restarts>>

---------------------------------------------------------------------------
(* Event graphs: every history of at most MaxEvents events.  An event is   *)
(* one deeper than the deepest it follows, but for one at most whose       *)
(* sender's server gave it no depth: a peer's depth is taken as it is.     *)

MaxEvents == 4

Policy == [privilege_room_creators |-> FALSE, checks_federate |-> TRUE]

Two == {"a", "b"}

S == INSTANCE StateResolution WITH
        Users <- Two, HomeOf <- [u \in Two |-> "h"], MaxGroups <- 3, MaxGroupEvents <- 6,
        MaxConflicted <- 12, MaxMainline <- 5

Depth(store, past) == IF past = {} THEN 1 ELSE 1 + Max({S!Event(store, x).depth : x \in past})

\* Every event is deeper than those it follows.
DepthsAreRight(store) == \A e \in Range(store.events) : e.depth = Depth(store, Range(e.prev))

AddEvent(past, prev, auth, key, depth) ==
    input' = [input EXCEPT !.events = Append(@,
        [id |-> Len(@) + 1, room |-> "r", depth |-> depth, prev |-> prev, auth |-> SetToSeq(auth),
         json |-> TRUE, key |-> key])]

ExtendGraph ==
    /\ focus = "graph" /\ Len(input.events) < MaxEvents
    /\ \E past \in SUBSET S!Ids(input), key \in {{}, {"topic"}} :
        /\ past = {} => input.events = <<>>
        /\ \E prev \in SetToSeqs(past), auth \in {past, {}}, depth \in {Depth(input, past), 0} :
            /\ depth = 0 => DepthsAreRight(input) /\ auth = past
            /\ AddEvent(past, prev, auth, key, depth)
    /\ UNCHANGED focus

RECURSIVE Past(_, _)
Past(store, id) ==
    LET prev == Range(S!Event(store, id).prev) IN prev \union UNION {Past(store, p) : p \in prev}

Topics(store, id) == {x \in Past(store, id) : "topic" \in S!Event(store, x).key}

\* Those of a key's events before `id' that no other of them follows.
Latest(store, id) ==
    {x \in Topics(store, id) : \A y \in Topics(store, id) : x \notin Past(store, y)}

Newest == S!Ids(input) \intersect {Len(input.events)}

(* reconstruct_state_at_event gives the state before an event: where no    *)
(* two branches have set a key since, the last event that set it, however  *)
(* the branches that lead there are ordered.  The state at an event        *)
(* (resolve_state_event_ids_at) is the one that the next event follows.    *)
(* Both take the deepest event for the last, and are claimed where depths  *)
(* are right: parse_inbound_pdu_envelope does not compare them.  Every     *)
(* event is the newest of the history that ends with it.                   *)
PastStateIsExact ==
    focus = "graph" /\ DepthsAreRight(input) => \A id \in Newest :
        /\ Cardinality(Latest(input, id)) <= 1 =>
            S!ReconstructStateAtEvent(input, "r", id) = Latest(input, id)
        /\ \A last \in S!Ids(input) : S!Event(input, id).prev = <<last>> =>
            S!ReconstructStateAtEvent(input, "r", id) = S!ResolveStateEventIdsAt(input, "r", last)

(* What build_state_response and build_backfill_pdus give a server can be  *)
(* checked by it: every auth event of an event in the response is in the   *)
(* auth chain; the ids build_state_ids_response gives are those events,    *)
(* and build_event_response has each of them; a backfill is of distinct    *)
(* past events, and leaves none out unless it is full; and the missing     *)
(* events come after the ones they follow, where depths are right, and     *)
(* none below the least depth.  The rest holds of any depths.              *)
AnswersAreClosed ==
    focus = "graph" => \A id \in Newest :
        /\ \A r \in {S!StateResponse(input, "r", id)} :
           /\ \A x \in r.pdus \union r.auth_chain :
                /\ Range(S!Event(input, x).auth) \subseteq r.auth_chain
                /\ S!EventResponse(input, x) # {}
           /\ S!StateIdsResponse(input, "r", id) = [pdu_ids |-> r.pdus, auth_chain_ids |-> r.auth_chain]
        /\ \A n \in 1 .. MaxEvents :
            LET all == {id} \union Past(input, id) IN
            \A r \in {S!BackfillPdus(input, "r", <<id>>, n)} :
               /\ Range(r) \subseteq all /\ Cardinality(Range(r)) = Len(r)
               /\ Len(r) = n \/ Range(r) = all
        /\ \A n \in {0, 2}, depth \in 1 .. MaxEvents :
            LET all == {e \in Range(input.events) : e.depth >= depth} IN
            \A r \in {S!GetMissingEvents(input, "r", depth, n)} :
               /\ Range(r) \subseteq all
               /\ Len(r) = n \/ Range(r) = all
               /\ DepthsAreRight(input) => \A i, j \in DOMAIN r : r[i].id \in Range(r[j].prev) => i < j

---------------------------------------------------------------------------
(* State resolution: branches of a room of a (100) and b (50), in which a  *)
(* may have changed b's level, kicked or banned b, and either may have set *)
(* the topic: any two, and where the first sets none, as a third that one  *)
(* again or the branch in which nothing of that happened.                  *)

NoContent == [levels |-> <<>>, users |-> <<>>, events |-> <<>>]

StateEvent(id, type, key, sender, ts, auth, membership, content) ==
    [id |-> id, type |-> type, key |-> key, sender |-> sender, ts |-> ts, depth |-> ts, auth |-> auth,
     has_json |-> TRUE, membership |-> membership, content |-> content, wellformed |-> TRUE,
     via |-> {}, token |-> {}]

Levels(b) == [levels |-> <<>>, users |-> ("a" :> 100) @@ ("b" :> b), events |-> <<>>]

CreateEvent == StateEvent(1, "create", "", "a", 0, <<>>, "none", [creator |-> {"a"}, creators |-> {"a"}, federate |-> TRUE])
JoinRules == StateEvent(3, "join_rules", "", "a", 1, <<1, 2>>, "none", "public")
MemberA == StateEvent(5, "member", "a", "a", 1, <<1>>, "join", NoContent)

PowerLevels == {StateEvent(2, "power_levels", "", "a", 1, <<1>>, "none", Levels(50)),
                StateEvent(10, "power_levels", "", "a", 5, <<1, 2>>, "none", Levels(0)),
                StateEvent(11, "power_levels", "", "b", 5, <<1, 2>>, "none", Levels(0))}

MembersB == {StateEvent(6, "member", "b", "b", 2, <<1, 2, 3>>, "join", NoContent),
             StateEvent(7, "member", "b", "a", 5, <<1, 2, 6>>, "ban", NoContent),
             StateEvent(8, "member", "b", "a", 5, <<1, 2, 6>>, "leave", NoContent),
             StateEvent(9, "member", "b", "b", 5, <<1, 2, 6>>, "leave", NoContent)}

TopicEvents == {StateEvent(20, "topic", "", "a", 3, <<1, 2, 5>>, "none", NoContent),
                StateEvent(21, "topic", "", "b", 6, <<1, 2, 6>>, "none", NoContent),
                StateEvent(22, "topic", "", "b", 6, <<1, 10, 6>>, "none", NoContent)}

Branches == {{CreateEvent, JoinRules, MemberA, pl, b} \union topic :
                pl \in PowerLevels, b \in MembersB, topic \in {{}} \union {{t} : t \in TopicEvents}}

OldestBranch ==
    {CreateEvent, JoinRules, MemberA} \union {e \in PowerLevels \union MembersB : e.id \in {2, 6}}

ExtendBranches ==
    /\ focus = "resolution" /\ Len(input) < 3
    /\ \E branch \in IF Len(input) < 2 THEN Branches ELSE {input[1], OldestBranch} :
        /\ Len(input) = 2 => input[1] \intersect TopicEvents = {}
        /\ input' = Append(input, branch)
    /\ UNCHANGED focus

Orders(groups) == {[i \in DOMAIN groups |-> groups[p[i]]] : p \in Permutations(DOMAIN groups)}

\* No key of a partition is both conflicted and unconflicted.
Partitioned(groups) == S!Conflicted(groups) \intersect DOMAIN S!Unconflicted(groups) = {}

(* resolve_state_v2 and resolve_state merge branches into the same state   *)
(* whichever comes first, and a branch with itself into itself; and where  *)
(* the merge bans a user, nothing of the user's that was in conflict is    *)
(* left in it.  Of resolve_state_v2 this is claimed where                  *)
(* partition_conflicted_state leaves its two parts disjoint, as it always  *)
(* does for two branches: of three, one that comes after two that differ   *)
(* puts an event back into the unconflicted part.                          *)
MergesConverge ==
    focus = "resolution" /\ Len(input) >= 2 =>
        \A merged \in {S!ApplyStateResolutionV2(Policy, input).state} :
            LET member == <<"member", "b">> IN
            /\ Len(input) = 2 => Partitioned(input)
            /\ Partitioned(input) => \A other \in Orders(input) :
                Partitioned(other) => S!ApplyStateResolutionV2(Policy, other).state = merged
            /\ \A other \in Orders(input) : S!ResolveState(input) = S!ResolveState(other)
            /\ Cardinality(Range(input)) = 1 => Range(merged) = input[1]
            /\ Partitioned(input) /\ member \in DOMAIN merged /\ merged[member].membership = "ban" =>
                \A k \in S!Conflicted(input) \intersect DOMAIN merged : merged[k].sender # "b"

---------------------------------------------------------------------------
(* Globs: patterns and texts of at most MaxText characters.                *)

MaxText == 3

Folded == [c \in {"a", "B", "b", "*", "?", " "} |-> IF c = "B" THEN "b" ELSE c]

Acl == INSTANCE ServerDiscovery WITH
        Lower <- Folded, IpLiteral <- {}, Literals <- <<>>, Dotted <- {}, PortWords <- <<>>, Prefixed <- <<>>,
        Missing <- "missing", Garbled <- "garbled"

P == INSTANCE PushRules WITH Fold <- Folded, WordCharacters <- {"a", "B", "b"}, MaxCount <- 20

ExtendGlob ==
    /\ focus = "globs"
    /\ \/ /\ Len(input.pattern) < MaxText
          /\ \E c \in {"a", "B", "*", "?"} : input' = [input EXCEPT !.pattern = Append(@, c)]
       \/ /\ Len(input.text) < MaxText
          /\ \E c \in {"a", "b", " "} : input' = [input EXCEPT !.text = Append(@, c)]
    /\ UNCHANGED focus

\* A star stands for any run of characters, a question mark for any one.
RECURSIVE Matches(_, _)
Matches(pattern, text) ==
    IF pattern = <<>> THEN text = <<>>
    ELSE IF Head(pattern) = "*"
    THEN \E i \in 0 .. Len(text) : Matches(Tail(pattern), SubSeq(text, i + 1, Len(text)))
    ELSE /\ text # <<>>
         /\ Head(pattern) = "?" \/ Folded[Head(pattern)] = Folded[Head(text)]
         /\ Matches(Tail(pattern), Tail(text))

(* glob_match of the server ACLs and glob_matches_full of the push rules   *)
(* agree with what a glob means, ignoring case; a literal is found in a    *)
(* message by contains_literal_word_boundary_substring exactly when the    *)
(* same text is as a pattern; and an ACL that has an allow list lets in    *)
(* what that list matches and its deny list does not, and nothing else.    *)
(* Nothing is claimed of an ACL without an allow list, which the code      *)
(* takes for one that allows everybody.                                    *)
GlobsAgree ==
    focus = "globs" =>
        LET p == input.pattern
            t == input.text
        IN /\ Acl!GlobMatch(p, t) = Matches(p, t)
           /\ P!GlobMatchesFull(P!Lowered(t), P!Lowered(p)) = Matches(p, t)
           /\ p # <<>> /\ Range(p) \intersect {"*", "?"} = {} =>
                P!ContainsLiteralWordBoundarySubstring(t, p) = P!GlobMatchesWordBoundarySubstring(t, p)
           /\ t # <<>> => \A allow, deny \in {{}, {p}, {<<"*">>}} :
                LET content == [allow_ip_literals |-> {}, allow |-> {allow}, deny |-> {deny}]
                    In(list) == \E glob \in list : Matches(glob, t)
                IN  allow # {} => (Acl!RoomServerAclAllows({content}, t) <=> In(allow) /\ ~In(deny))

---------------------------------------------------------------------------
(* Push rulesets: for each kind, no rule or one of a few.                  *)

Txt(s) == <<"str", <<s>>>>

Rule(id, enabled, members, action) ==
    <<"obj", (<<"rule_id">> :> Txt(id)) @@ (<<"enabled">> :> <<"bool", enabled>>) @@
             (<<"actions">> :> <<"arr", <<Txt(action)>>>>) @@ members>>

Condition(kind, members) == <<"obj", (<<"kind">> :> Txt(kind)) @@ members>>

Conditions(c) == <<"conditions">> :> <<"arr", c>>

Hello == Conditions(<<Condition("event_match", (<<"key">> :> <<"str", <<"content", ".", "body">>>>)
                                              @@ (<<"pattern">> :> Txt("a")))>>)

OneToOne == Conditions(<<Condition("room_member_count", <<"is">> :> <<"str", <<"=", "=", "2">>>>),
                         Condition("unheard_of", <<>>)>>)

RulesOf(kind) ==
    CASE kind = "override" -> {Rule(".m.rule.master", e, <<>>, "dont_notify") : e \in BOOLEAN}
                              \union {Rule("o", e, Hello, "notify") : e \in BOOLEAN}
      [] kind = "content" -> {Rule("c", e, <<"pattern">> :> Txt("a"), "notify") : e \in BOOLEAN}
      [] kind = "room" -> {Rule("r", e, <<>>, "notify") : e \in BOOLEAN}
      [] kind = "sender" -> {Rule("s", e, <<>>, "dont_notify") : e \in BOOLEAN}
      [] kind = "underride" -> {Rule("u", TRUE, Hello, "notify"), Rule("n", TRUE, OneToOne, "notify")}

Rulesets == [override : {<<>>} \union {<<x>> : x \in RulesOf("override")}
                               \union {s \in {<<x, y>> : x, y \in RulesOf("override")} :
                                            s[1][2][<<"rule_id">>] # s[2][2][<<"rule_id">>]},
             content : {<<>>} \union {<<x>> : x \in RulesOf("content")},
             room : {<<>>} \union {<<x>> : x \in RulesOf("room")},
             sender : {<<>>} \union {<<x>> : x \in RulesOf("sender")},
             underride : {<<>>} \union {<<x>> : x \in RulesOf("underride")}]

Ruleset(rules) == {<<"obj", [k \in {<<kind>> : kind \in Range(P!Kinds)} |-> <<"arr", rules[k[1]]>>]>>}

EnabledRules(rules) == [k \in DOMAIN rules |->
                    SelectSeq(rules[k], LAMBDA x : x[2][<<"enabled">>] = <<"bool", TRUE>>)]

Messages == {<<"obj", (<<"sender">> :> Txt(s)) @@ (<<"room_id">> :> Txt(r)) @@
                (<<"content">> :> <<"obj", <<"body">> :> <<"str", body>>>>)>> :
             s \in {"s", "me"}, r \in {"r", "r2"}, body \in {<<"a">>, <<"b">>}}

Context == [user |-> <<"me">>, display_name |-> <<>>, member_count |-> 2, sender_power |-> 0,
            notification_levels |-> <<>>, default_notification_level |-> 50]

Verdict(rules, message) == P!EvaluatePushRules(P!ParsePushRuleset(Ruleset(rules)), message, Context)

ChooseMessage ==
    /\ focus = "push" /\ input.message = {}
    /\ \E m \in Messages : input' = [input EXCEPT !.message = {m}]
    /\ UNCHANGED focus

(* evaluate_push_rules decides by the first rule that applies: rules that  *)
(* are switched off might as well not be there, a rule of a later kind     *)
(* changes nothing once an earlier one has decided, the master rule        *)
(* silences everything, and nobody is notified of their own message.       *)
FirstRuleDecides ==
    focus = "push" => \A m \in input.message :
        \A verdict \in {Verdict(input.rules, m)} :
        /\ verdict = Verdict(EnabledRules(input.rules), m)
        /\ verdict.rule_id # <<>> /\ verdict.rule_id[1] \notin {"u", "n"} =>
            verdict = Verdict([input.rules EXCEPT !["underride"] = <<>>], m)
        /\ Rule(".m.rule.master", TRUE, <<>>, "dont_notify") \in Range(EnabledRules(input.rules)["override"]) =>
            ~verdict.notify
        /\ P!Sender(m) = Context.user => ~verdict.notify

---------------------------------------------------------------------------
(* Sync tokens and path components.                                        *)

C == INSTANCE Codecs WITH MaxU64 <- 255, MaxHexDigits <- 2, MaxBackfill <- 3, Max32 <- 20, MaxHttp <- 999,
                          Base <- 4, MaxPort <- 99

Numbers == {0, 9, 10, 15, 16, 160, 255}

Tokens == [event : Numbers, membership : Numbers, sync : Numbers]

\* % + / ? A 4 ~ and a byte above ASCII
PathBytes == {37, 43, 47, 63, 65, 52, 126, 200}

ExtendText ==
    /\ focus = "texts" /\ Len(input) < 4
    /\ \E b \in PathBytes : input' = Append(input, b)
    /\ UNCHANGED focus

---------------------------------------------------------------------------
(* Media envelopes, redirects and thumbnails.                              *)

Boundary == <<66, 67>>

\* Line ends, dashes and the bytes of the boundary.
ExtendMedia ==
    /\ focus = "media" /\ Len(input) < 5
    /\ \E b \in {C!Return, C!Newline, C!Dash, 66, 67} : input' = Append(input, b)
    /\ UNCHANGED focus

\* No line of the media is the boundary.
FreeOfBoundary(bytes) ==
    LET body == <<C!Newline>> \o bytes \o C!CRLF IN ~\E i \in DOMAIN body : C!BoundaryAt(body, Boundary, i)

HeaderOf(quoted) ==
    LET q == IF quoted THEN <<C!Quote>> ELSE <<>> IN
    <<300, C!Semicolon, 301, C!Equals, 302, C!Semicolon, C!Space, C!BoundaryWord, C!Equals>> \o q \o Boundary \o q

Thumbnails == [format : Range(C!Formats), method : Range(C!Methods), width : {0, 1, 255}, height : {4, 64},
               max_pixels : {255}, bytes : {<<>>, <<7, 7>>}]

Answers == [status : Range(C!Statuses), width : {0, 255}, height : {1, 16}, png : {<<>>, <<1>>, <<1, 2, 3>>}]

ThumbnailConfig == [worker |-> TRUE, max_input |-> 2, max_output |-> 2, max_dimension |-> 64]

Worker(answer) == [started |-> TRUE, sent |-> TRUE, ended |-> TRUE, answer |-> answer]

ExtendAuthority ==
    /\ focus = "authority" /\ Len(input) < 5
    /\ \E b \in {97, 49, 48, C!Colon, C!Slash, 64, 91, 93} : input' = Append(input, b)
    /\ UNCHANGED focus

---------------------------------------------------------------------------
(* What encode_stream_token writes, decode_stream_token reads back; what   *)
(* percent_encode_path_component writes is one path component that         *)
(* parse_membership_path, parse_query_params and parse_backfill_query read *)
(* back, whatever bytes an identifier has; a filter lets through the types *)
(* its patterns cover, and none it excludes; and                           *)
(* the media build_federation_media_download_body wraps comes out of       *)
(* parse_federation_media_multipart byte for byte, line ends and dashes    *)
(* and all, unless a line of it is the boundary.                           *)
CodecsRoundTrip ==
    /\ focus = "media" /\ FreeOfBoundary(input) => \A quoted \in BOOLEAN :
        C!ParseFederationMediaMultipart(HeaderOf(quoted),
                                        C!BuildFederationMediaDownloadBody(400, quoted, input, Boundary))
            = {[redirect |-> FALSE, bytes |-> input, type |-> <<400>>]}
    /\ focus = "authority" => \A a \in C!ParseHttpsAuthority(input) :
        /\ a.port \in 1 .. 99 \union {443}
        /\ Range(a.host) \intersect {C!Slash, 64} = {}
    /\ focus = "token" => C!DecodeStreamToken(C!EncodeStreamToken(input)) = {input}
    /\ focus = "texts" =>
        LET encoded == C!PercentEncodePathComponent(input) IN
        /\ C!PercentDecodePathComponent(encoded) = input
        /\ input # <<>> /\ 47 \notin Range(input) =>
            /\ C!ParseMembershipPath(encoded \o <<47>> \o encoded \o <<63>>) = {<<input, input>>}
            /\ C!ParseQueryParams(<<[key |-> "since", value |-> encoded]>>).since = input
            /\ \A number \in {{}, {0}, {4}} :
                C!ParseBackfillQuery(encoded, <<[key |-> "limit", value |-> <<52>>, number |-> number],
                                                [key |-> "v", value |-> encoded, number |-> {}],
                                                [key |-> "limit", value |-> <<>>, number |-> {}]>>)
                = {[room |-> input, ids |-> <<input>>, limit |-> {Min({n, 3})}] : n \in number}
        /\ input # <<>> => \A n \in 0 .. Len(input), other \in {<<65>>, <<65, 42>>} :
            LET pattern == SubSeq(input, 1, n) \o <<42>>
                Passes(types, excluded) ==
                    C!EventPassesFilter([types |-> types, not_types |-> excluded, senders |-> {}, not_senders |-> {}],
                                        input, "u")
            IN /\ Passes({pattern}, {}) /\ Passes({pattern, other}, {}) /\ ~Passes({other}, {pattern})
               /\ Passes({other}, {}) = (Head(input) = 65 /\ (other = <<65, 42>> \/ Len(input) = 1))
               /\ \A rooms \in SUBSET {input, other} :
                    /\ C!RoomPassesFilter([rooms |-> {}, not_rooms |-> rooms], input) = (input \notin rooms)
                    /\ C!RoomPassesFilter([rooms |-> rooms, not_rooms |-> {other}], other) = FALSE

---------------------------------------------------------------------------
(* Canonical JSON: bytes on both sides of every boundary of UTF-8, number  *)
(* tokens, and pairs of values.                                            *)

Bytes == {127, 128, 143, 144, 159, 160, 191, 193, 194, 224, 237, 239, 240, 244, 245}

ExtendBytes ==
    /\ focus = "bytes" /\ Len(input) < 4
    /\ \E b \in Bytes : input' = Append(input, b)
    /\ UNCHANGED focus

\* The well-formed byte sequences of one character, as Unicode lists them.
OneCharacter ==
    {<< <<0, 127>> >>, << <<194, 223>>, <<128, 191>> >>,
     << <<224, 224>>, <<160, 191>>, <<128, 191>> >>, << <<225, 236>>, <<128, 191>>, <<128, 191>> >>,
     << <<237, 237>>, <<128, 159>>, <<128, 191>> >>, << <<238, 239>>, <<128, 191>>, <<128, 191>> >>,
     << <<240, 240>>, <<144, 191>>, <<128, 191>>, <<128, 191>> >>,
     << <<241, 243>>, <<128, 191>>, <<128, 191>>, <<128, 191>> >>,
     << <<244, 244>>, <<128, 143>>, <<128, 191>>, <<128, 191>> >>}

RECURSIVE WellFormed(_)
WellFormed(bytes) ==
    bytes = <<>> \/ \E c \in OneCharacter :
        /\ Len(c) <= Len(bytes)
        /\ \A i \in DOMAIN c : bytes[i] \in c[i][1] .. c[i][2]
        /\ WellFormed(SubSeq(bytes, Len(c) + 1, Len(bytes)))

(* utf8_is_valid accepts exactly the well-formed UTF-8 texts: no overlong  *)
(* form, no surrogate, nothing past the last code point, nothing cut off.  *)
OnlyWellFormedUtf8 == focus = "bytes" => C!Utf8Valid(input) = WellFormed(input)

MaxSafe == 100

ExtendNumber ==
    /\ focus = "number" /\ Len(input) < 4
    /\ \E c \in {"-", "0", "1", "9", "."} : input' = Append(input, c)
    /\ UNCHANGED focus

RECURSIVE Decimal(_)
Decimal(n) == LET last == <<CASE n % 10 = 0 -> "0" [] n % 10 = 1 -> "1" [] OTHER -> "9">> IN
              IF n < 10 THEN last ELSE Decimal(n \div 10) \o last

\* The integer a text is the decimal text of.
Denoted(text) ==
    {n \in {0, 1, 9, 10, 11, 19, 90, 91, 99, 100} : Decimal(n) = text} \union
    {-n : n \in {n \in {1, 9, 10, 11, 19, 90, 91, 99, 100} : <<"-">> \o Decimal(n) = text}}

Leaves == {[type |-> "null", v |-> "null"], [type |-> "int", v |-> "0"], [type |-> "string", v |-> "a"],
           [type |-> "string", v |-> "broken"], [type |-> "double", v |-> "0.5"]}

Inner == {[type |-> "array", v |-> <<>>], [type |-> "object", v |-> <<>>]}

Member(k, v) == [key |-> k, value |-> v]

Outer == {[type |-> "array", v |-> x] : x \in {<<v>> : v \in Leaves \union Inner}}
         \union {[type |-> "object", v |-> x] :
                    x \in {<<Member(k, v)>> : k \in {"a", "signatures", "broken"}, v \in Leaves \union Inner}
                          \union {<<Member(k, v), Member(l, w)>> :
                                    k, l \in Range(C!KeyOrder), v, w \in {l \in Leaves : l.v # "null"}}}

Values == Leaves \union Inner \union Outer

\* What a value denotes: an object is a function from its keys.
RECURSIVE Meaning(_)
Meaning(v) ==
    CASE v.type = "array" -> [type |-> "array", items |-> [i \in DOMAIN v.v |-> Meaning(v.v[i])]]
      [] v.type = "object" -> [type |-> "object",
                               members |-> {<<v.v[i].key, Meaning(v.v[i].value)>> : i \in DOMAIN v.v}]
      [] OTHER -> v

ChooseOther ==
    /\ focus = "json" /\ Len(input) = 1
    /\ \E v \in Values : v.type = input[1].type /\ input' = Append(input, v)
    /\ UNCHANGED focus

\* Integers, booleans, null and whole strings, in arrays and in objects with
\* one member of a name.
RECURSIVE HasText(_, _)
HasText(v, floats) ==
    CASE v.type = "array"  -> \A i \in DOMAIN v.v : HasText(v.v[i], floats)
      [] v.type = "object" -> \A i \in DOMAIN v.v :
                                /\ HasText(v.v[i].value, floats) /\ v.v[i].key # "broken"
                                /\ \A j \in DOMAIN v.v \ {i} : v.v[j].key # v.v[i].key
      [] v.type = "double" -> floats
      [] OTHER             -> v.v # "broken"

(* raw_number_as_int64 reads an integer from its one decimal text and from *)
(* no other; serialize_canonical_strict gives two values the same text     *)
(* exactly when they are the same, however their members were ordered, and *)
(* refuses those with a float, a string that is not UTF-8 or a repeated    *)
(* key (serialize_canonical lets the floats through), and no others; and   *)
(* what make_signable_object_view signs is the object but for its          *)
(* signatures and its unsigned part.                                       *)
OneTextPerValue ==
    /\ focus = "number" =>
        C!Number(input, MaxSafe) \in (IF Denoted(input) = {} THEN {"invalid_number", "integer_out_of_range"}
                                                             ELSE Denoted(input))
    /\ focus = "json" => \A i \in DOMAIN input, strict \in BOOLEAN :
        C!SerializeValue(input[i], strict).ok = HasText(input[i], ~strict)
    /\ focus = "json" /\ Len(input) = 2 =>
        LET text == [i \in 1 .. 2 |-> C!SerializeValue(input[i], TRUE)]
            Unsigned(v) == {<<m.key, Meaning(m.value)>> :
                                m \in {m \in Range(v.v) : m.key \notin {"signatures", "unsigned"}}}
        IN /\ text[1].ok /\ text[2].ok => (text[1] = text[2] <=> Meaning(input[1]) = Meaning(input[2]))
           /\ input[1].type = "object" /\ C!Signable(input[1]).ok /\ C!Signable(input[2]).ok =>
                (C!Signable(input[1]) = C!Signable(input[2]) <=> Unsigned(input[1]) = Unsigned(input[2]))

---------------------------------------------------------------------------
(* Frames: messages as one process hands them to the other.                *)

Lists == {<<>>, <<"x">>, <<"y", "x">>}

Pdus == [event_id : {"$e"}, room_id : {"!r"}, room_version : {"10"}, sender : {"@x"}, event_type : {"m"},
         state_key : {<<>>, <<"">>, <<"k">>}, origin_server_ts : {-1, 0, 5}, depth : {0, 5},
         auth_event_ids : Lists, prev_event_ids : Lists,
         signatures : {<<>>, <<[sn |-> "s", ki |-> "k", sig |-> "x"]>>}, json : {"{}"}]

Contents == [kind : {"empty", "array"}, members : {{}}] \union
            [kind : {"object"}, members : {{}, {"room_id", "user_id"}, {"room_id", "user_id", "typing"}, {"push"},
                                           {"sender", "type", "messages"}, {"user_id", "device_id", "stream_id"}}]

Edus == [edu_type : {"", "m.typing", "m.receipt", "m.presence", "m.direct_to_device", "m.device_list_update",
                     "m.other"}, origin : {"", "x"}, content_json : Contents]

\* Those parse_inbound_edu_envelope made in the worker: only they are sent.
Complete(m) == C!ParseInboundEduEnvelope(m.edu_type, m.origin, m.content_json) # {}

PduResults == [status : {"accepted", "rejected_auth", "rejected_state_conflict", "rejected_invalid",
                         "internal_error"}, reason : {"", "x"}, accepted_stream_ordering : {0, 7}]

EduResults == [status : {"accepted", "dropped_unknown_type", "rejected_invalid"}, reason : {"", "x"}]

Invites == [room_id : {"!r"}, event_id : {"$e"}, room_version : {"", "10"}, invite_event_json : {"{}"},
            origin : {"x"}, invite_room_state_json : Lists]

InviteResults == [accepted : BOOLEAN, status : {200, 403}, reason : {"", "x"}, signed_event_json : {"", "{}"}]

MembershipResults == [accepted : BOOLEAN, status : {200, 403}, reason : {""}, signed_event_json : {"", "{}"},
                      room_version : {"", "10"}, auth_chain_json : Lists, state_json : Lists,
                      knock_room_state_json : Lists]

Profiles == [found : BOOLEAN, displayname : {"", "x"}, avatar_url : {"", "x"}]

HeaderLists == {<<>>, << <<"a", "1">> >>, << <<"a", "">>, <<"b", "2">> >>}

FedRequests == [method : {"PUT"}, target : {"/"}, remote_addr : {"", "1"}, sig_verified : BOOLEAN,
                verified_origin : {"", "x"}, verified_key_id : {"", "k"},
                headers : HeaderLists \union {<< <<"a", "broken">> >>}, body : {"", "{}"}]

\* Bodies of every length modulo three, with bytes that are no UTF-8.
Bodies == {<<>>, <<255>>, <<0, 34>>, <<128, 1, 77>>, <<123, 34, 255, 0>>}

FedResponses == [status : {200, 404, 999}, headers : HeaderLists, body : Bodies]

OutboundRequests == [method : {"GET"}, url : {"u"}, headers : HeaderLists, pinned_addresses : Lists,
                     body : {"", "x"}, connect_timeout : {0, 20}, total_timeout : {0, 20}, max_body_bytes : {0, 50}]

OutboundResponses ==
    [ok : {TRUE}, status : {0, 20}, body : Bodies, error : {"none"}, error_detail : {"", "x"}]
    \union [ok : {FALSE}, status : {0}, body : {<<>>}, error : {"timeout", "network_error"}, error_detail : {"", "x"}]

MessagesOf(kind) ==
    CASE kind = "pdu" -> Pdus
      [] kind = "pdu_result" -> PduResults
      [] kind = "edu" -> {m \in Edus : Complete(m)}
      [] kind = "edu_result" -> EduResults
      [] kind = "invite" -> Invites
      [] kind = "invite_result" -> InviteResults
      [] kind = "membership" -> [endpoint : {"send_join", "send_leave", "send_knock"}, pdu : Pdus]
      [] kind = "membership_result" -> MembershipResults
      [] kind = "profile" -> Profiles
      [] kind = "answer" -> {"", "{}"}
      [] kind = "fed_request" -> FedRequests
      [] kind = "fed_response" -> FedResponses
      [] kind = "outbound_request" -> OutboundRequests
      [] kind = "outbound_response" -> OutboundResponses

FrameKinds == {"pdu", "pdu_result", "edu", "edu_result", "invite", "invite_result", "membership",
               "membership_result", "profile", "answer", "fed_request", "fed_response", "outbound_request", "outbound_response"}

ChooseMessageToSend ==
    /\ focus = "frames" /\ Len(input) = 1
    /\ \E m \in MessagesOf(input[1]) : input' = Append(input, m)
    /\ UNCHANGED focus

Received(kind, m) ==
    CASE kind = "pdu" -> C!DeserializePduIngest(C!SerializePduIngest(m))
      [] kind = "pdu_result" -> C!DeserializePduResult(C!SerializePduResult(m))
      [] kind = "edu" -> CHOOSE e \in C!DeserializeEduIngest(C!SerializeEduIngest(m)) : TRUE
      [] kind = "edu_result" -> C!DeserializeEduResult(C!SerializeEduResult(m))
      [] kind = "invite" -> C!DeserializeInviteIngest(C!SerializeInviteIngest(m))
      [] kind = "invite_result" -> C!DeserializeInviteResult(C!SerializeInviteResult(m))
      [] kind = "membership" -> LET f == C!SerializeMembershipIngest(m.endpoint, m.pdu) IN
                                [endpoint |-> C!EndpointOf(f), pdu |-> C!DeserializePduIngest(f)]
      [] kind = "membership_result" -> C!DeserializeMembershipResult(C!SerializeMembershipResult(m))
      [] kind = "answer" -> C!DeserializeAnswer(C!SerializeQuery("otk_claim_ingest_result", "response_body", m))
      [] kind = "profile" -> C!DeserializeProfile(C!SerializeProfile(m))
      [] kind = "fed_request" -> C!DeserializeFedRequest(C!SerializeFedRequest(m))
      [] kind = "fed_response" -> C!DeserializeFedResponse(C!SerializeFedResponse(m))
      [] kind = "outbound_request" -> C!DeserializeOutboundRequest(C!SerializeOutboundRequest(m))
      [] kind = "outbound_response" -> C!DeserializeOutboundResponse(C!SerializeOutboundResponse(m))

NoRequest == [method |-> "", target |-> "", remote_addr |-> "", sig_verified |-> FALSE, verified_origin |-> "",
              verified_key_id |-> "", headers |-> <<>>, body |-> ""]

(* A message whose texts are UTF-8 reaches the other process as it was, a  *)
(* response's body whatever its bytes: in particular an event without a    *)
(* state key does not arrive with an empty one, which would make a state   *)
(* event of it, and an EDU the worker's parse_inbound_edu_envelope let     *)
(* through is not refused by the main process's.  A request with a header  *)
(* that is not UTF-8 arrives as no request at all, never as half of one    *)
(* (one verified without its origin, say).  The same of what the thumbnail *)
(* worker is sent and answers; an answer that lacks a byte or has one too  *)
(* many is refused.                                                        *)
SurvivesTheWire ==
    /\ focus = "frames" /\ Len(input) = 2 =>
        Received(input[1], input[2]) =
            IF input[1] = "fed_request" /\ \E h \in Range(input[2].headers) : h[2] = "broken"
            THEN NoRequest ELSE input[2]
    /\ focus = "thumbnail" => \A r \in {input.request}, a \in {input.answer} :
        LET frame == C!FrameThumbnailResponse(a)
            status == C!GenerateThumbnail(ThumbnailConfig, r @@ [type |-> "image/png"], Worker(frame))
        IN /\ C!ParseThumbnailRequest(C!FrameThumbnailRequest(r)) = {r}
           /\ C!ParseThumbnailResponse(frame) = {a}
           /\ C!ParseThumbnailResponse(Front(frame)) = {} /\ C!ParseThumbnailResponse(Append(frame, 0)) = {}
           /\ status = 200 => a.status = "ok" /\ Len(a.png) <= 2 /\ r.width \in 1 .. 64 /\ r.bytes # <<>>

---------------------------------------------------------------------------
(* Sliding sync.  One list over both rooms, with every extension, and messages  *)
(* of one user.                                                            *)
SlidingList(limit) ==
    [ranges |-> <<<<0, 1>>>>, sort |-> <<"by_notification_count", "by_name">>, bump_event_types |-> {},
     filters |-> {}, timeline_limit |-> limit, include_heroes |-> FALSE, required_state |-> {<<"member", "$LAZY">>}]

SlidingRequest(limit) ==
    [lists |-> [a |-> SlidingList(limit)], subscriptions |-> <<>>,
     extensions |-> [receipts |-> {{}}, typing |-> {{}}, account_data |-> TRUE]]

Post(room) ==
    [room |-> room, sender |-> "u", type |-> "message", key |-> {}, text |-> 0, mentions |-> {}, invite |-> FALSE]

(* Two events, of which a timeline holds one, and a response that is lost. *)
News == INSTANCE SlidingSync WITH
        Me <- "me", Others <- {"u"}, Ignored <- {}, Rooms <- {1, 2}, Direct <- {}, Favourite <- {},
        TypeOf <- <<"room", "room">>, Conns <- {"c1"}, MaxConns <- 1, Requests <- [c1 |-> {SlidingRequest(1)}],
        Posts <- {Post(1), Post(2)}, MaxEvents <- 2, MaxSyncId <- 0, MaxCancelled <- 1, MaxLost <- 1,
        MaxRestarts <- 0, events <- posted, recent <- lru

(* One event, and a restart. *)
Restarted == INSTANCE SlidingSync WITH
        Me <- "me", Others <- {"u"}, Ignored <- {}, Rooms <- {1, 2}, Direct <- {}, Favourite <- {},
        TypeOf <- <<"room", "room">>, Conns <- {"c1"}, MaxConns <- 1, Requests <- [c1 |-> {SlidingRequest(5)}],
        Posts <- {Post(1), Post(2)}, MaxEvents <- 1, MaxSyncId <- 0, MaxCancelled <- 1, MaxLost <- 1,
        MaxRestarts <- 1, events <- posted, recent <- lru

(* One event, and receipts, typing and account data beside it. *)
Surfaces == INSTANCE SlidingSync WITH
        Me <- "me", Others <- {"u"}, Ignored <- {}, Rooms <- {1, 2}, Direct <- {}, Favourite <- {},
        TypeOf <- <<"room", "room">>, Conns <- {"c1"}, MaxConns <- 1, Requests <- [c1 |-> {SlidingRequest(5)}],
        Posts <- {Post(1), Post(2)}, MaxEvents <- 1, MaxSyncId <- 1, MaxCancelled <- 0, MaxLost <- 1,
        MaxRestarts <- 0, events <- posted, recent <- lru

(* Two connections where one is kept. *)
Rivals == INSTANCE SlidingSync WITH
        Me <- "me", Others <- {"u"}, Ignored <- {}, Rooms <- {1, 2}, Direct <- {}, Favourite <- {},
        TypeOf <- <<"room", "room">>, Conns <- {"c1", "c2"}, MaxConns <- 1, Requests <- [c1 |-> {SlidingRequest(5)}, c2 |-> {SlidingRequest(5)}],
        Posts <- {Post(1), Post(2)}, MaxEvents <- 1, MaxSyncId <- 0, MaxCancelled <- 0, MaxLost <- 1,
        MaxRestarts <- 0, events <- posted, recent <- lru

SlidingStep ==
    /\ \/ focus = "news" /\ News!Next
       \/ focus = "restarted" /\ Restarted!Next
       \/ focus = "surfaces" /\ Surfaces!Next
       \/ focus = "rivals" /\ Rivals!Next
    /\ UNCHANGED <<focus, input, notifications, media, faults>>

(* No event of a room that a connection was shown is passed over, but      *)
(* where a timeline was cut to its limit, a request that waits has nothing *)
(* new to hear, and the client's lists are the server's, whatever          *)
(* responses were lost, as long as sliding_sync_json has taken none for    *)
(* received without its position coming back: a request without position   *)
(* has it do so, a retry of one whose answer was lost included.  The lists *)
(* are compared where no request was given up.                             *)
ConnectionsFollow ==
    /\ focus \in {"news", "restarted", "surfaces"} =>
        News!NothingSkipped /\ News!ParkingWithholdsNothing /\ News!ListsFollow
    /\ focus = "rivals" => Rivals!TypeOK /\ Rivals!NothingSkipped /\ Rivals!ParkingWithholdsNothing /\ Rivals!ListsFollow

---------------------------------------------------------------------------
(* Notifications. *)

(* A notification history of two, read in pages of one. *)
History == INSTANCE PushDelivery WITH
        Members <- <<"a", "r">>, Invitee <- "c", Remote <- {"r"}, Ignores <- [a |-> {}, c |-> {"r"}],
        Keys <- {}, Gateways <- {"g"}, Enabled <- FALSE, MaxPushers <- 1, Retention <- 2, Capacity <- 1, Limit <- 1,
        MaxEvents <- 4, MaxSets <- 0, MaxFaults <- 1, MaxLost <- 0, MaxRestarts <- 1,
        rows <- historyRows, last <- lastOrdering, lost <- lostPlaces

(* One pusher, room for two tasks, and a place that an exception takes. *)
Tasks == INSTANCE PushDelivery WITH
        Members <- <<"a", "r">>, Invitee <- "c", Remote <- {"r"}, Ignores <- [a |-> {}, c |-> {"r"}],
        Keys <- {"k"}, Gateways <- {"g"}, Enabled <- TRUE, MaxPushers <- 1, Retention <- 1, Capacity <- 2, Limit <- 1,
        MaxEvents <- 3, MaxSets <- 1, MaxFaults <- 0, MaxLost <- 1, MaxRestarts <- 1,
        rows <- historyRows, last <- lastOrdering, lost <- lostPlaces

NotificationStep ==
    /\ \/ focus = "history" /\ History!Next
       \/ focus = "tasks" /\ Tasks!Next
    /\ UNCHANGED <<focus, input, sliding, media>>

(* The pages of the notification history are complete, and a push is       *)
(* dropped only when every place is a task under way or was taken by one   *)
(* that an exception ended: what dispatch_push_deliveries takes a task     *)
(* gives back in every other way.                                          *)
NotificationsArrive ==
    /\ [](focus = "history" => History!TypeOK /\ History!PagesAreComplete)
    /\ [](focus = "tasks" => Tasks!TypeOK)
    /\ Tasks!DropsOnlyWhenFull

---------------------------------------------------------------------------
(* Media: one user, contents of one and of two bytes where two may be      *)
(* stored, and one remote file.                                            *)

MediaConfig ==
    [max_upload |-> 2, allowed |-> {"image/png"}, quarantine_unknown |-> TRUE, scanner |-> FALSE,
     local_policy |-> "allow-after-scan", remote_policy |-> "quarantine", max_word |-> 1000,
     max_decode_input |-> 2, max_decode_output |-> 128, max_ratio |-> 64, max_pixels |-> 4096, max_frames |-> 1,
     sandbox |-> TRUE, block_private |-> TRUE, remote_enabled |-> TRUE, thumbnailing |-> TRUE,
     max_records |-> 0, max_total |-> 2, max_per_user |-> 2]

Fetched ==
    [wired |-> TRUE, discovered |-> TRUE, key |-> TRUE, status |-> 200, multipart |-> TRUE, redirect |-> FALSE,
     resolves |-> FALSE, redirected |-> FALSE, legacy |-> FALSE, declared |-> "image/png", addresses |-> {"public"},
     made |-> TRUE]

RemoteFile(thumbnail) == [media |-> [origin |-> "x", id |-> <<0, "c1">>], thumbnail |-> thumbnail]

MediaAnswers ==
    {Fetched, [Fetched EXCEPT !.declared = "text/plain"], [Fetched EXCEPT !.addresses = {"public", "private"}],
     [Fetched EXCEPT !.status = 500], [Fetched EXCEPT !.status = 404, !.legacy = TRUE],
     [Fetched EXCEPT !.redirect = TRUE, !.resolves = TRUE], [Fetched EXCEPT !.discovered = FALSE]}

FewerAnswers == {Fetched, [Fetched EXCEPT !.declared = "text/plain"], [Fetched EXCEPT !.made = FALSE]}

Stored == INSTANCE Media WITH
        Owners <- {"a"}, Contents <- {"c1", "c2"}, Size <- [c1 |-> 1, c2 |-> 2],
        Sniffed <- [c1 |-> "image/png", c2 |-> "image/png"], Requests <- {RemoteFile(FALSE)},
        Config <- MediaConfig, Answers <- MediaAnswers, Ruled <- {}, MaxSequence <- 3, MaxFaults <- 0,
        MaxRestarts <- 1, rows <- mediaRows, answer <- served

(* Fewer uploads, of which one write fails, and remote media let in. *)
Failing == INSTANCE Media WITH
        Owners <- {"a"}, Contents <- {"c1", "c2"}, Size <- [c1 |-> 1, c2 |-> 2],
        Sniffed <- [c1 |-> "image/png", c2 |-> "image/png"], Requests <- {RemoteFile(FALSE), RemoteFile(TRUE)},
        Config <- [MediaConfig EXCEPT !.remote_policy = "allow"], Answers <- FewerAnswers, Ruled <- {<<1, "c1">>},
        MaxSequence <- 2, MaxFaults <- 1, MaxRestarts <- 1, rows <- mediaRows, answer <- served

MediaStep ==
    /\ \/ focus = "stored" /\ Stored!Next
       \/ focus = "failing" /\ Failing!Next
    /\ UNCHANGED <<focus, input, sliding, notifications>>

(* The configured limit holds; the repository serves nothing that was      *)
(* removed or that it holds; and the only held bytes a client is given are *)
(* those of the fetch that brought them, which records them.               *)
MediaIsKept ==
    /\ [](focus \in {"stored", "failing"} => Stored!TypeOK /\ Stored!WithinLimits)
    /\ Stored!HeldStaysHeld /\ Stored!FetchesAreRecorded

---------------------------------------------------------------------------
(* Sliding sync requests: lists of at most three ranges, and pairs of      *)
(* configurations of one room.                                             *)

Num(n) == <<"int", n>>

RangeBody(ranges) ==
    <<"obj", [lists |-> <<"obj", [a |-> <<"obj", [ranges |-> <<"arr", ranges>>, timeline_limit |-> Num(7)]>>]>>,
              pos |-> <<"str", "p">>]>>

ExtendRanges ==
    /\ focus = "ranges" /\ Len(input) < 3
    /\ \E a, b \in -1 .. 3 : input' = Append(input, <<"arr", <<Num(a), Num(b)>>>>)
    /\ UNCHANGED focus

Pairs == {"*", "member", "name"} \X {"*", "$LAZY", "x"}

RoomConfigs == {[timeline_limit |-> n, include_heroes |-> n = 2, required_state |-> {p, q}] :
                    n \in 1 .. 2, p \in Pairs, q \in Pairs}

ChooseConfig ==
    /\ focus = "configs" /\ Len(input) = 1
    /\ \E c \in RoomConfigs : input' = Append(input, c)
    /\ UNCHANGED focus

Asks(config, type, key) == \E p \in config.required_state : News!Matches(p, type, key)

(* A list parse_sliding_sync_request accepts shows no room twice, and a    *)
(* window that has not changed has nothing to replace, however few rooms   *)
(* there are (window_rooms, compute_room_list); combine_room_configs asks  *)
(* for what either configuration asks for, and nothing else, whichever     *)
(* comes first.                                                            *)
WindowsAreExact ==
    /\ focus = "ranges" => \A req \in News!ParseSlidingSyncRequest({RangeBody(input)}), n \in 0 .. 5 :
        LET ranges == req.lists["a"].ranges
            window == News!WindowRooms([i \in 1 .. n |-> i], ranges)
        IN /\ Cardinality(Range(window)) = Len(window)
           /\ \A i \in DOMAIN ranges : News!PrevSlice(window, ranges, i) = News!Slice([j \in 1 .. n |-> j], ranges[i])
    /\ focus = "configs" /\ Len(input) = 2 =>
        LET both == News!CombineRoomConfigs(input[1], input[2]) IN
        /\ both = News!CombineRoomConfigs(input[2], input[1])
        /\ \A type \in {"member", "name"}, key \in {"$LAZY", "x", "y"} :
            Asks(both, type, key) = (Asks(input[1], type, key) \/ Asks(input[2], type, key))

---------------------------------------------------------------------------
(* Server discovery: the names of two hosts and three literals, and what   *)
(* the network says of the hosts.                                          *)

V6 == <<"2001", ":", ":", "1">>

Global6 == <<32, 1, 13, 184, 0, 0, 0, 0, 0, 0, 0, 0, 0, 0, 0, 1>>

D == INSTANCE ServerDiscovery WITH
        Literals <- (<<"198.51.100.1">> :> <<198, 51, 100, 1>>) @@ (<<"10.0.0.1">> :> <<10, 0, 0, 1>>)
                    @@ (V6 :> Global6),
        Dotted <- {"a.org", "b.org", "198.51.100.1", "10.0.0.1"},
        PortWords <- "8448" :> 8448 @@ "443" :> 443 @@ "8008" :> 8008 @@ "0" :> 0,
        Prefixed <- "8448" :> 8448 @@ "443" :> 443 @@ "443x" :> 443 @@ "0" :> 0,
        Missing <- <<"missing">>, Garbled <- <<"garbled">>, Lower <- Folded, IpLiteral <- {}

ServerNames ==
    {<<"a.org">>, <<"a.org", ":", "443">>, <<"a.org", ":", "0">>, <<":", "443">>, <<"a.org", " ">>,
     <<"a.org", ":", "8008">>, <<"198.51.100.1">>, <<"10.0.0.1", ":", "443">>, V6, <<"[", "]">>, <<"[">> \o V6,
     <<"[">> \o V6 \o <<"]">>, <<"[">> \o V6 \o <<"]", ":", "443">>, <<"[">> \o V6 \o <<"]", "443">>}

Delegates == {<<"missing">>, <<"garbled">>, <<"b.org">>, <<"b.org", ":", "443">>, <<"b.org", ":", "0">>,
              <<"198.51.100.1">>}

SrvTo(host, port, weight) ==
    [parses |-> TRUE, isSrv |-> TRUE, target |-> <<host>>, port |-> port, priority |-> port % 2, weight |-> weight]

SrvAnswers ==
    LET a == SrvTo("a.org", 443, 1) IN
    {<<>>, <<a>>, <<a, SrvTo("b.org", 8448, 0)>>, <<a, SrvTo("b.org", 443, 2)>>,
     <<[a EXCEPT !.parses = FALSE], a>>, <<[a EXCEPT !.target = <<>>]>>}

\* Addresses on both sides of every bound of the private ranges.
FourBytes == {<<f, s, 0, 1>> : f \in {0, 9, 10, 11, 126, 127, 128, 169, 172, 192},
                               s \in {15, 16, 31, 32, 168, 169, 253, 254}}

SixteenBytes ==
    {Global6}
    \union {<<f, s>> \o [i \in 1 .. 14 |-> 0] : f \in {0, 251, 252, 253, 254}, s \in {0, 127, 128, 191, 192}}
    \union {[i \in 1 .. 15 |-> 0] \o <<n>> : n \in 0 .. 2}
    \union {[i \in 1 .. 10 |-> 0] \o <<255, 255>> \o a : a \in FourBytes}

Public == <<198, 51, 100, 7>>

AddressLists == {<<Public>>, <<Public, <<10, 0, 0, 1>>>>, <<>>}

Networks ==
    {[wellKnown |-> <<"a.org">> :> w, srv |-> (<<"a.org">> :> s) @@ (<<"b.org">> :> t),
      addresses |-> (<<"a.org">> :> a) @@ (<<"b.org">> :> b)] :
        w \in Delegates, s \in SrvAnswers, t \in SrvAnswers, a \in AddressLists, b \in AddressLists}

AskNetwork ==
    /\ focus = "discovery" /\ input.net = {}
    /\ \/ \E net \in Networks : input' = [input EXCEPT !.net = {net}]
       \/ \E a \in FourBytes \union SixteenBytes :
            input' = [input EXCEPT !.net = {[wellKnown |-> <<>>, srv |-> <<>>, addresses |-> <<"a.org">> :> <<a, Public>>]}]
    /\ UNCHANGED focus

Authorities == UNION {[1 .. n -> {"a.org", ":", "443", "443x", "0", "[", "]", "2001"}] : n \in 0 .. 4}

AskAuthority ==
    /\ focus = "call" /\ input.authority = {}
    /\ \E a \in Authorities : input' = [input EXCEPT !.authority = {a}]
    /\ UNCHANGED focus

(* Whatever the network answers discover_server, an allowed result goes    *)
(* where the steps of the specification say, to public addresses only; the *)
(* outbound client sends the request built from it to the host whose       *)
(* certificate is asked for, or to nobody where that is an IPv6 literal;   *)
(* and a server reached over TLS is one whose requests                     *)
(* federation_discovery_policy admits, unless it is named by such a        *)
(* literal.  The clients that are given a URL (push gateways, identity     *)
(* servers, application services) pin the addresses they resolved to the   *)
(* host and port the outbound client connects to, when it connects; which  *)
(* addresses those are, they do not ask, and neither does this property.   *)
ReachesWhatItFound ==
    /\ focus = "discovery" => \A net \in input.net : D!ReachesWhatItFound(net, input.name)
    /\ focus = "call" => \A a \in input.authority :
        D!PinsWhatItCalls([addresses |-> <<"a.org">> :> <<Public>>], input.client, a)

---------------------------------------------------------------------------
(* Migration plans, between any two versions of the schema.                *)

Plans == INSTANCE Migrations WITH
        StateKeys <- {"k1", "k2"}, Servers <- {}, Backend <- "", Knows <- <<>>, Roles <- FALSE, StartVersions <- {},
        Owner <- "", Nobody <- "", MaxFaults <- 0, MaxCrashes <- 0, db <- input, pc <- input, seen <- input,
        version <- input, plan <- input, lease <- input, faults <- input, crashes <- input

(* The plan migration_plan_between makes is valid, and executing its       *)
(* statements leads to the tables, columns and backfilled rows of the      *)
(* version asked for, up or down.  The ledger is no part of a plan: its    *)
(* rows are written by the store that carries out an upgrade, and nothing  *)
(* takes one away on the way down.                                         *)
PlansReachTheirVersion ==
    focus = "plans" => Plans!PlanReachesItsVersion(input[1], input[2])

---------------------------------------------------------------------------
(* Reading history by pages: a room of at most MaxHistory events, of which *)
(* the first are there when the first page is read and the rest arrive     *)
(* before the second.                                                      *)

MaxHistory == 4

H == INSTANCE RoomPages WITH
        MaxPage <- 2, DefaultPage <- 2, MaxScanned <- 2, DefaultDepth <- 2, HardDepth <- 4, DefaultLimit <- 2, MaxLimit <- 2

HistoryEvent(room, sender, state, type, rel, parent, hits) ==
    [room |-> room, sender |-> sender, state |-> state, type |-> type,
     rel |-> [type |-> rel, id |-> parent], hits |-> hits, url |-> FALSE]

HistoryKinds ==
    {HistoryEvent("r", "me", FALSE, "message", "", 0, 1),
     HistoryEvent("r", "you", FALSE, "message", "thread", 1, 2),
     HistoryEvent("r", "me", FALSE, "message", "thread", 2, 0),
     HistoryEvent("r", "foe", FALSE, "message", "thread", 1, 1),
     HistoryEvent("r", "foe", TRUE, "name", "", 0, 1),
     HistoryEvent("r", "you", FALSE, "reaction", "annotation", 1, 0),
     HistoryEvent("s", "you", FALSE, "message", "", 0, 1),
     HistoryEvent("sealed", "you", FALSE, "message", "", 0, 1)}

ExtendHistory ==
    /\ focus = "pages"
    /\ \/ /\ Len(input.events) < MaxHistory
          /\ \E e \in HistoryKinds : LET n == Len(input.events) + 1 IN
               input' = [events |-> Append(input.events, e @@ [id |-> n, ordering |-> n]),
                         early |-> IF input.early = Len(input.events) THEN n ELSE input.early]
       \/ /\ input.early > 0
          /\ input' = [input EXCEPT !.early = @ - 1]
    /\ UNCHANGED focus

StoreOf(events) == [events |-> events, ignored |-> {"foe"}, joined |-> {"r", "s", "sealed"}, encrypted |-> {"sealed"}]

RECURSIVE Follow(_, _, _)
Follow(page, later, fuel) ==
    <<page.chunk>> \o (IF page.next = 0 \/ fuel = 0 THEN <<>> ELSE Follow(later[page.next], later, fuel - 1))

AsPage(answer) == [chunk |-> answer.chunk, next |-> answer.end]

Shown(store, room) == SelectSeq(H!InRoom(store, room), LAMBDA e : ~(e.sender = "foe" /\ ~e.state))

InDirection(dir, events) == IF dir = "f" THEN H!Oldest(events) ELSE H!Newest(events)

(* What a reader of messages gets, starting from the page `first'. *)
ReadOn(store, dir, first) ==
    Follow(first, [t \in 1 .. MaxHistory |-> AsPage(H!messages_json(store, "r", dir, t, {1}))], 2 * MaxHistory)

MessagesFit(before, after, dir) ==
    LET pages == ReadOn(after, dir, AsPage(H!messages_json(before, "r", dir, 0, {1})))
    IN FlattenSeq(pages) = InDirection(dir, Shown(IF dir = "f" /\ Len(pages) > 1 THEN after ELSE before, "r"))

SearchBody(recent) ==
    [garbled |-> FALSE, order_by |-> IF recent THEN {"recent"} ELSE {}, keys |-> {}, filter |-> {},
     event_context |-> {}, group_by |-> {"sender"}]

(* The context of an event, read on at both ends. *)
ContextFits(store, target) ==
    LET context == H!room_context_json(store, H!AnyEvent, target, {2})
        back == ReadOn(store, "b", AsPage(H!messages_json(store, "r", "b", context.start, {1})))
        on == ReadOn(store, "f", AsPage(H!messages_json(store, "r", "f", context.end, {1})))
    IN Reverse(FlattenSeq(back)) \o Reverse(context.before) \o <<target>> \o context.after \o FlattenSeq(on)
        = H!Oldest(SelectSeq(H!InRoom(store, "r"), LAMBDA e : e \in Range(Shown(store, "r")) \union {target}))

RelationsFit(before, after, dir, type, limit) ==
    LET Ask(from) == [rel_type |-> type, event_type |-> {}, dir |-> dir, from |-> from, to |-> 0, limit |-> limit]
        pages == Follow(H!fetch_relations(before, "r", 1, Ask(0)),
                        [t \in 1 .. MaxHistory |-> H!fetch_relations(after, "r", 1, Ask(t))], 2 * MaxHistory)
        Held(store) == \E e \in Range(H!InRoom(store, "r")) : e.id = 1
        Children(store) == SelectSeq(H!InRoom(store, "r"), LAMBDA e :
                               Held(store) /\ e.rel.id = 1 /\ (type = {} \/ e.rel.type \in type))
    IN FlattenSeq(pages) = InDirection(dir, Children(IF dir = "f" /\ Len(pages) > 1 THEN after ELSE before))

(* Threads that get a reply while they are listed may be missed, no other. *)
ThreadsFit(before, after, include) ==
    LET chunks == FlattenSeq(Follow(H!fetch_room_threads(before, "r", "me", include, 0, {1}),
                      [t \in 1 .. MaxHistory |-> H!fetch_room_threads(after, "r", "me", include, t, {1})], 2 * MaxHistory))
        Still(t) == t \in Range(H!Threads(after, "r", "me", include))
    IN /\ SelectSeq(chunks, Still) = SelectSeq(H!Threads(before, "r", "me", include), Still)
       /\ \A i, j \in DOMAIN chunks : chunks[i].root = chunks[j].root => i = j

SearchFits(before, after, recent) ==
    \A request \in H!parse_search_request(SearchBody(recent)) :
    LET pages == Follow(H!search_room_events_json(before, request, 0),
                        [t \in 1 .. MaxHistory |-> H!search_room_events_json(after, request, t)], 2 * MaxHistory)
        Wanted == H!Newest(SelectSeq(Shown(before, "r") \o Shown(before, "s"), LAMBDA e : e.hits > 0))
    IN IF recent THEN FlattenSeq(pages) = Wanted ELSE H!Newest(FlattenSeq(pages)) = Wanted

(* A reader that follows the tokens of /messages, /relations, /threads or  *)
(* /search to the end gets every event it may see exactly once and in      *)
(* order, whatever arrives meanwhile and in whatever order the store keeps *)
(* its rows; and what /context and /initialSync return joins on to what    *)
(* /messages returns from their tokens without a gap or a repetition.      *)
PagesFitTogether ==
    focus = "pages" =>
        LET before == StoreOf(SubSeq(input.events, 1, input.early))
            after == StoreOf(Reverse(input.events))
            initial == H!build_initial_sync_messages(before, "r", {1})
        IN /\ \A dir \in {"b", "f"} : MessagesFit(before, after, dir)
           /\ input.early = Len(input.events) => \A e \in Range(H!InRoom(after, "r")) : ContextFits(after, e)
           /\ SelectSeq(FlattenSeq(ReadOn(after, "b", AsPage(initial))), LAMBDA e : e \in Range(Shown(before, "r")))
                = H!Newest(Shown(before, "r"))
           /\ \A dir \in {"b", "f"}, type \in {{}, {"thread"}}, limit \in {{}, {1}} :
                RelationsFit(before, after, dir, type, limit)
           /\ \A include \in {"all", "participated"} : ThreadsFit(before, after, include)
           /\ \A recent \in BOOLEAN : SearchFits(before, after, recent)

---------------------------------------------------------------------------
(* Spaces: every graph of at most MaxChildren child events between five    *)
(* rooms, of which one is hidden, and a sixth that does not exist.         *)

MaxChildren == 4

RoomIds == 1 .. 5

SpaceStore(children) ==
    [rooms |-> RoomIds, spaces |-> {1, 2, 3}, membership |-> <<"join", "invite", "leave", "leave", "leave">>,
     rule |-> <<"public", "invite", "knock", "invite", "invite">>, readable |-> {4}, children |-> children]

AddChild ==
    /\ focus = "spaces" /\ FoldFunction(LAMBDA list, n : Len(list) + n, 0, input) < MaxChildren
    /\ \E s \in {1, 2, 3}, c \in 2 .. 6 :
         /\ \A i \in DOMAIN input[s] : input[s][i].room # c
         /\ input' = [input EXCEPT ![s] = Append(@, [room |-> c, suggested |-> c # 2, via |-> <<s, c>> # <<2, 4>>])]
    /\ UNCHANGED focus

HierarchyPages(store, depth, suggested_only) ==
    LET Ask(from) == [room |-> 1, max_depth |-> {depth}, suggested_only |-> suggested_only, limit |-> {}, from |-> from]
        first == H!handle_client_space_hierarchy(store, Ask({}))
        second == IF first.next = {} THEN first ELSE H!handle_client_space_hierarchy(store, Ask(first.next))
    IN IF first.next = {} THEN first.rooms ELSE first.rooms \o second.rooms

(* Whatever the graph of spaces, the walk ends, no room is listed twice,   *)
(* every room is listed after a space that has it as a child, none is      *)
(* listed that the user may not view or that is further down than asked    *)
(* for, none is missed when the limit on the depth does not bind, the      *)
(* pages are the whole list, and another server is told of nothing it      *)
(* could not see as a stranger.                                            *)
HierarchyIsSound ==
    focus = "spaces" =>
        LET store == SpaceStore(input) IN
        \A depth \in 0 .. 4, suggested_only \in BOOLEAN :
            LET listed == H!collect_visible_room_ids_client(store, 1, depth, suggested_only) IN
            /\ listed[1] = 1 /\ IsInjective(listed)
            /\ \A i \in 2 .. Len(listed) : \E j \in 1 .. i - 1 :
                  listed[i] \in {c.room : c \in Range(store.children[listed[j]])}
            /\ Range(listed) \subseteq H!Within(store, 1, depth, suggested_only)
            /\ depth = 4 => Range(listed) = H!Within(store, 1, 4, suggested_only)
            /\ [i \in DOMAIN listed |-> H!room_summary_object(store, listed[i])]
                  = HierarchyPages(store, depth, suggested_only)
            /\ \A told \in H!build_federation_space_hierarchy_response(store, 1, suggested_only) :
                  {c.room : c \in Range(told.children)}
                     \subseteq H!Within([store EXCEPT !.membership = [r \in RoomIds |-> "leave"]], 1, 1, suggested_only)

---------------------------------------------------------------------------
InputInit ==
    \/ focus = "graph" /\ input = [events |-> <<>>, state |-> {}]
    \/ focus \in {"resolution", "texts", "bytes", "number", "media", "authority", "ranges"} /\ input = <<>>
    \/ focus = "thumbnail" /\ input \in [request : Thumbnails, answer : Answers]
    \/ focus = "globs" /\ input = [pattern |-> <<>>, text |-> <<>>]
    \/ focus = "push" /\ \E rules \in Rulesets : input = [rules |-> rules, message |-> {}]
    \/ focus = "token" /\ input \in Tokens
    \/ focus = "json" /\ \E v \in Values : input = <<v>>
    \/ focus = "configs" /\ \E c \in RoomConfigs : input = <<c>>
    \/ focus = "discovery" /\ \E n \in ServerNames : input = [name |-> n, net |-> {}]
    \/ focus = "call" /\ \E c \in {"push", "identity", "appservice"} : input = [client |-> c, authority |-> {}]
    \/ focus = "pages" /\ input = [events |-> <<>>, early |-> 0]
    \/ focus = "spaces" /\ input = [r \in RoomIds |-> <<>>]
    \/ focus = "plans" /\ input \in Plans!Versions \X Plans!Versions
    \/ focus \in {"news", "restarted", "surfaces", "rivals", "history", "tasks", "stored", "failing"} /\ input = 0
    \/ focus = "frames" /\ \E kind \in FrameKinds : input = <<kind>>

Init ==
    /\ InputInit
    /\ IF focus = "rivals" THEN Rivals!Init ELSE News!Init
    /\ IF focus = "tasks" THEN Tasks!Init ELSE History!Init
    /\ Stored!Init

Extend ==
    \/ ExtendGraph \/ ExtendBranches \/ ExtendGlob \/ ChooseMessage \/ ExtendText
    \/ ExtendMedia \/ ExtendAuthority \/ ExtendBytes \/ ExtendNumber \/ ChooseOther \/ ChooseMessageToSend
    \/ ExtendRanges \/ ChooseConfig \/ AskNetwork \/ AskAuthority \/ ExtendHistory \/ AddChild

Next ==
    \/ Extend /\ UNCHANGED <<sliding, notifications, media, faults, restarts>>
    \/ SlidingStep \/ NotificationStep \/ MediaStep

Spec == Init /\ [][Next]_vars

---------------------------------------------------------------------------
(* The state before an event is the last that was set, what another server *)
(* is given of it can be checked, and servers that merge the same branches *)
(* end with the same state.                                                *)
HistoryIsExact == PastStateIsExact /\ AnswersAreClosed /\ MergesConverge

(* A pattern matches what its wildcards say, and the first push rule that  *)
(* matches decides.                                                        *)
RulesDecide == GlobsAgree /\ FirstRuleDecides

(* What is encoded is read back as it was, a value has one canonical text, *)
(* and text that is not UTF-8 is refused.                                  *)
EncodingsAreFaithful == CodecsRoundTrip /\ OnlyWellFormedUtf8 /\ OneTextPerValue /\ SurvivesTheWire

(* The windows of a sliding list, the pages of a room's history and the    *)
(* pages of a space fit together.                                          *)
PagesAreWhole == WindowsAreExact /\ PagesFitTogether /\ HierarchyIsSound
=============================================================================
