------------------------------- MODULE Codecs -------------------------------
(***************************************************************************)
(* What crosses a process or a network boundary as text, written and read  *)
(* back: canonical JSON, the codecs of requests, and the frames between    *)
(* processes.                                                              *)
(***************************************************************************)
EXTENDS Integers, Sequences, FiniteSets, SequencesExt, TLC

CONSTANTS
    MaxU64,         \* the largest 64-bit number
    MaxHexDigits,   \* 16: the digits of the largest one
    MaxBackfill,    \* max_backfill_limit
    Max32,          \* the largest 32-bit number, scaled down
    MaxHttp,        \* the largest status deserialize_fed_response() takes (999)
    Base,           \* 256: four digits of this base are a 32-bit number of a frame
    MaxPort         \* 65535

(***************************************************************************)
(* canonicaljson: what the parser accepts as text and as a number, and the *)
(* one text the serializer gives a value.  Bytes are numbers; a value is a *)
(* record, an object a sequence of members as the parser builds it.        *)
(***************************************************************************)

(* The k-th of n continuation bytes shifts six bits in. *)
Continued(bytes, i, n, lead) ==
    FoldLeft(LAMBDA c, b : c * 64 + (b % 64), lead, SubSeq(bytes, i + 1, i + n - 1))

(* Length, smallest code point and payload announced by a first byte.      *)
Lead(b) ==
    CASE b \div 32 = 6  -> [len |-> 2, min |-> 128,   bits |-> b % 32]
      [] b \div 16 = 14 -> [len |-> 3, min |-> 2048,  bits |-> b % 16]
      [] b \div 8 = 30  -> [len |-> 4, min |-> 65536, bits |-> b % 8]
      [] OTHER          -> [len |-> 0, min |-> 0,     bits |-> 0]

CodePoint(c, min) == c >= min /\ c <= 1114111 /\ ~(c >= 55296 /\ c <= 57343)

(* utf8_is_valid(). *)
Utf8Valid(bytes) ==
    LET valid[i \in 1 .. Len(bytes) + 4] ==
            \/ i = Len(bytes) + 1
            \/ /\ i <= Len(bytes)
               /\ \/ bytes[i] <= 127 /\ valid[i + 1]
                  \/ LET l == Lead(bytes[i]) IN
                     /\ l.len > 0 /\ i + l.len - 1 <= Len(bytes)
                     /\ \A k \in i + 1 .. i + l.len - 1 : bytes[k] \div 64 = 2
                     /\ CodePoint(Continued(bytes, i, l.len, l.bits), l.min)
                     /\ valid[i + l.len]
    IN valid[1]

-----------------------------------------------------------------------------
(***************************************************************************)
(* Numbers.  A token is a sequence of characters; "-" and "." stand for    *)
(* themselves, digits are numbers.                                         *)
(***************************************************************************)

(* is_canonical_int64_token(): digits without a leading zero, and no -0.   *)
CanonicalToken(t) ==
    LET digits == IF t # <<>> /\ t[1] = "-" THEN Tail(t) ELSE t IN
    /\ digits # <<>>
    /\ \A i \in 1 .. Len(digits) : digits[i] \in {"0", "1", "9"}
    /\ digits[1] = "0" => t = <<"0">>

Digit == [d \in {"0", "1", "9"} |-> CASE d = "0" -> 0 [] d = "1" -> 1 [] OTHER -> 9]

(* raw_number_as_int64(), for a largest safe integer of max.               *)
Number(t, max) ==
    LET negative == t # <<>> /\ t[1] = "-"
        digits == IF negative THEN Tail(t) ELSE t
        n == FoldLeft(LAMBDA v, d : 10 * v + Digit[d], 0, digits)
    IN CASE \E i \in 1 .. Len(t) : t[i] \in {".", "e"} -> "invalid_number"
         [] ~CanonicalToken(t)                         -> "invalid_number"
         [] n > max                                    -> "integer_out_of_range"
         [] OTHER                                      -> IF negative THEN -n ELSE n

-----------------------------------------------------------------------------
(***************************************************************************)
(* Values: null, booleans, integers, doubles (with the shortest text that  *)
(* reads back as them), strings (valid or not), arrays and objects.        *)
(***************************************************************************)

Failed(e) == [ok |-> FALSE, error |-> e]
Text(t) == [ok |-> TRUE, text |-> t]

(* A text is a sequence of tokens; numbers and names stand as strings.     *)
(* string_is_valid_for_json() and append_escaped_string(): an escaped      *)
(* string is one token between its quotes.                                 *)
Quoted(s) == IF s = "broken" THEN Failed("invalid_string") ELSE Text(<<"\"", s, "\"">>)

(* format_double(): an integral double has the text of the integer.        *)
Formatted(d) == d

HasDuplicateKeys(members) == \E i, j \in 1 .. Len(members) : i < j /\ members[i].key = members[j].key

Joined(parts) ==
    FoldLeft(LAMBDA acc, p : IF acc = <<>> THEN p ELSE acc \o <<",">> \o p, <<>>, parts)

FirstError(results) == results[CHOOSE i \in 1 .. Len(results) :
                                 ~results[i].ok /\ \A j \in 1 .. i - 1 : results[j].ok]

RECURSIVE SerializeValue(_, _)

SerializeArray(items, rejectFloats) ==
    LET results == [i \in 1 .. Len(items) |-> SerializeValue(items[i], rejectFloats)] IN
    IF \E i \in 1 .. Len(items) : ~results[i].ok THEN FirstError(results)
    ELSE Text(<<"[">> \o Joined([i \in 1 .. Len(items) |-> results[i].text]) \o <<"]">>)

KeyOrder == <<"a", "b", "signatures", "unsigned">>

Sorted(members) ==
    SortSeq(members, LAMBDA l, r : SelectInSeq(KeyOrder, LAMBDA k : k = l.key) <
                                   SelectInSeq(KeyOrder, LAMBDA k : k = r.key))

SerializeMember(m, rejectFloats) ==
    LET value == SerializeValue(m.value, rejectFloats) IN
    CASE m.key = "broken" -> Failed("invalid_string")
      [] ~value.ok        -> value
      [] OTHER            -> Text(Quoted(m.key).text \o <<":">> \o value.text)

SerializeObject(members, rejectFloats) ==
    LET results == [i \in 1 .. Len(members) |-> SerializeMember(members[i], rejectFloats)]
        ordered == Sorted(members)
        texts == [i \in 1 .. Len(ordered) |-> SerializeMember(ordered[i], rejectFloats).text]
    IN CASE HasDuplicateKeys(members) -> Failed("duplicate_object_key")
         [] \E i \in 1 .. Len(members) : ~results[i].ok -> FirstError(results)
         [] OTHER -> Text(<<"{">> \o Joined(texts) \o <<"}">>)

SerializeValue(v, rejectFloats) ==
    CASE v.type \in {"null", "bool", "int"}     -> Text(<<v.v>>)
      [] v.type = "double" /\ rejectFloats      -> Failed("float_not_allowed")
      [] v.type = "double" /\ ~rejectFloats     -> Text(<<Formatted(v.v)>>)
      [] v.type = "string"                      -> Quoted(v.v)
      [] v.type = "array"                       -> SerializeArray(v.v, rejectFloats)
      [] v.type = "object"                      -> SerializeObject(v.v, rejectFloats)

(* make_signable_object_view(): without signatures and unsigned at the top. *)
Signable(v) ==
    IF v.type = "object"
    THEN SerializeValue([v EXCEPT !.v = SelectSeq(@, LAMBDA m : m.key \notin {"signatures", "unsigned"})], TRUE)
    ELSE SerializeValue(v, TRUE)

(* convert_yyjson_value(): what the parser makes of a document's value at  *)
(* a depth: too deep and too wide are refused, and so is a repeated key.   *)
RECURSIVE Refused(_, _, _, _)
Refused(v, depth, maxDepth, maxMembers) ==
    \/ depth > maxDepth
    \/ /\ v.type = "array"
       /\ \E i \in 1 .. Len(v.v) : Refused(v.v[i], depth + 1, maxDepth, maxMembers)
    \/ /\ v.type = "object"
       /\ \/ Len(v.v) > maxMembers
          \/ HasDuplicateKeys(v.v)
          \/ \E i \in 1 .. Len(v.v) : Refused(v.v[i].value, depth + 1, maxDepth, maxMembers)

-----------------------------------------------------------------------------
(***************************************************************************)
(* The small codecs that requests pass through: sync tokens                *)
(* (sync/stream_token.cpp), percent encoding and query parameters          *)
(* (core/query_params.cpp), the paths and queries of the federation        *)
(* endpoints (federation/membership_endpoints.cpp), and the filters of     *)
(* sync/sync_filter.cpp.  A text is a sequence of ASCII codes.             *)
(***************************************************************************)

Percent == 37
Plus == 43
Space == 32
Slash == 47
Question == 63
Underscore == 95

HexDigits == (48 .. 57) \union (97 .. 102) \union (65 .. 70)

HexValue(c) == IF c \in 48 .. 57 THEN c - 48 ELSE IF c \in 97 .. 102 THEN c - 87 ELSE c - 55

Find(text, c) == SelectInSeq(text, LAMBDA x : x = c)

From(text, i) == SubSeq(text, i, Len(text))

---------------------------------------------------------------------------
(* Sync tokens: three numbers in lower-case hexadecimal.                   *)

RECURSIVE EncodeComponent(_)
EncodeComponent(n) ==
    LET digit == IF n % 16 < 10 THEN 48 + (n % 16) ELSE 87 + (n % 16) IN
    IF n < 16 THEN <<digit>> ELSE Append(EncodeComponent(n \div 16), digit)

\* Shifting drops the bits that leave the word.
DecodeComponent(text) ==
    IF text = <<>> \/ Len(text) > MaxHexDigits \/ ~(Range(text) \subseteq HexDigits) THEN {}
    ELSE {FoldLeft(LAMBDA n, c : (n * 16 + HexValue(c)) % (MaxU64 + 1), 0, text)}

EncodeStreamToken(t) ==
    EncodeComponent(t.event) \o <<Underscore>> \o EncodeComponent(t.membership)
        \o <<Underscore>> \o EncodeComponent(t.sync)

\* What follows the second separator; nothing where there is none.
Third(rest) == IF Find(rest, Underscore) = 0 THEN <<>> ELSE From(rest, Find(rest, Underscore) + 1)

Second(rest) == IF Find(rest, Underscore) = 0 THEN rest ELSE SubSeq(rest, 1, Find(rest, Underscore) - 1)

DecodeStreamToken(text) ==
    LET first == Find(text, Underscore)
        rest == From(text, first + 1)
        sync == IF Third(rest) = <<>> THEN {0} ELSE DecodeComponent(Third(rest))
    IN IF first = 0 THEN {}
       ELSE {[event |-> e, membership |-> m, sync |-> s] :
                e \in DecodeComponent(SubSeq(text, 1, first - 1)), m \in DecodeComponent(Second(rest)), s \in sync}

---------------------------------------------------------------------------
(* Percent encoding.                                                       *)

\* Mutant: a percent sign at the very end of the text is not decoded.
EscapedBeforeTheEnd(text) ==
    Len(text) > 3 /\ Head(text) = Percent /\ {text[2], text[3]} \subseteq HexDigits

\* A percent sign with two hexadecimal digits after it.
Escaped(text) == Len(text) >= 3 /\ Head(text) = Percent /\ {text[2], text[3]} \subseteq HexDigits

RECURSIVE Decode(_, _)
Decode(text, plus) ==
    IF text = <<>> THEN <<>>
    ELSE IF Escaped(text)
    THEN <<16 * HexValue(text[2]) + HexValue(text[3])>> \o Decode(From(text, 4), plus)
    ELSE <<IF plus /\ Head(text) = Plus THEN Space ELSE Head(text)>> \o Decode(Tail(text), plus)

PercentDecode(text) == Decode(text, TRUE)

PercentDecodePathComponent(text) == Decode(text, FALSE)

UnreservedPathBytes == (65 .. 90) \union (97 .. 122) \union (48 .. 57) \union {45, 46, 95, 126}

HexDigit(n) == IF n < 10 THEN 48 + n ELSE 55 + n

PercentEncodePathComponent(text) ==
    FlattenSeq([i \in DOMAIN text |->
        IF text[i] \in UnreservedPathBytes THEN <<text[i]>>
        ELSE <<Percent, HexDigit(text[i] \div 16), HexDigit(text[i] % 16)>>])

---------------------------------------------------------------------------
(* Query parameters: [key, value] where the segment has an equals sign.    *)

\* Digits alone, and no number past the largest.
ParseTimeout(text) ==
    LET Step(n, c) == n * 10 + (c - 48) IN
    IF text = <<>> \/ ~(Range(text) \subseteq 48 .. 57) THEN {}
    ELSE {FoldLeft(Step, 0, text)} \intersect (0 .. MaxU64)

NoQuery == [since |-> <<>>, timeout |-> {}, full_state |-> FALSE, filter |-> <<>>]

ParseQueryParams(segments) ==
    FoldLeft(LAMBDA q, s :
                LET value == PercentDecode(s.value) IN
                CASE s.key = "since" -> [q EXCEPT !.since = value]
                  [] s.key = "timeout" -> [q EXCEPT !.timeout = IF ParseTimeout(value) = {} THEN @ ELSE ParseTimeout(value)]
                  [] s.key = "full_state" -> [q EXCEPT !.full_state = (value = <<116, 114, 117, 101>>)]
                  [] s.key = "filter" -> [q EXCEPT !.filter = value]
                  [] OTHER -> q,
             NoQuery, segments)

\* parse_backfill_query: the last limit counts, one without a value is passed
\* over, a malformed one refuses the request, and so does the lack of event
\* ids.  A limit is the set of the number strtoull reads, empty when it reads
\* none.
ParseBackfillQuery(room, segments) ==
    LET limits == SelectSeq(segments, LAMBDA s : s.key = "limit" /\ s.value # <<>>)
        ids == SelectSeq(segments, LAMBDA s : s.key = "v" /\ s.value # <<>>)
        Capped(n) == IF n < MaxBackfill THEN n ELSE MaxBackfill
    IN IF \/ PercentDecodePathComponent(room) = <<>> \/ Find(PercentDecodePathComponent(room), Slash) # 0
          \/ ids = <<>> \/ \E i \in DOMAIN limits : limits[i].number = {}
       THEN {}
       ELSE {[room |-> PercentDecodePathComponent(room),
              ids |-> [i \in DOMAIN ids |-> PercentDecodePathComponent(ids[i].value)],
              limit |-> IF limits = <<>> THEN {} ELSE {Capped(n) : n \in Last(limits).number}]}

---------------------------------------------------------------------------
(* Membership paths: what follows an endpoint's prefix is a room and a     *)
(* user or event.                                                          *)

Path(target) == IF Find(target, Question) = 0 THEN target ELSE SubSeq(target, 1, Find(target, Question) - 1)

SplitTwo(suffix) ==
    LET slash == Find(suffix, Slash)
        second == PercentDecodePathComponent(From(suffix, slash + 1))
    IN IF slash <= 1 \/ slash = Len(suffix) \/ Find(second, Slash) # 0 THEN {}
       ELSE {<<PercentDecodePathComponent(SubSeq(suffix, 1, slash - 1)), second>>}

\* parse_membership_path, after the prefix of the endpoint's version.
ParseMembershipPath(suffix) == SplitTwo(Path(suffix))

---------------------------------------------------------------------------
(* Filters.  A filter's lists are sequences of texts.                      *)

Star == 42

MatchesTypePattern(pattern, type) ==
    IF pattern = <<Star>> THEN TRUE
    ELSE IF pattern # <<>> /\ Last(pattern) = Star THEN IsPrefix(Front(pattern), type)
    ELSE pattern = type

TypeMatchesList(list, type) == \E p \in list : MatchesTypePattern(p, type)

EventPassesFilter(filter, type, sender) ==
    /\ type # <<>> => /\ filter.types = {} \/ TypeMatchesList(filter.types, type)
                      /\ ~TypeMatchesList(filter.not_types, type)
    /\ filter.senders = {} \/ sender \in filter.senders
    /\ sender \notin filter.not_senders

RoomPassesFilter(filter, room) ==
    /\ filter.rooms = {} \/ room \in filter.rooms
    /\ room \notin filter.not_rooms

-----------------------------------------------------------------------------
(***************************************************************************)
(* The frames between the main process and its workers: every message is   *)
(* written member by member and read back by name, each member with its    *)
(* type and its default.  A frame is a function from member names to typed *)
(* JSON values; the text of a string is a member of a small set, "" the    *)
(* empty string and "broken" one that is not UTF-8.                        *)
(***************************************************************************)

Json(t, v) == [type |-> t, v |-> v]

(* ipc_json_str() escapes quotes and control characters and passes every   *)
(* other byte on, so a text that is not UTF-8 makes a frame that is not.   *)
Str(s) == Json(IF s = "broken" THEN "bytes" ELSE "string", s)
Num(n) == Json("int", n)
Bool(b) == Json("bool", b)
Strings(seq) == Json("array", [i \in 1 .. Len(seq) |-> Str(seq[i])])
Objects(seq) == Json("array", seq)

-----------------------------------------------------------------------------
(***************************************************************************)
(* Readers: a member of another type reads as its default.                 *)
(***************************************************************************)

(* parse_json(): one string that is not UTF-8 and nothing of the frame is  *)
(* read.                                                                   *)
RECURSIVE Readable(_)
Readable(v) ==
    CASE v.type = "array"  -> \A i \in DOMAIN v.v : Readable(v.v[i])
      [] v.type = "object" -> \A k \in DOMAIN v.v : Readable(v.v[k])
      [] OTHER             -> v.type # "bytes"

Parses(f) == \A k \in DOMAIN f : Readable(f[k])

Typed(f, k, t) == Parses(f) /\ k \in DOMAIN f /\ f[k].type = t

GetStr(f, k) == IF Typed(f, k, "string") THEN f[k].v ELSE ""
GetInt(f, k) == IF Typed(f, k, "int") THEN f[k].v ELSE 0
GetBool(f, k) == Typed(f, k, "bool") /\ f[k].v
GetArray(f, k) == IF Typed(f, k, "array") THEN f[k].v ELSE <<>>

(* Entries that are not strings are skipped. *)
GetStrings(f, k) ==
    LET texts == SelectSeq(GetArray(f, k), LAMBDA e : e.type = "string")
    IN [i \in 1 .. Len(texts) |-> texts[i].v]

(* Headers without a name are skipped. *)
ExtractHeaders(f, k) ==
    LET read == [i \in 1 .. Len(GetArray(f, k)) |->
                    <<GetStr(f[k].v[i].v, "n"), GetStr(f[k].v[i].v, "v")>>]
    IN SelectSeq(read, LAMBDA h : h[1] # "")

ClampU32(n) == IF n < 0 \/ n > Max32 THEN 0 ELSE n
ClampU64(n) == IF n < 0 THEN 0 ELSE n

Header(h) == Json("object", [n |-> Str(h[1]), v |-> Str(h[2])])
Headers(seq) == Objects([i \in 1 .. Len(seq) |-> Header(seq[i])])

-----------------------------------------------------------------------------
(***************************************************************************)
(* A PDU on its way to the main process.                                   *)
(***************************************************************************)

Absent == <<>>   \* std::nullopt; a present value is a sequence of one

StateKeyMember(env) ==
    IF env.state_key = Absent THEN <<>> ELSE ("state_key" :> Str(env.state_key[1]))

EnvelopeFields(env) ==
    [event_id |-> Str(env.event_id), room_id |-> Str(env.room_id),
     room_version |-> Str(env.room_version), sender |-> Str(env.sender), event_type |-> Str(env.event_type),
     origin_server_ts |-> Num(env.origin_server_ts), depth |-> Num(env.depth),
     auth_event_ids |-> Strings(env.auth_event_ids), prev_event_ids |-> Strings(env.prev_event_ids),
     signatures |-> Objects([i \in 1 .. Len(env.signatures) |->
                                Json("object", [sn |-> Str(env.signatures[i].sn),
                                                ki |-> Str(env.signatures[i].ki),
                                                sig |-> Str(env.signatures[i].sig)])]),
     json |-> Str(env.json)] @@ StateKeyMember(env)

SerializePduIngest(env) == [type |-> Str("pdu_ingest")] @@ EnvelopeFields(env)

(* membership_endpoint_to_string() *)
EndpointName(e) == IF e \in {"send_join", "send_leave", "send_knock"} THEN e ELSE ""

SerializeMembershipIngest(e, env) ==
    [type |-> Str("membership_ingest"), endpoint |-> Str(EndpointName(e))] @@ EnvelopeFields(env)

(* federation_endpoint_from_string(): what it does not know is a join.     *)
EndpointOf(f) ==
    IF GetStr(f, "endpoint") \in {"send_leave", "send_knock"} THEN GetStr(f, "endpoint") ELSE "send_join"

DeserializePduIngest(f) ==
    [event_id |-> GetStr(f, "event_id"), room_id |-> GetStr(f, "room_id"),
     room_version |-> GetStr(f, "room_version"), sender |-> GetStr(f, "sender"),
     event_type |-> GetStr(f, "event_type"),
     state_key |-> IF Typed(f, "state_key", "string") THEN <<f["state_key"].v>> ELSE Absent,
     origin_server_ts |-> GetInt(f, "origin_server_ts"),
     depth |-> ClampU64(GetInt(f, "depth")),
     auth_event_ids |-> GetStrings(f, "auth_event_ids"), prev_event_ids |-> GetStrings(f, "prev_event_ids"),
     signatures |-> SelectSeq([i \in 1 .. Len(GetArray(f, "signatures")) |->
                                 [sn |-> GetStr(f["signatures"].v[i].v, "sn"),
                                  ki |-> GetStr(f["signatures"].v[i].v, "ki"),
                                  sig |-> GetStr(f["signatures"].v[i].v, "sig")]],
                              LAMBDA s : s.sn # ""),
     json |-> GetStr(f, "json")]

(* The result, with the fields the relay does not carry left out. *)
SerializePduResult(r) ==
    [type |-> Str("pdu_ingest_result"), status |-> Str(r.status), reason |-> Str(r.reason),
     stream_ordering |-> Num(r.accepted_stream_ordering)]

DeserializePduResult(f) ==
    [status |-> IF GetStr(f, "status") \in {"accepted", "rejected_auth", "rejected_state_conflict",
                                            "rejected_invalid"}
                THEN GetStr(f, "status") ELSE "internal_error",
     reason |-> GetStr(f, "reason"),
     accepted_stream_ordering |-> ClampU64(GetInt(f, "stream_ordering"))]

-----------------------------------------------------------------------------
(***************************************************************************)
(* EDUs, invites and the answers to membership events.                     *)
(***************************************************************************)

(* The text of an EDU's content is what it parses as: [kind, members], the *)
(* members those at the top of an object.                                  *)
SerializeEduIngest(env) ==
    [type |-> Str("edu_ingest"), edu_type |-> Str(env.edu_type), origin |-> Str(env.origin),
     content_json |-> Json("string", env.content_json)]

(* classify_edu_type() and edu_content_is_valid(): the types, each with    *)
(* the members its content must have.                                      *)
EduMembers ==
    ("m.typing" :> {"room_id", "user_id", "typing"}) @@ ("m.receipt" :> {}) @@ ("m.presence" :> {"push"}) @@
    ("m.direct_to_device" :> {"sender", "type", "messages"}) @@
    ("m.device_list_update" :> {"user_id", "device_id", "stream_id"})

EduContentIsValid(type, content) ==
    /\ content.kind = "object"
    /\ EduMembers[type] \subseteq content.members
    /\ type = "m.receipt" => content.members # {}

(* parse_inbound_edu_envelope(), as a set of none or one envelope.         *)
ParseInboundEduEnvelope(type, origin, content) ==
    IF \/ type = "" \/ origin = "" \/ type \notin DOMAIN EduMembers
       \/ ~EduContentIsValid(type, content)
    THEN {} ELSE {[edu_type |-> type, origin |-> origin, content_json |-> content]}

DeserializeEduIngest(f) ==
    IF ~Parses(f) THEN {}
    ELSE ParseInboundEduEnvelope(GetStr(f, "edu_type"), GetStr(f, "origin"), f["content_json"].v)

SerializeEduResult(r) ==
    [type |-> Str("edu_ingest_result"), status |-> Str(r.status), reason |-> Str(r.reason)]

DeserializeEduResult(f) ==
    [status |-> IF GetStr(f, "status") \in {"accepted", "dropped_unknown_type"}
                THEN GetStr(f, "status") ELSE "rejected_invalid",
     reason |-> GetStr(f, "reason")]

SerializeInviteIngest(q) ==
    [type |-> Str("invite_ingest"), room_id |-> Str(q.room_id), event_id |-> Str(q.event_id),
     room_version |-> Str(q.room_version), invite_event_json |-> Str(q.invite_event_json),
     origin |-> Str(q.origin), invite_room_state_json |-> Strings(q.invite_room_state_json)]

DeserializeInviteIngest(f) ==
    [room_id |-> GetStr(f, "room_id"), event_id |-> GetStr(f, "event_id"),
     room_version |-> GetStr(f, "room_version"), invite_event_json |-> GetStr(f, "invite_event_json"),
     origin |-> GetStr(f, "origin"), invite_room_state_json |-> GetStrings(f, "invite_room_state_json")]

SerializeInviteResult(r) ==
    [type |-> Str("invite_ingest_result"), accepted |-> Bool(r.accepted), status |-> Num(r.status),
     reason |-> Str(r.reason), signed_event_json |-> Str(r.signed_event_json)]

DeserializeInviteResult(f) ==
    [accepted |-> GetBool(f, "accepted"), status |-> IF Parses(f) THEN GetInt(f, "status") ELSE 500,
     reason |-> IF Parses(f) THEN GetStr(f, "reason") ELSE "did not parse",
     signed_event_json |-> GetStr(f, "signed_event_json")]

SerializeMembershipResult(r) ==
    [type |-> Str("membership_ingest_result")] @@ SerializeInviteResult(r) @@
    [room_version |-> Str(r.room_version), auth_chain_json |-> Strings(r.auth_chain_json),
     state_json |-> Strings(r.state_json), knock_room_state_json |-> Strings(r.knock_room_state_json)]

DeserializeMembershipResult(f) ==
    DeserializeInviteResult(f) @@
    [room_version |-> GetStr(f, "room_version"), auth_chain_json |-> GetStrings(f, "auth_chain_json"),
     state_json |-> GetStrings(f, "state_json"),
     knock_room_state_json |-> GetStrings(f, "knock_room_state_json")]

(* The key claim, device, key query and event relays: one body each way.   *)
SerializeQuery(type, member, body) == ("type" :> Str(type)) @@ (member :> Str(body))
DeserializeAnswer(f) == GetStr(f, "response_body")

SerializeProfile(p) ==
    [type |-> Str("profile_query_ingest_result"), found |-> Bool(p.found),
     displayname |-> Str(p.displayname), avatar_url |-> Str(p.avatar_url)]

DeserializeProfile(f) ==
    [found |-> GetBool(f, "found"), displayname |-> GetStr(f, "displayname"),
     avatar_url |-> GetStr(f, "avatar_url")]

-----------------------------------------------------------------------------
(***************************************************************************)
(* Requests and responses of remote servers, and outbound HTTP.            *)
(***************************************************************************)

IsCredential(name) == name \in {"authorization", "x-matrix"}

(* base64_encode_body() and base64_decode_body(): three bytes are four     *)
(* digits, Pad where bytes lack, so a response's body is ASCII on the wire *)
(* whatever its bytes; a malformed text reads as no bytes.                 *)
Pad == 64

Base64Encode(bytes) ==
    LET At(i) == IF i <= Len(bytes) THEN bytes[i] ELSE 0
        Group(i) == 65536 * At(i) + 256 * At(i + 1) + At(i + 2)
        Digits(i) == LET n == Group(i) IN
            <<n \div 262144, (n \div 4096) % 64, IF i < Len(bytes) THEN (n \div 64) % 64 ELSE Pad,
              IF i + 1 < Len(bytes) THEN n % 64 ELSE Pad>>
    IN FlattenSeq([g \in 1 .. (Len(bytes) + 2) \div 3 |-> Digits(3 * g - 2)])

Base64Decode(text) ==
    LET pads == Len(SelectSeq(text, LAMBDA d : d = Pad))
        At(i) == IF text[i] = Pad THEN 0 ELSE text[i]
        Group(i) == 262144 * At(i) + 4096 * At(i + 1) + 64 * At(i + 2) + At(i + 3)
        Three(i) == LET n == Group(i) IN <<n \div 65536, (n \div 256) % 256, n % 256>>
        bytes == FlattenSeq([g \in 1 .. Len(text) \div 4 |-> Three(4 * g - 3)])
        read == SubSeq(bytes, 1, Len(bytes) - pads)
    IN IF Len(text) % 4 # 0 \/ pads > 2 \/ Base64Encode(read) # text THEN <<>> ELSE read

GetBody(f) == IF Typed(f, "body", "string") THEN Base64Decode(f["body"].v) ELSE <<>>

(* The headers that carry credentials stay in the main process. *)
SerializeFedRequest(q) ==
    [type |-> Str("fed_request"), method |-> Str(q.method), target |-> Str(q.target),
     remote_addr |-> Str(q.remote_addr), sig_verified |-> Bool(q.sig_verified),
     verified_origin |-> Str(q.verified_origin), verified_key_id |-> Str(q.verified_key_id),
     headers |-> Headers(SelectSeq(q.headers, LAMBDA h : ~IsCredential(h[1]))), body |-> Str(q.body)]

DeserializeFedRequest(f) ==
    [method |-> GetStr(f, "method"), target |-> GetStr(f, "target"), remote_addr |-> GetStr(f, "remote_addr"),
     sig_verified |-> GetBool(f, "sig_verified"), verified_origin |-> GetStr(f, "verified_origin"),
     verified_key_id |-> GetStr(f, "verified_key_id"), headers |-> ExtractHeaders(f, "headers"),
     body |-> GetStr(f, "body")]

SerializeFedResponse(r) ==
    [type |-> Str("fed_response"), status |-> Num(r.status), headers |-> Headers(r.headers),
     body |-> Json("string", Base64Encode(r.body))]

DeserializeFedResponse(f) ==
    LET status == GetInt(f, "status") IN
    [status |-> IF status <= 0 \/ status > MaxHttp THEN 500 ELSE status,
     headers |-> ExtractHeaders(f, "headers"), body |-> GetBody(f)]

SerializeOutboundRequest(q) ==
    [type |-> Str("outbound_http_request"), method |-> Str(q.method), url |-> Str(q.url),
     headers |-> Headers(q.headers), pinned_addresses |-> Strings(q.pinned_addresses), body |-> Str(q.body),
     connect_timeout |-> Num(q.connect_timeout), total_timeout |-> Num(q.total_timeout),
     max_body_bytes |-> Num(q.max_body_bytes)]

DeserializeOutboundRequest(f) ==
    [method |-> GetStr(f, "method"), url |-> GetStr(f, "url"), body |-> GetStr(f, "body"),
     headers |-> ExtractHeaders(f, "headers"),
     pinned_addresses |-> SelectSeq(GetStrings(f, "pinned_addresses"), LAMBDA a : a # ""),
     connect_timeout |-> ClampU32(GetInt(f, "connect_timeout")),
     total_timeout |-> ClampU32(GetInt(f, "total_timeout")),
     max_body_bytes |-> ClampU64(GetInt(f, "max_body_bytes"))]

(* outbound_error_from_name() *)
OutboundErrorFromName(name) ==
    IF name \in {"none", "invalid_url", "invalid_method", "https_required", "unresolved_host",
                 "tls_verification_failed", "connection_failed", "redirect_rejected", "response_too_large", "timeout"}
    THEN name ELSE "network_error"

(* The response's own headers are not sent on. *)
SerializeOutboundResponse(r) ==
    [type |-> Str("outbound_http_response"), ok |-> Bool(r.ok), http_status |-> Num(r.status),
     body |-> Json("string", Base64Encode(r.body)), error |-> Str(IF r.ok THEN "" ELSE r.error),
     error_detail |-> Str(r.error_detail)]

DeserializeOutboundResponse(f) ==
    LET ok == GetBool(f, "ok") IN
    [ok |-> ok, status |-> ClampU32(GetInt(f, "http_status")), body |-> GetBody(f),
     error |-> IF ok THEN "none" ELSE OutboundErrorFromName(GetStr(f, "error")), error_detail |-> GetStr(f, "error_detail")]

(***************************************************************************)
(* The texts and frames of the media service: the multipart envelope that  *)
(* federated media comes in (media_service.cpp, repository.cpp), the       *)
(* authority of a redirect, and the frames to and from the thumbnail       *)
(* worker (thumbnailer.cpp).  A number from 256 on stands for a word (a    *)
(* header name, a media type).                                             *)
(***************************************************************************)

Newline == 10
Return == 13
Quote == 34
Dash == 45
Colon == 58
Semicolon == 59
Equals == 61

CRLF == <<Return, Newline>>
Dashes == <<Dash, Dash>>

ContentType == 256
Disposition == 257
Location == 258
BoundaryWord == 259
JsonType == 260
OctetStream == 261
Inline == 262
Attachment == 263

StartsAt(text, i, part) == i + Len(part) - 1 <= Len(text) /\ SubSeq(text, i, i + Len(part) - 1) = part

FirstOf(text, chars) == SelectInSeq(text, LAMBDA c : c \in chars)

RECURSIVE Trimmed(_)
Trimmed(text) ==
    IF text = <<>> THEN <<>>
    ELSE IF Head(text) = Space THEN Trimmed(Tail(text))
    ELSE IF Last(text) \in {Space, Return} THEN Trimmed(Front(text))
    ELSE text

(* Building the envelope: an empty JSON part, then the media.              *)

BuildFederationMediaDownloadBody(type, inlineSafe, bytes, boundary) ==
    Dashes \o boundary \o CRLF
    \o <<ContentType, Colon, Space, JsonType>> \o CRLF \o CRLF \o <<123, 125>> \o CRLF
    \o Dashes \o boundary \o CRLF
    \o <<ContentType, Colon, Space, type>> \o CRLF
    \o <<Disposition, Colon, Space, IF inlineSafe THEN Inline ELSE Attachment>> \o CRLF \o CRLF
    \o bytes \o CRLF
    \o Dashes \o boundary \o Dashes \o CRLF

(* Taking it apart.                                                        *)

\* extract_multipart_boundary, of the parameters after the media type: the
\* first named "boundary"; a quote that is not closed gives nothing.
BoundaryValue(value) ==
    LET quoted == Tail(value)
        close == FirstOf(quoted, {Quote})
        stop == FirstOf(value, {Semicolon, Space, Return, Newline})
    IN IF value # <<>> /\ Head(value) = Quote
       THEN IF close = 0 THEN <<>> ELSE SubSeq(quoted, 1, close - 1)
       ELSE IF stop = 0 THEN value ELSE SubSeq(value, 1, stop - 1)

RECURSIVE ExtractMultipartBoundary(_)
ExtractMultipartBoundary(header) ==
    LET eq == FirstOf(header, {Equals})
        before == SubSeq(header, 1, eq - 1)
        semi == SelectLastInSeq(before, LAMBDA c : c = Semicolon)
    IN IF eq = 0 THEN <<>>
       ELSE IF Trimmed(From(before, semi + 1)) = <<BoundaryWord>>
       THEN BoundaryValue(Trimmed(From(header, eq + 1)))
       ELSE ExtractMultipartBoundary(From(header, eq + 1))

\* boundary_at: at the start of a line, and nothing else in it.
BoundaryAt(body, boundary, i) ==
    LET after == i + 2 + Len(boundary) IN
    /\ StartsAt(body, i, Dashes \o boundary)
    /\ i = 1 \/ body[i - 1] = Newline
    /\ \/ after = Len(body) + 1
       \/ StartsAt(body, after, Dashes)
       \/ StartsAt(body, after, CRLF)
       \/ body[after] = Newline

FindNextBoundary(body, boundary, from) ==
    LET places == {i \in from .. Len(body) : BoundaryAt(body, boundary, i)} IN
    IF places = {} THEN 0 ELSE CHOOSE i \in places : \A j \in places : i <= j

RECURSIVE HeaderLines(_)
HeaderLines(block) ==
    LET end == FirstOf(block, {Newline})
        line == Trimmed(IF end = 0 THEN block ELSE SubSeq(block, 1, end - 1))
        colon == FirstOf(line, {Colon})
        header == IF colon = 0 THEN <<>>
                  ELSE << <<Trimmed(SubSeq(line, 1, colon - 1)), Trimmed(From(line, colon + 1))>> >>
    IN IF block = <<>> THEN <<>>
       ELSE IF end = 0 THEN header ELSE header \o HeaderLines(From(block, end + 1))

Place(text, part) ==
    LET places == {i \in DOMAIN text : StartsAt(text, i, part)} IN
    IF places = {} THEN 0 ELSE CHOOSE i \in places : \A j \in places : i <= j

WithoutLastNewline(body) ==
    IF Len(body) >= 2 /\ SubSeq(body, Len(body) - 1, Len(body)) = CRLF THEN SubSeq(body, 1, Len(body) - 2)
    ELSE IF body # <<>> /\ Last(body) = Newline THEN Front(body) ELSE body

ParseMultipartPart(raw) ==
    LET long == Place(raw, CRLF \o CRLF)
        short == Place(raw, <<Newline, Newline>>)
        split == IF long # 0 THEN long ELSE short
        skip == IF long # 0 THEN 4 ELSE 2
    IN [headers |-> HeaderLines(IF split = 0 THEN raw ELSE SubSeq(raw, 1, split - 1)),
        body |-> IF split = 0 THEN <<>> ELSE WithoutLastNewline(From(raw, split + skip))]

\* The parts from a place just after a boundary on.
RECURSIVE PartsFrom(_, _, _)
PartsFrom(body, boundary, i) ==
    LET start == IF StartsAt(body, i, CRLF) THEN i + 2 ELSE IF StartsAt(body, i, <<Newline>>) THEN i + 1 ELSE i
        next == FindNextBoundary(body, boundary, start)
    IN IF StartsAt(body, i, Dashes) \/ next = 0 THEN <<>>
       ELSE <<ParseMultipartPart(SubSeq(body, start, next - 1))>>
            \o PartsFrom(body, boundary, next + 2 + Len(boundary))

SplitMultipartBody(body, boundary) ==
    LET first == FindNextBoundary(body, boundary, 1) IN
    IF boundary = <<>> \/ first = 0 THEN <<>> ELSE PartsFrom(body, boundary, first + 2 + Len(boundary))

\* find_raw_header_ci: the first of a name.
HeaderNamed(part, name) ==
    LET i == SelectInSeq(part.headers, LAMBDA h : h[1] = <<name>>) IN
    IF i = 0 THEN {} ELSE {part.headers[i][2]}

\* strip_mime_parameters
StripMimeParameters(value) ==
    LET semi == FirstOf(value, {Semicolon}) IN Trimmed(IF semi = 0 THEN value ELSE SubSeq(value, 1, semi - 1))

ParseFederationMediaMultipart(header, body) ==
    LET parts == SplitMultipartBody(body, ExtractMultipartBoundary(header)) IN
    IF Len(parts) # 2 THEN {}
    ELSE IF HeaderNamed(parts[2], Location) # {}
    THEN {[redirect |-> TRUE, location |-> l] : l \in HeaderNamed(parts[2], Location)}
    ELSE {[redirect |-> FALSE, bytes |-> parts[2].body,
           type |-> IF HeaderNamed(parts[2], ContentType) = {} THEN <<OctetStream>>
                    ELSE StripMimeParameters(CHOOSE t \in HeaderNamed(parts[2], ContentType) : TRUE)]}

(* parse_https_authority, after "https://".                                *)

Digits == 48 .. 57

\* from_chars into sixteen bits, of all the text, and not zero.
Port(text) ==
    LET n == FoldLeft(LAMBDA v, c : 10 * v + (c - 48), 0, text) IN
    IF text = <<>> \/ ~(Range(text) \subseteq Digits) THEN {} ELSE {n} \intersect (1 .. MaxPort)

ParseHttpsAuthority(rest) ==
    LET stop == FirstOf(rest, {Slash, 63, 35})
        authority == IF stop = 0 THEN rest ELSE SubSeq(rest, 1, stop - 1)
        close == FirstOf(authority, {93})
        colon == FirstOf(authority, {Colon})
        Host(from, to) == SubSeq(authority, from, to)
    IN IF authority = <<>> \/ FirstOf(authority, {64}) # 0 THEN {}
       ELSE IF Head(authority) = 91
       THEN IF close <= 2 THEN {}
            ELSE IF close = Len(authority) THEN {[host |-> Host(2, close - 1), port |-> 443]}
            ELSE {[host |-> Host(2, close - 1), port |-> p] :
                    p \in IF authority[close + 1] = Colon THEN Port(From(authority, close + 2)) ELSE {}}
       ELSE IF colon # 0 /\ SelectLastInSeq(authority, LAMBDA c : c = Colon) = colon
       THEN {[host |-> Host(1, colon - 1), port |-> p] : p \in Port(From(authority, colon + 1))}
       ELSE {[host |-> authority, port |-> 443]}

(* Thumbnails.                                                             *)

\* append_u32
U32(n) == <<n \div (Base * Base * Base), (n \div (Base * Base)) % Base, (n \div Base) % Base, n % Base>>

\* read_u32
ReadU32(frame, i) == FoldLeft(LAMBDA v, d : v * Base + d, 0, SubSeq(frame, i, i + 3))

RequestMagic == <<77, 84, 72, 49>>
ResponseMagic == <<77, 84, 82, 49>>
Formats == <<"png", "jpeg">>
Methods == <<"scale", "crop">>
Statuses == <<"ok", "decode_failed", "too_large", "unsupported", "internal_error">>

IndexOf(names, name) == SelectInSeq(names, LAMBDA x : x = name) - 1

FrameThumbnailRequest(r) ==
    RequestMagic \o <<IndexOf(Formats, r.format), IndexOf(Methods, r.method)>> \o U32(r.width) \o U32(r.height)
        \o U32(r.max_pixels) \o U32(Len(r.bytes)) \o r.bytes

ParseThumbnailRequest(frame) ==
    IF Len(frame) < 22 \/ SubSeq(frame, 1, 4) # RequestMagic THEN {}
    ELSE IF frame[5] > 1 \/ frame[6] > 1 \/ ReadU32(frame, 19) # Len(frame) - 22 THEN {}
    ELSE {[format |-> Formats[frame[5] + 1], method |-> Methods[frame[6] + 1], width |-> ReadU32(frame, 7),
           height |-> ReadU32(frame, 11), max_pixels |-> ReadU32(frame, 15), bytes |-> From(frame, 23)]}

FrameThumbnailResponse(r) ==
    ResponseMagic \o <<IndexOf(Statuses, r.status)>> \o U32(r.width) \o U32(r.height) \o U32(Len(r.png)) \o r.png

ParseThumbnailResponse(frame) ==
    IF Len(frame) < 17 \/ SubSeq(frame, 1, 4) # ResponseMagic THEN {}
    ELSE IF frame[5] > 4 \/ ReadU32(frame, 14) # Len(frame) - 17 THEN {}
    ELSE {[status |-> Statuses[frame[5] + 1], width |-> ReadU32(frame, 6), height |-> ReadU32(frame, 10),
           png |-> From(frame, 18)]}

NormaliseThumbnailDimensions(max, width, height) ==
    LET cap == IF max = 0 THEN width ELSE max IN
    IF width = 0 \/ height = 0 \/ width > cap \/ height > cap THEN {} ELSE {<<width, height>>}

\* generate_thumbnail: the status of its result.  `started' says whether the
\* pipes and the fork succeed, `sent' and `ended' whether the request is
\* written and the answer read to its end before the deadline, `answer' what
\* the worker writes.
GenerateThumbnail(config, r, worker) ==
    LET answer == ParseThumbnailResponse(worker.answer)
        status == IF answer = {} THEN "malformed" ELSE (CHOOSE a \in answer : TRUE).status
    IN CASE ~config.worker -> 503
         [] r.bytes = <<>> -> 400
         [] config.max_input # 0 /\ Len(r.bytes) > config.max_input -> 413
         [] r.type \notin {"image/png", "image/jpeg"} -> 415
         [] NormaliseThumbnailDimensions(config.max_dimension, r.width, r.height) = {} -> 400
         [] ~worker.started -> 500
         [] ~worker.sent \/ ~worker.ended -> 504
         [] config.max_output # 0 /\ Len(worker.answer) > config.max_output + 32 -> 504
         [] status \in {"malformed", "internal_error"} -> 502
         [] status = "ok" -> IF \E a \in answer : config.max_output # 0 /\ Len(a.png) > config.max_output
                             THEN 502 ELSE 200
         [] status = "decode_failed" -> 400
         [] status = "too_large" -> 413
         [] OTHER -> 415
=============================================================================
