-------------------------- MODULE ServerDiscovery ---------------------------
(***************************************************************************)
(* Whether a server may take part in a room, and where its requests go.    *)
(***************************************************************************)
EXTENDS Integers, Sequences, FiniteSets, SequencesExt, TLC

CONSTANTS
    Literals,       \* [host |-> bytes] for the hosts inet_pton understands
    Dotted,         \* the words with a dot in them
    PortWords,      \* [word |-> number] for the words that are all digits
    Prefixed,       \* [word |-> number] for the words that begin with digits
    Missing,        \* no .well-known answer
    Garbled,        \* a .well-known body without a usable m.server
    Lower,          \* to_lower_ascii, on the characters in use
    IpLiteral       \* ip_address_is_valid: the texts that are addresses

(***************************************************************************)
(* How the server finds where to send a federation request: the discovery  *)
(* cascade of server_discovery.cpp (name, .well-known delegation, SRV,     *)
(* addresses), the ban on private addresses of federation/security.cpp,    *)
(* the URL the callers build from the result, and what the outbound HTTP   *)
(* client makes of that URL and of the answer.                             *)
(*                                                                         *)
(* A name is a sequence of tokens: "[", "]", ":" and words.  An address is *)
(* its bytes, four or sixteen.  The network is a record `net' of what it   *)
(* would answer: net.wellKnown[host] is the delegated name, or one of      *)
(* Missing and Garbled; net.srv[host] is a sequence of SRV records;        *)
(* net.addresses[host] is a sequence of addresses.                         *)
(***************************************************************************)

Nothing == [ok |-> FALSE]

----------------------------------------------------------------------------
(* Names. *)

Before(s, i) == SubSeq(s, 1, i - 1)

After(s, i) == SubSeq(s, i + 1, Len(s))

Places(s, token) == {i \in DOMAIN s : s[i] = token}

First(S) == CHOOSE i \in S : \A j \in S : i <= j

parse_port(text) ==
    IF Len(text) = 1 /\ text[1] \in DOMAIN PortWords
    THEN LET port == PortWords[text[1]]
         IN IF port \in 1..65535 THEN [ok |-> TRUE, port |-> port] ELSE Nothing
    ELSE Nothing

HostPort(host, port, explicit) ==
    [ok |-> TRUE, host |-> host, port |-> port, explicit |-> explicit]

(* A host followed by an optional ":port", given what stands after the     *)
(* host.                                                                   *)
WithPort(host, rest, default_port) ==
    LET port == parse_port(Tail(rest))
    IN CASE rest = <<>> -> HostPort(host, default_port, FALSE)
         [] rest # <<>> /\ Head(rest) = ":" /\ port.ok -> HostPort(host, port.port, TRUE)
         [] OTHER -> Nothing

parse_host_port(value, default_port) ==
    LET closing == Places(value, "]")
        colons == Places(value, ":")
    IN CASE value = <<>> -> Nothing
         [] value # <<>> /\ Head(value) = "[" ->
              IF closing = {} \/ First(closing) = 2 THEN Nothing
              ELSE WithPort(SubSeq(value, 2, First(closing) - 1),
                            After(value, First(closing)), default_port)
         [] value # <<>> /\ Head(value) # "[" ->
              IF Cardinality(colons) # 1 THEN HostPort(value, default_port, FALSE)
              ELSE LET colon == First(colons)
                       port == parse_port(After(value, colon))
                   IN IF port.ok /\ colon # 1
                      THEN HostPort(Before(value, colon), port.port, TRUE)
                      ELSE Nothing

host_is_numeric_ip(host) == host \in DOMAIN Literals

server_name_is_valid(text) ==
    /\ \E i \in DOMAIN text : text[i] \in Dotted
    /\ Places(text, " ") = {}

(* The names the cascade accepts, of a server or of its delegate. *)
NameIsUsable(name) ==
    name.ok /\ (server_name_is_valid(name.host) \/ host_is_numeric_ip(name.host))

----------------------------------------------------------------------------
(* Addresses. *)

ipv4_is_private_or_loopback(b) ==
    \/ b[1] \in {0, 10, 127}
    \/ b[1] = 169 /\ b[2] = 254
    \/ b[1] = 172 /\ b[2] >= 16 /\ b[2] <= 31
    \/ b[1] = 192 /\ b[2] = 168

ipv6_is_private_or_loopback(b) ==
    LET zeros(n) == \A i \in 1..n : b[i] = 0
    IN \/ zeros(15) /\ b[16] \in {0, 1}
       \/ b[1] - (b[1] % 2) = 252
       \/ b[1] = 254 /\ b[2] - (b[2] % 64) = 128
       \/ zeros(10) /\ b[11] = 255 /\ b[12] = 255 /\ ipv4_is_private_or_loopback(SubSeq(b, 13, 16))

ip_address_is_private_or_loopback(b) ==
    IF Len(b) = 4 THEN ipv4_is_private_or_loopback(b) ELSE ipv6_is_private_or_loopback(b)

address_set_allowed(addresses) ==
    /\ addresses # <<>>
    /\ \A i \in DOMAIN addresses : ~ip_address_is_private_or_loopback(addresses[i])

(* A literal resolves to itself; the resolver's list is deduplicated. *)
lookup_addresses(net, host) ==
    IF host_is_numeric_ip(host) THEN <<Literals[host]>>
    ELSE IF host \in DOMAIN net.addresses
         THEN FoldLeft(LAMBDA seen, a : IF a \in Range(seen) THEN seen ELSE Append(seen, a),
                       <<>>, net.addresses[host])
         ELSE <<>>

----------------------------------------------------------------------------
(* The cascade. *)

resolve_federation_destination(net, host, port) ==
    LET addresses == lookup_addresses(net, host)
        private == host_is_numeric_ip(host) /\ ip_address_is_private_or_loopback(Literals[host])
        allowed == host # <<>> /\ ~private /\ address_set_allowed(addresses)
    IN [allowed |-> allowed, host |-> host, port |-> port,
        pinned |-> IF allowed THEN addresses ELSE <<>>]

resolve_destination(net, host, port, tls_host) ==
    resolve_federation_destination(net, host, port)
        @@ [cert |-> tls_host, tls_required |-> port # 8008]

SrvBefore(lhs, rhs) ==
    \/ lhs.priority < rhs.priority
    \/ lhs.priority = rhs.priority /\ lhs.weight > rhs.weight

sort_srv_records(records) == SortSeq(records, SrvBefore)

(* The usable records of an answer, in order: an answer that does not      *)
(* parse ends the walk at that record, and a record with an empty target   *)
(* is skipped.                                                             *)
parse_srv_records(answers) ==
    LET broken == {i \in DOMAIN answers : ~answers[i].parses}
        walked == IF broken = {} THEN answers ELSE Before(answers, First(broken))
    IN SelectSeq(walked, LAMBDA r : r.isSrv /\ r.target # <<>>)

lookup_srv(net, host) ==
    IF host \in DOMAIN net.srv THEN sort_srv_records(parse_srv_records(net.srv[host])) ELSE <<>>

(* The document is fetched only from a host all of whose addresses are     *)
(* public.                                                                 *)
fetch_well_known(net, host) ==
    IF address_set_allowed(lookup_addresses(net, host)) /\ host \in DOMAIN net.wellKnown
    THEN net.wellKnown[host]
    ELSE Missing

(* Mutant: the certificate is the SRV target's. *)
CertificateOfTheTarget(net, name) ==
    LET records == lookup_srv(net, name.host)
    IN IF records = <<>>
       THEN resolve_destination(net, name.host, name.port, name.host)
       ELSE resolve_destination(net, records[1].target, records[1].port, records[1].target)

(* Through SRV when there is a record, else the name on its default port;  *)
(* the certificate is the name's either way.                               *)
ThroughSrv(net, name) ==
    LET records == lookup_srv(net, name.host)
    IN IF records = <<>>
       THEN resolve_destination(net, name.host, name.port, name.host)
       ELSE resolve_destination(net, records[1].target, records[1].port, name.host)

IsDirect(name) == host_is_numeric_ip(name.host) \/ name.explicit

Direct(net, name) == resolve_destination(net, name.host, name.port, name.host)

extract_m_server(body) ==
    IF body \in {Missing, Garbled} THEN Nothing ELSE parse_host_port(body, 8448)

Refused == [allowed |-> FALSE, host |-> <<>>, port |-> 0, pinned |-> <<>>, cert |-> <<>>,
            tls_required |-> TRUE]

discover_server(net, server_name) ==
    LET name == parse_host_port(server_name, 8448)
        delegate == extract_m_server(fetch_well_known(net, name.host))
        delegated(result) == result @@ [well_known_host |-> IF result.allowed THEN result.host ELSE <<>>]
        plain(result) == result @@ [well_known_host |-> <<>>]
    IN CASE ~NameIsUsable(name) -> plain(Refused)
         [] NameIsUsable(name) /\ IsDirect(name) -> plain(Direct(net, name))
         [] NameIsUsable(name) /\ ~IsDirect(name) ->
              IF ~NameIsUsable(delegate) THEN plain(ThroughSrv(net, name))
              ELSE IF IsDirect(delegate) THEN delegated(Direct(net, delegate))
              ELSE delegated(ThroughSrv(net, delegate))

(* What the remote's record keeps of it, and what the admission check of   *)
(* an incoming request then asks of the record.                            *)
build_remote_runtime(result) ==
    [resolved_host |-> result.host,
     well_known_host |-> IF result.well_known_host = <<>> THEN result.host ELSE result.well_known_host,
     addresses |-> result.pinned, tls_required |-> result.tls_required]

federation_discovery_policy(server_name, remote) ==
    /\ server_name_is_valid(server_name)
    /\ remote.resolved_host # <<>>
    /\ remote.well_known_host \in {<<>>, remote.resolved_host}
    /\ address_set_allowed(remote.addresses)
    /\ remote.tls_required

----------------------------------------------------------------------------
(* The request. *)

(* The authority of the URL: an IPv6 literal is bracketed. *)
build_url(result) ==
    LET host == IF result.cert = <<>> THEN result.host ELSE result.cert
        bracketed == IF Places(host, ":") # {} /\ Head(host) # "["
                     THEN <<"[">> \o host \o <<"]">> ELSE host
    IN bracketed \o <<":", CHOOSE w \in DOMAIN PortWords : PortWords[w] = result.port>>

validate_outbound_request(authority, pinned) ==
    /\ authority # <<>>
    /\ Head(authority) \notin {":", "/", "@"}
    /\ pinned # <<>>

(* The client splits the authority at the first colon. *)
parse_request_host_port(authority) ==
    LET colons == Places(authority, ":")
        port == parse_port(After(authority, First(colons)))
    IN CASE authority = <<>> -> Nothing
         [] authority # <<>> /\ colons = {} -> [ok |-> TRUE, host |-> authority, port |-> 443]
         [] colons # {} -> IF First(colons) # 1 /\ port.ok
                           THEN [ok |-> TRUE, host |-> Before(authority, First(colons)), port |-> port.port]
                           ELSE Nothing

(* The host and port the client pins the addresses to, if it sends at all. *)
Sent(result) ==
    LET authority == build_url(result)
    IN IF validate_outbound_request(authority, result.pinned)
       THEN parse_request_host_port(authority) ELSE Nothing

----------------------------------------------------------------------------
(* The other clients: push gateways, identity servers and application      *)
(* services are named by a URL, whose authority each client reads itself.  *)

(* All of them split at the last colon; what follows is a port, or else    *)
(* the colon belongs to the host.                                          *)
AtLastColon(authority, default_port) ==
    LET colons == Places(authority, ":")
        colon == CHOOSE i \in colons : \A j \in colons : j <= i
        port == parse_port(After(authority, colon))
        split == IF colons # {} /\ port.ok
                 THEN [ok |-> TRUE, host |-> Before(authority, colon), port |-> port.port]
                 ELSE [ok |-> TRUE, host |-> authority, port |-> default_port]
    IN IF split.host = <<>> THEN Nothing ELSE split

parse_push_gateway_url(authority) == AtLastColon(authority, 443)

parse_appservice_url(authority, is_https) == AtLastColon(authority, IF is_https THEN 443 ELSE 80)

(* A port is read as far as it has digits. *)
parse_identity_server_url(authority) ==
    LET colons == Places(authority, ":")
        colon == CHOOSE i \in colons : \A j \in colons : j <= i
        word == After(authority, colon)
    IN IF colons # {} /\ Len(word) = 1 /\ word[1] \in DOMAIN Prefixed
       THEN IF Prefixed[word[1]] \in 1..65535 /\ colon # 1
            THEN [ok |-> TRUE, host |-> Before(authority, colon), port |-> Prefixed[word[1]]]
            ELSE Nothing
       ELSE AtLastColon(authority, 443)

(* What a client resolves, and the authority of the URL it asks for: the   *)
(* application service's is put together again, the others' is as given.   *)
Called(client, authority) ==
    LET parsed == CASE client = "push" -> parse_push_gateway_url(authority)
                    [] client = "identity" -> parse_identity_server_url(authority)
                    [] client = "appservice" -> parse_appservice_url(authority, TRUE)
        word == CHOOSE w \in DOMAIN PortWords : PortWords[w] = parsed.port
    IN [resolved |-> parsed,
        url |-> IF client = "appservice" /\ parsed.ok THEN parsed.host \o <<":", word>> ELSE authority]

(* The addresses a client resolves are pinned to the host and port the     *)
(* outbound client then connects to, whenever it connects.                 *)
PinsWhatItCalls(net, client, authority) ==
    LET call == Called(client, authority)
        pinned == lookup_addresses(net, call.resolved.host)
        sent == parse_request_host_port(call.url)
    IN call.resolved.ok /\ validate_outbound_request(call.url, pinned) /\ sent.ok =>
         <<sent.host, sent.port>> = <<call.resolved.host, call.resolved.port>>

----------------------------------------------------------------------------
(* The specification's table of steps, and what a request must be. *)

(* Where a server name leads by the specification, read as a table: the    *)
(* first row that applies.                                                 *)
Prescribed(net, name, delegate) ==
    LET to(n) == [host |-> n.host, port |-> n.port, cert |-> n.host]
        srv(n) == lookup_srv(net, n.host)
        through(n) == [host |-> srv(n)[1].target, port |-> srv(n)[1].port, cert |-> n.host]
        bare(n) == ~n.explicit /\ n.host \notin DOMAIN Literals
        rows == << [applies |-> ~bare(name), to |-> 1],
                   [applies |-> delegate.ok /\ ~bare(delegate), to |-> 2],
                   [applies |-> delegate.ok /\ srv(delegate) # <<>>, to |-> 3],
                   [applies |-> delegate.ok, to |-> 4],
                   [applies |-> srv(name) # <<>>, to |-> 5],
                   [applies |-> TRUE, to |-> 6] >>
        row == SelectSeq(rows, LAMBDA r : r.applies)[1].to
    IN CASE row = 1 -> to(name) [] row = 2 -> to(delegate) [] row = 3 -> through(delegate)
         [] row = 4 -> to(delegate) [] row = 5 -> through(name) [] row = 6 -> to(name)

(* The ranges no federation request may be sent to, as intervals of the    *)
(* first two bytes, of an address of four bytes or one mapped into sixteen.*)
InPrivateRange(b) ==
    LET of(c) == c[1] * 256 + c[2]
        four == \E r \in {<<0, 255>>, <<2560, 2815>>, <<32512, 32767>>, <<43518, 43518>>,
                          <<44048, 44063>>, <<49320, 49320>>} :
                  LET n == of(IF Len(b) = 4 THEN b ELSE SubSeq(b, 13, 16)) IN n >= r[1] /\ n <= r[2]
        lead(n) == \A i \in 1..n : b[i] = 0
    IN IF Len(b) = 4 THEN four
       ELSE \/ lead(15) /\ b[16] <= 1
            \/ of(b) >= 64512 /\ of(b) <= 65023
            \/ of(b) >= 65152 /\ of(b) <= 65215
            \/ lead(10) /\ b[11] = 255 /\ b[12] = 255 /\ four

(* Whatever the network answers, an allowed result goes where the table    *)
(* says, to public addresses only; the request built from it is sent to    *)
(* the host whose certificate is asked for, on that port, or, where that   *)
(* host is an IPv6 literal, is not sent at all: build_url brackets it and  *)
(* parse_request_host_port splits the authority at its first colon.  A     *)
(* server that can be sent to over TLS is one that may send to us, but for *)
(* those literals, whose names server_name_is_valid refuses.               *)
ReachesWhatItFound(net, server_name) ==
    \A result \in {discover_server(net, server_name)}, name \in {parse_host_port(server_name, 8448)} :
    result.allowed =>
         LET delegate == extract_m_server(fetch_well_known(net, name.host))
             want == Prescribed(net, name, IF NameIsUsable(delegate) THEN delegate ELSE Nothing)
         IN
         /\ <<result.host, result.port, result.cert>> = <<want.host, want.port, want.cert>>
         /\ \A i \in DOMAIN result.pinned : ~InPrivateRange(result.pinned[i])
         /\ Sent(result) = IF Places(result.cert, ":") = {}
                           THEN [ok |-> TRUE, host |-> result.cert, port |-> result.port] ELSE Nothing
         /\ result.tls_required =>
              federation_discovery_policy(server_name, build_remote_runtime(result)) = (Places(result.cert, ":") = {})

-----------------------------------------------------------------------------
(***************************************************************************)
(* federation/server_acl.cpp: whether a room's m.room.server_acl lets a    *)
(* server in.  A text is a sequence of characters; Lower folds a           *)
(* character's case and IpLiteral says which hosts inet_pton reads.        *)
(***************************************************************************)

Digits == {"0", "1", "2", "3", "4", "5", "6", "7", "8", "9"}

---------------------------------------------------------------------------
(* glob_match: one row of the table for each pattern character; entry j    *)
(* says whether the pattern so far matches the first j characters.         *)

\* Mutant: a star takes at least one character.
StarRowAtLeastOne(previous) ==
    LET row[j \in DOMAIN previous] == j > 0 /\ (previous[j - 1] \/ row[j - 1]) IN row

StarRow(previous) ==
    LET row[j \in DOMAIN previous] == previous[j] \/ (j > 0 /\ row[j - 1]) IN row

CharRow(previous, c, text) ==
    [j \in DOMAIN previous |-> /\ j > 0
                               /\ c = "?" \/ Lower[c] = Lower[text[j]]
                               /\ previous[j - 1]]

GlobMatch(pattern, text) ==
    FoldLeft(LAMBDA row, c : IF c = "*" THEN StarRow(row) ELSE CharRow(row, c, text),
             [j \in 0 .. Len(text) |-> j = 0], pattern)[Len(text)]

---------------------------------------------------------------------------
(* Names with ports, and names that are addresses.                         *)

LastColon(name) == SelectLastInSeq(name, LAMBDA c : c = ":")

StripServerPort(name) ==
    LET close == SelectInSeq(name, LAMBDA c : c = "]")
        colon == LastColon(name)
    IN IF name = <<>> THEN name
       ELSE IF Head(name) = "[" THEN IF close = 0 THEN name ELSE SubSeq(name, 1, close)
       ELSE IF colon <= 1 \/ \E i \in colon + 1 .. Len(name) : name[i] \notin Digits THEN name
       ELSE SubSeq(name, 1, colon - 1)

HostWithoutBrackets(host) ==
    IF Len(host) >= 2 /\ Head(host) = "[" /\ Last(host) = "]" THEN SubSeq(host, 2, Len(host) - 1) ELSE host

ServerNameIsIpLiteral(name) ==
    LET host == StripServerPort(name) IN
    host # <<>> /\ HostWithoutBrackets(host) \in IpLiteral

---------------------------------------------------------------------------
(* The event's content, whose members may be missing or of another type:   *)
(* a member is a set of at most one value of its own type.                 *)

ParseServerAcl(content) ==
    [allow_ip_literals |-> TRUE \notin {~b : b \in content.allow_ip_literals},
     allow             |-> UNION content.allow,
     deny              |-> UNION content.deny]

Listed(list, host) == \E pattern \in list : GlobMatch(pattern, host)

\* evaluate_server_acl
Allows(acl, name) ==
    LET host == StripServerPort(name) IN
    /\ host # <<>>
    /\ acl.allow_ip_literals \/ ~ServerNameIsIpLiteral(host)
    /\ ~Listed(acl.deny, host)
    /\ acl.allow = {} \/ Listed(acl.allow, host)

\* room_server_acl_allows: the room's current ACL event, where it has one
\* whose JSON has a content.
RoomServerAclAllows(acl_event, name) ==
    \A content \in acl_event : Allows(ParseServerAcl(content), name)
=============================================================================
