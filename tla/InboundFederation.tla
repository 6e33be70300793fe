------------------------- MODULE InboundFederation -------------------------
(***************************************************************************)
(* handle_inbound_federation_request(): how a request signed by a remote   *)
(* server is authenticated, metered, deduplicated and walked.              *)
(*                                                                         *)
(* Request threads share FederationRuntimeState and hold its mutex only    *)
(* for one short section at a time.  A thread copies the record of its     *)
(* peer (remote_snapshot), works on the copy without the mutex, including  *)
(* the network round trips of key resolution, and writes the trust counter *)
(* or the signing key of the copy back.  Each section is an action; what a *)
(* thread does between two sections touches only its own copy.             *)
(*                                                                         *)
(* A signing key is its key id and the generation of its valid_until_ts:   *)
(* the keys of an origin up to generation lapsed[o] have expired.  The     *)
(* windows and lifetimes measured with steady_clock end at any moment.     *)
(***************************************************************************)
EXTENDS Naturals, Sequences, FiniteSets

CONSTANTS
    Threads,       \* threads that serve federation requests
    Origins, KeyIds,
    Published,     \* the key ids each origin really publishes
    Sources,       \* client addresses
    Requests,      \* the requests that may arrive, records
    AllowedServers,\* origins that federation_server_policy lets in
    Routable,      \* origins whose discovery record federation_discovery_policy accepts
    MaxInFlight,   \* key_resolution_max_in_flight
    PerIpRate,     \* key_resolution_per_ip_rate.max_requests
    RateOf,        \* max_requests of the four per-origin rates
    MaxPdus, MaxEdus,   \* max_transaction_pdus, max_transaction_edus
    MaxAccepted,   \* kMaxAcceptedTransactions
    NoRemote,
    MaxRequests,   \* bound: requests received
    MaxTicks       \* bound: expiries of keys and ends of windows

Counters == {"txns", "pdus", "edus", "requests"}

ASSUME InboundAssumption ==
    /\ Published \in [Origins -> SUBSET KeyIds]
    /\ AllowedServers \subseteq Origins /\ Routable \subseteq Origins
    /\ RateOf \in [Counters -> Nat \ {0}]
    /\ MaxInFlight \in Nat \ {0} /\ PerIpRate \in Nat \ {0} /\ MaxAccepted \in Nat \ {0}
    /\ NoRemote \notin [key : KeyIds, gen : Nat, failures : Nat]

VARIABLES
    remotes,       \* the record of each known origin: its key and consecutive_failures
    cache,         \* server_signing_keys: generation of each cached key, 0 if none
    gen, lapsed,   \* generation an origin publishes now; the last that has expired
    flight,        \* key_resolutions_in_flight
    charged,       \* resolutions_seen of each source in its window
    failed,        \* key_resolution_failures
    rate,          \* the per-origin counters in their windows
    accepted,      \* accepted_transactions
    th,            \* the state of each thread
    sunk,          \* PDUs given to pdu_sink, with the key that verified them
    walked, acked, \* transactions walked to the end; acknowledged as repetitions
    received, ticks \* requests received; steps of time and of the peers

keyVars == <<cache, failed, charged, flight>>
envVars == <<gen, lapsed, received, ticks>>
logVars == <<sunk, walked, acked>>
vars == <<remotes, keyVars, envVars, rate, accepted, th, logVars>>

Idle == [pc |-> "idle"]

Init ==
    /\ remotes = [o \in Origins |-> NoRemote]
    /\ cache = [o \in Origins |-> [k \in KeyIds |-> 0]]
    /\ gen = [o \in Origins |-> 1] /\ lapsed = [o \in Origins |-> 0]
    /\ flight = 0 /\ charged = [s \in Sources |-> 0] /\ failed = {}
    /\ rate = [o \in Origins |-> [c \in Counters |-> 0]]
    /\ accepted = <<>> /\ th = [t \in Threads |-> Idle]
    /\ sunk = {} /\ walked = {} /\ acked = {} /\ received = 0 /\ ticks = 0

-----------------------------------------------------------------------------
(* Threads.                                                                *)

At(t, pc) == th[t].pc = pc

Goto(t, pc) == th' = [th EXCEPT ![t].pc = pc]

\* The thread returns its response.
Reply(t) == th' = [th EXCEPT ![t] = Idle]

TxnId(r) == <<r.origin, r.txn>>

\* persist_remote_trust(): the counter of the copy overwrites the shared one.
PersistTrust(o, n) ==
    remotes' = IF remotes[o] = NoRemote THEN remotes ELSE [remotes EXCEPT ![o].failures = n]

\* A trust failure that ends the request.
Penalise(t) ==
    /\ PersistTrust(th[t].req.origin, th[t].remote.failures + 1)
    /\ Reply(t)

-----------------------------------------------------------------------------
(* Arrival and remote-key resolution.                                      *)

\* match_federation_route(): the method and path are those of an endpoint.
Routed(r) == r.kind # "unknown"

\* federation_server_policy().
ServerAllowed(o) == o \in AllowedServers

Receive(t, r) ==
    /\ At(t, "idle") /\ received < MaxRequests
    /\ received' = received + 1
    /\ th' = IF Routed(r) /\ ServerAllowed(r.origin)
             THEN [th EXCEPT ![t] = [pc |-> "snapshot", req |-> r, now |-> lapsed, remote |-> NoRemote,
                                     fresh |-> FALSE, found |-> 0, todo |-> <<>>, bad |-> 0]]
             ELSE th
    /\ UNCHANGED <<remotes, keyVars, gen, lapsed, ticks, rate, accepted, logVars>>

\* find_cached_remote_key(): a generation, 0 for nullopt.
CachedKey(o, k) == cache[o][k]

\* key_resolution_is_cache_served(): the probe finds a key that needs no refresh.
CacheServed(o, k) == CachedKey(o, k) > lapsed[o]

\* admit_key_resolution(): the negative cache, the in-flight cap, the budget of the source.
Admits(r) ==
    /\ <<r.origin, r.key>> \notin failed
    /\ flight < MaxInFlight
    /\ charged[r.src] < PerIpRate

Charge(r) ==
    /\ charged' = [charged EXCEPT ![r.src] = @ + 1]
    /\ flight' = flight + 1

\* release_key_resolution(), run by the destructor of KeyResolutionSlot.
Release == flight' = IF flight > 0 THEN flight - 1 ELSE 0

\* Enters the resolver, which first reads the cached key; charged when the
\* probe did not find it.
BeginResolution(t, pc, copy) ==
    LET r == th[t].req
        enter(chg) == [th EXCEPT ![t] = [@ EXCEPT !.pc = pc, !.remote = copy, !.fresh = ~chg,
                                                  !.found = CachedKey(r.origin, r.key)]]
    IN  \/ /\ CacheServed(r.origin, r.key)
           /\ th' = enter(FALSE) /\ UNCHANGED <<charged, flight>>
        \/ /\ ~CacheServed(r.origin, r.key) /\ Admits(r)
           /\ th' = enter(TRUE) /\ Charge(r)
        \/ /\ ~CacheServed(r.origin, r.key) /\ ~Admits(r)
           /\ Reply(t) /\ UNCHANGED <<charged, flight>>

\* The copy's key does not serve the request: another key id, or expired when
\* the request arrived (request.now_ts is read once).
NeedsRefresh(t, copy) == copy.key # th[t].req.key \/ copy.gen <= th[t].now[th[t].req.origin]

\* The snapshot of the peer.  An unknown peer is resolved.
Snapshot(t) ==
    /\ At(t, "snapshot")
    /\ LET copy == remotes[th[t].req.origin]
       IN  \/ copy = NoRemote /\ BeginResolution(t, "resolving", copy)
           \/ /\ copy # NoRemote
              /\ th' = [th EXCEPT ![t] = [@ EXCEPT !.pc = "known", !.remote = copy]]
              /\ UNCHANGED <<charged, flight>>
    /\ UNCHANGED <<remotes, cache, failed, envVars, rate, accepted, logVars>>

\* A known peer whose key does not serve the request is resolved again.
Refresh(t) ==
    /\ At(t, "known")
    /\ \/ NeedsRefresh(t, th[t].remote) /\ BeginResolution(t, "refreshing", th[t].remote)
       \/ /\ ~NeedsRefresh(t, th[t].remote)
          /\ Goto(t, "gate") /\ UNCHANGED <<charged, flight>>
    /\ UNCHANGED <<remotes, cache, failed, envVars, rate, accepted, logVars>>

\* The keys of a response that parse_and_verify_remote_key_response() accepts:
\* each signs the response itself, so they are the server's own.
FetchedKeys(o) == Published[o]

\* The rows of server_signing_keys after cache_remote_server_keys().
FetchedRows(o) ==
    [cache EXCEPT ![o] = [k \in KeyIds |-> IF k \in FetchedKeys(o) THEN gen[o] ELSE @[k]]]

\* What make_resolver_impl() may leave in the cache and return, 0 for nullopt,
\* when it found the generation found in the cache: the fetched key, or the
\* cached one when it is fresh, when the fetch failed or when its rows could
\* not be stored; nothing when discovery does not allow the server.
ResolverOutcomes(o, k, found) ==
    {<<FetchedRows(o), FetchedRows(o)[o][k]>>, <<FetchedRows(o), 0>>, <<cache, found>>, <<cache, 0>>}

\* The resolver returns, having run without the mutex.
Resolve(t) ==
    /\ th[t].pc \in {"resolving", "refreshing"}
    /\ LET r == th[t].req
       IN  \E out \in ResolverOutcomes(r.origin, r.key, th[t].found) :
               /\ cache' = out[1]
               /\ th' = [th EXCEPT ![t] = [@ EXCEPT !.found = out[2],
                             !.pc = IF th[t].pc = "resolving" THEN "resolved" ELSE "refreshed"]]
    /\ UNCHANGED <<remotes, failed, charged, flight, envVars, rate, accepted, logVars>>

\* An unknown peer: upsert_remote() of what was resolved, or the failure is remembered.
Install(t) ==
    /\ At(t, "resolved")
    /\ LET r == th[t].req
           record == [key |-> r.key, gen |-> th[t].found, failures |-> 0]
       IN  \/ /\ th[t].found # 0
              /\ remotes' = [remotes EXCEPT ![r.origin] = record]
              /\ th' = [th EXCEPT ![t] = [@ EXCEPT !.pc = "known", !.remote = record]]
              /\ UNCHANGED failed
           \/ /\ th[t].found = 0
              /\ failed' = failed \cup {<<r.origin, r.key>>}
              /\ Reply(t) /\ UNCHANGED remotes
    /\ Release
    /\ UNCHANGED <<cache, charged, envVars, rate, accepted, logVars>>

\* persist_remote_signing_key().
PersistKey(o, k, g) ==
    remotes' = IF remotes[o] = NoRemote THEN remotes ELSE [remotes EXCEPT ![o].key = k, ![o].gen = g]

\* A known peer: the refreshed key replaces that of the copy and the shared one.
InstallKey(t) ==
    /\ At(t, "refreshed")
    /\ LET o == th[t].req.origin
           g == th[t].found
       IN  IF g = 0
           THEN Goto(t, "gate") /\ UNCHANGED remotes
           ELSE /\ th' = [th EXCEPT ![t] = [@ EXCEPT !.pc = "gate", !.remote.key = th[t].req.key,
                                                     !.remote.gen = g]]
                /\ PersistKey(o, th[t].req.key, g)
    /\ Release
    /\ UNCHANGED <<cache, failed, charged, envVars, rate, accepted, logVars>>

-----------------------------------------------------------------------------
(* Authentication.                                                         *)

\* remote_trust_policy(), for a peer that is not quarantined: three failures
\* in a row are answered 429 from then on.
Trusted(copy) == copy.failures < 3

\* verify_signed_federation_request() against the copy of the peer's key.
SignatureValid(t) ==
    LET r == th[t].req
    IN  /\ r.key = th[t].remote.key
        /\ th[t].remote.gen > th[t].now[r.origin]
        /\ r.genuine

\* federation_discovery_policy().
DiscoveryAllowed(o) == o \in Routable

\* protected_endpoint_room_id(): the endpoints that name a room.
RoomScoped ==
    {"make_join", "make_leave", "make_knock", "send_join", "send_leave", "send_knock", "invite", "backfill",
     "query_state", "query_state_ids", "get_missing_events", "space_hierarchy"}

\* check_room_acl_for_endpoint(): a path that names no room is not refused here.
RoomAclAllows(r) == r.kind \in RoomScoped /\ r.path => r.acl

\* The discovery and trust gates, the request signature unless main verified it,
\* the room ACL of the endpoint.
Authenticate(t) ==
    /\ At(t, "gate")
    /\ LET r == th[t].req
           admitted == DiscoveryAllowed(r.origin) /\ Trusted(th[t].remote)
           signed == r.verified \/ SignatureValid(t)
       IN  \/ ~admitted /\ Reply(t) /\ UNCHANGED remotes
           \/ admitted /\ ~signed /\ Penalise(t)
           \/ admitted /\ signed /\ ~RoomAclAllows(r) /\ Reply(t) /\ UNCHANGED remotes
           \/ admitted /\ signed /\ RoomAclAllows(r) /\ Goto(t, "serve") /\ UNCHANGED remotes
    /\ UNCHANGED <<keyVars, envVars, rate, accepted, logVars>>

-----------------------------------------------------------------------------
(* Metering.                                                               *)

\* prepare_weighted_bucket(): what the counter becomes, and whether it fits.
\* A weight of zero is allowed and reports zero requests seen.
Prepared(count, weight) == IF weight = 0 THEN 0 ELSE count + weight
Fits(c, count, weight) == weight = 0 \/ count + weight <= RateOf[c]

\* check_federation_origin_rate_limit(): all three counters, or none.
TransactionFits(o, r) ==
    /\ Fits("txns", rate[o]["txns"], 1)
    /\ Fits("pdus", rate[o]["pdus"], Len(r.pdus))
    /\ Fits("edus", rate[o]["edus"], r.edus)

ChargeTransaction(o, r) ==
    rate' = [rate EXCEPT ![o] = [@ EXCEPT !["txns"] = Prepared(@, 1),
                                          !["pdus"] = Prepared(@, Len(r.pdus)),
                                          !["edus"] = Prepared(@, r.edus)]]

\* check_federation_origin_request_rate().
RequestFits(o) == rate[o]["requests"] < RateOf["requests"]

-----------------------------------------------------------------------------
(* Events carried by a request.                                            *)

\* The keys a PDU may be checked with, and the cache rows their resolution
\* leaves: the copy of the transport peer's key when the sender is of that
\* server, otherwise what the resolver answers for the sender's domain.
KeysFor(t, p) ==
    LET copy == th[t].remote
    IN  IF p.sender = th[t].req.origin
        THEN {<<cache, [dom |-> p.sender, key |-> copy.key, gen |-> copy.gen]>>}
        ELSE {<<out[1], [dom |-> p.sender, key |-> p.key, gen |-> out[2]]>> :
                  out \in ResolverOutcomes(p.sender, p.key, CachedKey(p.sender, p.key))}

\* Mutant: a key from the resolver is used whatever its age.
AuthorisedByStaleKey(t, p, key) ==
    /\ key.gen # 0 /\ key.dom = p.sender
    /\ p.key = key.key /\ p.genuine

\* authorize_federation_pdu(): a key of the sender's domain, not expired, that
\* verifies the event's signature.  Generation 0 is "no key".
Authorised(t, p, key) ==
    /\ key.gen # 0 /\ key.dom = p.sender
    /\ key.gen > th[t].now[key.dom]
    /\ p.key = key.key /\ p.genuine

\* The event reaches the room: pdu_sink, membership_acceptor or invite_handler.
Sink(t, p, key) ==
    sunk' = sunk \cup {[pdu |-> p, key |-> key, now |-> th[t].now[key.dom]]}

-----------------------------------------------------------------------------
(* Endpoints other than /send.                                             *)

MakeEndpoints == {"make_join", "make_leave", "make_knock"}
SendEndpoints == {"send_join", "send_leave", "send_knock"}
ProfileEndpoints == {"query_directory", "query_profile"}
DeviceEndpoints == {"query_keys", "claim_keys", "query_user_devices"}
GraphEndpoints == {"query_event", "query_state", "query_state_ids", "get_missing_events"}
ContentEndpoints == {"space_hierarchy", "media_download"}
LookupEndpoints ==
    ProfileEndpoints \cup DeviceEndpoints \cup GraphEndpoints \cup ContentEndpoints \cup {"backfill", "edu"}
Endpoints == MakeEndpoints \cup SendEndpoints \cup LookupEndpoints \cup {"invite"}

\* The PDUs a body may carry: who they say they are from, and what their checks find.
Pdus == [id : Nat, sender : Origins, key : KeyIds, genuine : BOOLEAN, hash : BOOLEAN, acl : BOOLEAN]

\* The requests; those that carry one event have it in pdus.
ASSUME RequestsAssumption ==
    /\ Requests \subseteq
          [origin : Origins, key : KeyIds, src : Sources, verified : BOOLEAN, genuine : BOOLEAN, kind : STRING,
           path : BOOLEAN, body : BOOLEAN, bodyOrigin : Origins, speaks : BOOLEAN, acl : BOOLEAN, txn : Nat,
           pdus : Seq(Pdus), edus : Nat]
    /\ \A r \in Requests : r.kind \in SendEndpoints \cup {"invite"} => r.pdus # <<>>

\* The handlers: whether they answer 2xx when the path (and its parameters) and
\* the body are as they must be, and the provider found what was asked for or
\* accepted what was sent.

\* handle_make_membership(): make_leave is not matched against the room versions
\* that the peer speaks.
MakeServed(r, found) == r.path /\ found /\ (r.kind = "make_leave" \/ r.speaks)

\* handle_backfill(), its query parsed by parse_backfill_query().
BackfillServed(r, found) == r.path /\ found

\* handle_query_directory() and handle_query_profile().
ProfileServed(r, found) == r.path /\ found

\* handle_query_keys() and handle_claim_keys() have no path of their own;
\* handle_user_devices() has no body.
DeviceServed(r, found) == (IF r.kind = "query_user_devices" THEN r.path ELSE r.body) /\ found

\* handle_query_event(), handle_query_state(), handle_query_state_ids(),
\* handle_get_missing_events().
GraphServed(r, found) == r.path /\ (r.kind = "get_missing_events" => r.body) /\ found

\* handle_space_hierarchy() and handle_media_download().
ContentServed(r, found) == r.path /\ found

LookupServed(r, found) ==
    CASE r.kind = "backfill" -> BackfillServed(r, found)
      [] r.kind \in ProfileEndpoints -> ProfileServed(r, found)
      [] r.kind \in DeviceEndpoints -> DeviceServed(r, found)
      [] r.kind \in GraphEndpoints -> GraphServed(r, found)
      [] r.kind \in ContentEndpoints -> ContentServed(r, found)
      [] r.kind = "edu" -> TRUE

\* handle_send_membership() up to the acceptor: the event is that of the path
\* and passes the checks of a PDU.
MembershipChecked(t, r, key) == r.path /\ r.body /\ Authorised(t, r.pdus[1], key) /\ r.pdus[1].hash

\* handle_invite() up to the handler: the room version is known, too.
InviteChecked(t, r, key) == r.speaks /\ r.path /\ r.body /\ Authorised(t, r.pdus[1], key) /\ r.pdus[1].hash

EventChecked(t, r, key) ==
    IF r.kind = "invite" THEN InviteChecked(t, r, key) ELSE MembershipChecked(t, r, key)

\* dispatch_non_transaction_endpoint() under the request rate; a 2xx response
\* clears the failures of the copy and writes them back.
Endpoint(t) ==
    /\ At(t, "serve") /\ th[t].req.kind \in Endpoints
    /\ LET r == th[t].req
           o == r.origin
           success(ok) == IF ok THEN PersistTrust(o, 0) ELSE UNCHANGED remotes
       IN  \/ ~RequestFits(o) /\ UNCHANGED <<remotes, rate, cache, sunk>>
           \/ /\ RequestFits(o)
              /\ rate' = [rate EXCEPT ![o]["requests"] = @ + 1]
              /\ \E found \in BOOLEAN :
                    \/ /\ r.kind \in MakeEndpoints
                       /\ success(MakeServed(r, found)) /\ UNCHANGED <<cache, sunk>>
                    \/ /\ r.kind \in LookupEndpoints
                       /\ success(LookupServed(r, found)) /\ UNCHANGED <<cache, sunk>>
                    \/ /\ r.kind \in SendEndpoints \cup {"invite"}
                       /\ \E out \in KeysFor(t, r.pdus[1]) :
                             /\ cache' = out[1]
                             /\ success(EventChecked(t, r, out[2]) /\ found)
                             /\ IF EventChecked(t, r, out[2]) THEN Sink(t, r.pdus[1], out[2])
                                                              ELSE UNCHANGED sunk
    /\ Reply(t)
    /\ UNCHANGED <<failed, charged, flight, envVars, accepted, walked, acked>>

-----------------------------------------------------------------------------
(* PUT /send/{txnId}.                                                      *)

\* parse_transaction_body(): a JSON object with an origin and arrays.
BodyParses(r) == r.body

\* validate_federation_transaction().
WithinLimits(r) == Len(r.pdus) <= MaxPdus /\ r.edus <= MaxEdus

TransactionValid(r) == BodyParses(r) /\ r.bodyOrigin = r.origin /\ WithinLimits(r)

\* Mutant: a delivery that is still being walked counts.
AcceptedOrWalking(r) ==
    \/ \E i \in DOMAIN accepted : accepted[i] = TxnId(r)
    \/ \E t \in Threads : At(t, "walk") /\ TxnId(th[t].req) = TxnId(r)

\* transaction_already_accepted().
AlreadyAccepted(r) == \E i \in DOMAIN accepted : accepted[i] = TxnId(r)

OpenTransaction(t) ==
    /\ At(t, "serve") /\ th[t].req.kind = "txn"
    /\ LET r == th[t].req
           o == r.origin
       IN  \/ ~TransactionValid(r) /\ Penalise(t) /\ UNCHANGED <<rate, acked>>
           \/ /\ TransactionValid(r) /\ ~TransactionFits(o, r)
              /\ Reply(t) /\ UNCHANGED <<remotes, rate, acked>>
           \/ /\ TransactionValid(r) /\ TransactionFits(o, r) /\ AlreadyAccepted(r)
              /\ ChargeTransaction(o, r) /\ PersistTrust(o, 0)
              /\ acked' = acked \cup {TxnId(r)} /\ Reply(t)
           \/ /\ TransactionValid(r) /\ TransactionFits(o, r) /\ ~AlreadyAccepted(r)
              /\ ChargeTransaction(o, r)
              /\ th' = [th EXCEPT ![t] = [@ EXCEPT !.pc = "walk", !.todo = r.pdus]]
              /\ UNCHANGED <<remotes, acked>>
    /\ UNCHANGED <<keyVars, envVars, accepted, sunk, walked>>

\* One PDU: the room ACL, then its key, signature and content hash.  A PDU that
\* the ACL denies is skipped without a penalty.
WalkPdu(t) ==
    /\ At(t, "walk") /\ th[t].todo # <<>>
    /\ LET p == Head(th[t].todo)
           step(n) == th' = [th EXCEPT ![t] = [@ EXCEPT !.todo = Tail(th[t].todo), !.bad = th[t].bad + n]]
       IN  \/ ~p.acl /\ step(0) /\ UNCHANGED <<cache, sunk>>
           \/ /\ p.acl
              /\ \E out \in KeysFor(t, p) :
                    /\ cache' = out[1]
                    /\ IF Authorised(t, p, out[2]) /\ p.hash
                       THEN Sink(t, p, out[2]) /\ step(0)
                       ELSE step(1) /\ UNCHANGED sunk
    /\ UNCHANGED <<remotes, failed, charged, flight, envVars, rate, accepted, walked, acked>>

\* The replay-dedup ring.
Recorded(id) ==
    LET ring == IF Len(accepted) >= MaxAccepted THEN Tail(accepted) ELSE accepted
    IN  Append(ring, id)

\* The EDUs, the trust record and the dedup entry.
FinishTransaction(t) ==
    /\ At(t, "walk") /\ th[t].todo = <<>>
    /\ LET r == th[t].req
           bad == th[t].bad
       IN  /\ PersistTrust(r.origin, IF bad = 0 THEN 0 ELSE th[t].remote.failures + bad)
           /\ accepted' = Recorded(TxnId(r))
           /\ walked' = walked \cup {TxnId(r)}
    /\ Reply(t)
    /\ UNCHANGED <<keyVars, envVars, rate, sunk, acked>>

-----------------------------------------------------------------------------
(* Time and the peers.                                                     *)

Tick == ticks < MaxTicks /\ ticks' = ticks + 1

\* The generation an origin publishes expires; it may have published the next.
Lapse(o) ==
    /\ Tick
    /\ lapsed' = [lapsed EXCEPT ![o] = gen[o]]
    /\ \E g \in {gen[o], gen[o] + 1} : gen' = [gen EXCEPT ![o] = g]
    /\ UNCHANGED <<remotes, keyVars, received, rate, accepted, th, logVars>>

\* A window of the meters ends.
WindowEnds(o, c) ==
    /\ Tick /\ rate[o][c] # 0
    /\ rate' = [rate EXCEPT ![o][c] = 0]
    /\ UNCHANGED <<remotes, keyVars, gen, lapsed, received, accepted, th, logVars>>

\* A window of a source, or the lifetime of a remembered failure, ends.
BudgetEnds ==
    /\ Tick
    /\ \/ \E s \in Sources :
             charged[s] # 0 /\ charged' = [charged EXCEPT ![s] = 0] /\ UNCHANGED failed
       \/ \E f \in failed : failed' = failed \ {f} /\ UNCHANGED charged
    /\ UNCHANGED <<remotes, cache, flight, gen, lapsed, received, rate, accepted, th, logVars>>

Step(t) ==
    \/ Snapshot(t) \/ Refresh(t) \/ Resolve(t) \/ Install(t) \/ InstallKey(t)
    \/ Authenticate(t) \/ Endpoint(t) \/ OpenTransaction(t) \/ WalkPdu(t) \/ FinishTransaction(t)

Next ==
    \/ \E t \in Threads : Step(t) \/ \E r \in Requests : Receive(t, r)
    \/ \E o \in Origins : Lapse(o) \/ \E c \in Counters : WindowEnds(o, c)
    \/ BudgetEnds

Spec == Init /\ [][Next]_vars

-----------------------------------------------------------------------------
(* Properties.                                                             *)

\* Every event that reached a room was verified under a key that the server of
\* its sender really published and that had not expired when the request
\* arrived, whichever server relayed it, and whichever stale or unpublished key
\* a cache, a fallback or a concurrent request left in the shared records.
UnderSendersKey(s) ==
    /\ s.key.dom = s.pdu.sender /\ s.key.key \in Published[s.pdu.sender]
    /\ s.key.gen > s.now
    /\ s.pdu.genuine /\ s.pdu.hash

\* A peer with three failures, all of whose requests have seen them.
Barred(o) ==
    /\ remotes[o] # NoRemote /\ remotes[o].failures >= 3
    /\ \A t \in Threads : \/ At(t, "idle") \/ th[t].req.origin # o \/ At(t, "snapshot")
                          \/ th[t].remote # NoRemote /\ th[t].remote.failures >= 3

\* Once three failures are recorded for a peer, only a request that copied its
\* record before that can let it back in: remote_trust_policy() refuses every
\* later request before anything that writes consecutive_failures.
BackoffHolds == [][\A o \in Origins : Barred(o) => remotes'[o].failures >= 3]_vars

\* The two together: no event is admitted but under a valid key of the server it
\* names, and a peer that has failed three times stays out.
PeersAreHeldToTheirKeys == [](\A s \in sunk : UnderSendersKey(s)) /\ BackoffHolds

\* A repetition is acknowledged only after a delivery was walked to its end.
Ledger == INSTANCE TransactionLedger
              WITH Ids <- {TxnId(r) : r \in {q \in Requests : q.kind = "txn"}},
                   walked <- walked, acked <- acked

ImplementsLedger == Ledger!Spec

=============================================================================
