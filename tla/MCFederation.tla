---------------------------- MODULE MCFederation ----------------------------
(***************************************************************************)
(* Federation for TLC: the requests of other servers, the joins of rooms   *)
(* that live on another server, and this server's own signing keys.  The   *)
(* parts share no state: a behaviour is one of them, and the others stay   *)
(* as they began.                                                          *)
(***************************************************************************)
EXTENDS InboundFederation, TLC

CONSTANTS a, b, k1, k2, s1, Nothing

VARIABLES
    part,
    resident, made, wire, known, stored, state, row, invites, rooms, fills, pc, answer, task, winner, remaining,
    lost, crossed,
    now, until, held, worker, doc, fresh, everOld, up, rotating, readable, restarts,
    faults

joins == <<resident, made, wire, known, stored, state, row, invites, rooms, fills, pc, answer, task, winner,
           remaining, lost, crossed>>
ownKeys == <<now, until, held, worker, doc, fresh, everOld, up, rotating, readable, restarts>>
all == <<part, vars, joins, ownKeys, faults>>

-----------------------------------------------------------------------------
(* The peer a publishes two keys and relays an event of b, who publishes   *)
(* one.                                                                    *)

Sym == Permutations(Threads)

KeysOf == [o \in Origins |-> IF o = a THEN {k1, k2} ELSE {k1}]

Limits == [c \in Counters |-> CASE c = "pdus" -> 4 [] c = "requests" -> 1 [] OTHER -> 2]

Pdu(id, sender, genuine, hash, acl) ==
    [id |-> id, sender |-> sender, key |-> k1, genuine |-> genuine, hash |-> hash, acl |-> acl]

\* A well-formed request of a under k1.
Plain == [origin |-> a, key |-> k1, src |-> s1, verified |-> FALSE, genuine |-> TRUE, kind |-> "query_event",
          path |-> TRUE, body |-> TRUE, bodyOrigin |-> a, speaks |-> TRUE, acl |-> TRUE,
          txn |-> 0, pdus |-> <<>>, edus |-> 0]

Own == Pdu(1, a, TRUE, TRUE, TRUE)
Relayed == Pdu(2, b, TRUE, TRUE, TRUE)
Forged == Pdu(3, b, FALSE, TRUE, TRUE)
Denied == Pdu(4, b, TRUE, TRUE, FALSE)
Tampered == Pdu(5, a, TRUE, FALSE, TRUE)

Txn(n, pdus) == [Plain EXCEPT !.kind = "txn", !.txn = n, !.pdus = pdus, !.edus = 1]

(* Three requests, of those that bear on the keys, the trust and the       *)
(* ledger of a; or two of any.                                             *)
Arrivals ==
    {Plain, [Plain EXCEPT !.key = k2],
     Txn(1, <<Relayed>>), Txn(2, <<Denied, Forged, Tampered, Tampered>>)}

Others ==
    {[Plain EXCEPT !.kind = "make_join", !.acl = FALSE],
     [Plain EXCEPT !.kind = "make_join", !.genuine = FALSE],
     [Plain EXCEPT !.kind = "send_join", !.pdus = <<Own>>, !.verified = TRUE],
     [Txn(3, <<>>) EXCEPT !.bodyOrigin = b]}

Mixed == INSTANCE InboundFederation WITH Requests <- Arrivals \union Others, MaxRequests <- 2

-----------------------------------------------------------------------------
(* One user's two requests about a room of one other server, whose member  *)
(* x is of a server whose key cannot be had.                               *)
Template(sender, key, dated) ==
    [room_here : {TRUE}, sender : sender, state_key : key, type : {"m.room.member"}, dated : dated,
     membership : {"join", "leave"}]

J == INSTANCE RemoteJoin WITH
        Users <- {"u"}, Others <- {"x"}, Levels <- "levels", None <- Nothing, Unresolvable <- {"x"},
        Requests <- {1, 2}, Actor <- <<"u", "u">>, Via <- <<>>, Domain <- "s", Us <- "us", MaxCandidates <- 3,
        Templates <- Template({"u", "v"}, {"u"}, BOOLEAN) \union Template({"v"}, {"v"}, {TRUE}),
        Parallelism <- 1, RaceDeadline <- FALSE, MaxEvents <- 5, MaxLost <- 1, MaxFaults <- 1

(* Three keys beside the one of the configuration file, in ten steps of    *)
(* time.                                                                   *)
O == INSTANCE SigningKeys WITH
        HasLegacy <- TRUE, Validity <- 4, CacheFor <- 2, MaxTime <- 10, MaxKeys <- 3, MaxFaults <- 1,
        MaxRestarts <- 1

-----------------------------------------------------------------------------
FederationInit ==
    /\ part \in {"inbound", "mixed", "joins", "keys"}
    /\ Init /\ J!Init /\ O!Init

FederationNext ==
    /\ UNCHANGED part
    /\ \/ part = "inbound" /\ Next /\ UNCHANGED <<joins, ownKeys, faults>>
       \/ part = "mixed" /\ Mixed!Next /\ UNCHANGED <<joins, ownKeys, faults>>
       \/ part = "joins" /\ J!Next /\ UNCHANGED <<vars, ownKeys>>
       \/ part = "keys" /\ O!Next /\ UNCHANGED <<vars, joins>>

FederationSpec == FederationInit /\ [][FederationNext]_all

-----------------------------------------------------------------------------
(* Unless an answer was lost, a write failed, the user's requests crossed  *)
(* each other or a PDU about the user, or the user joined a room that was  *)
(* held here, the resident server and this one agree on its users; and no  *)
(* event is kept that no key has verified.                                 *)
ServersAgree == part = "joins" => J!TypeOK /\ J!ServersAgree /\ J!NothingUnverified

(* The key document that is served is valid, a peer that fetched it can    *)
(* verify what is signed, and a key that was retired is not used again.    *)
OwnKeysVerify ==
    /\ [](part = "keys" => O!TypeOK /\ O!ServedIsValid /\ O!PeersCanVerify)
    /\ O!RetiredStaysRetired

(* "the room is fully usable now (create/power_levels/join_rules/ etc.     *)
(* and our own membership are already verified and persisted above)": once *)
(* a join is done the power levels are the room's.                         *)
LevelsAreCurrent == part = "joins" => J!LevelsAreCurrent
=============================================================================
