---------------------------- MODULE DeviceLists ----------------------------
(***************************************************************************)
(* Device keys, cross-signing keys and the log of device-list changes.     *)
(* Whatever alters the keys a user publishes appends one row per observer  *)
(* to device_list_changes, each at a stream id of its own; a client learns *)
(* of them from /sync, drops what it holds on the users named and asks     *)
(* /keys/query again.  Remote servers are told with m.device_list_update.  *)
(*                                                                         *)
(* Keys are abstracted to the number of times they were uploaded.  Every   *)
(* handler is one critical section of runtime.mutex.                       *)
(***************************************************************************)
EXTENDS Integers, FiniteSets, FiniteSetsExt, SequencesExt

CONSTANTS
    Local, Remote,   \* users of this server, and of a server of their own each
    Devices, Owner,  \* device ids and the local user of each
    Clients,         \* the devices whose /sync and /keys/query calls are followed
    Rooms,
    None,
    MaxUploads,      \* bound: changes of published keys
    MaxIds,          \* bound: stream ids allocated
    MaxFaults        \* bound: rows that fail to be inserted

VARIABLES
    members,     \* rooms[..].members
    devices,     \* store.devices
    deviceKeys,  \* store.device_keys: uploads of each device, 0 when it has none
    cross,       \* store.cross_signing_keys
    signatures,  \* store.key_signatures, by signer and target user
    changes,     \* store.device_list_changes
    nextId,      \* next_sync_stream_id
    token, held, \* each client: its since token, the keys it holds of each user
    told,        \* the devices each remote server was told of
    hushed,      \* history: <<observer, subject>> whose last change has no row
    faults

keyVars == <<devices, deviceKeys, cross, signatures>>
logVars == <<changes, nextId, hushed, faults>>
clientVars == <<token, held>>
vars == <<members, keyVars, logVars, clientVars, told>>

Everyone == Local \cup Remote

\* Ids are counted from a time at which every device had signed in, no keys
\* were uploaded yet and a room was empty or held every local user.
Init ==
    /\ members \in [Rooms -> {{}, Local}]
    /\ devices = Devices /\ deviceKeys = [d \in Devices |-> 0]
    /\ cross = [u \in Everyone |-> 0] /\ signatures = [p \in Local \X Local |-> 0]
    /\ changes = {} /\ nextId = 0
    /\ token = [d \in Clients |-> 0] /\ held = [d \in Clients |-> [u \in Everyone |-> None]]
    /\ told = [x \in Remote |-> {}] /\ hushed = {} /\ faults = 0

\* The number of changes of published keys so far.
Uploads ==
    MapThenSumSet(LAMBDA d : deviceKeys[d], Devices)
        + MapThenSumSet(LAMBDA u : cross[u], Everyone) + MapThenSumSet(LAMBDA q : signatures[q], Local \X Local)

DevicesOf(u) == {d \in devices : Owner[d] = u}

\* users_share_joined_room().
ShareBesides(u, v, excluded) == \E r \in Rooms \ excluded : {u, v} \subseteq members[r]

Shares(u, v) == u = v \/ ShareBesides(u, v, {})

\* What /keys/query returns of a user: the stored keys of the device ids the
\* user ever uploaded for, the cross-signing keys, and the signatures merged
\* into them, whoever made them (merge_uploaded_signatures()).
Served(u) ==
    <<[d \in {e \in Devices : Owner[e] = u} |-> deviceKeys[d]], cross[u],
      [s \in IF u \in Local THEN Local ELSE {} |-> signatures[<<s, u>>]]>>

Row(o, s, kind) == [observer |-> o, subject |-> s, kind |-> kind]

\* database::record_device_list_change() for the rows up to `tried' in turn;
\* the ones not in `written' have taken an id and failed.
Insert(rows, tried, written) ==
    /\ nextId + tried <= MaxIds
    /\ faults' = faults + (tried - Cardinality(written))
    /\ faults' <= MaxFaults
    /\ nextId' = nextId + tried
    /\ changes' = changes \cup
            {[id |-> nextId + i, observer |-> rows[i].observer, subject |-> rows[i].subject,
              kind |-> rows[i].kind] : i \in written}

Pairs(rows, indices) == {<<rows[i].observer, rows[i].subject>> : i \in indices}

\* The handlers that discard the result of each insert.  `silent' are pairs
\* for which the change has no row at all.
Record(rows, silent) ==
    \E lost \in {{}} \cup {{i} : i \in DOMAIN rows} :
        /\ Insert(rows, Len(rows), DOMAIN rows \ lost)
        /\ hushed' = ((hushed \cup Pairs(rows, lost)) \ Pairs(rows, DOMAIN rows \ lost)) \cup silent

\* The membership transitions stop at the first insert that fails.
RecordOrStop(rows, fails) ==
    /\ fails \in 1 .. Len(rows) + 1
    /\ Insert(rows, IF fails > Len(rows) THEN Len(rows) ELSE fails, 1 .. fails - 1)

\* The rows for everyone in a room with u: a member of two rooms gets two.
RoomRows(u) ==
    LET seats == SetToSeq({p \in Rooms \X Everyone :
                             u \in members[p[1]] /\ p[2] \in members[p[1]] \ {u}})
    IN  [i \in DOMAIN seats |-> Row(seats[i][2], u, "changed")]

SelfRow(u) == <<Row(u, u, "changed")>>

\* remote_servers_for_user(): the remote servers in a room with u.
ServersFor(u, mem) == {x \in Remote : \E r \in Rooms : {u, x} \subseteq mem[r]}

\* broadcast_device_list_updates(): one EDU per device the user has now.
Broadcast(u, servers) ==
    told' = [x \in Remote |-> told[x] \cup IF x \in servers THEN DevicesOf(u) ELSE {}]

\* POST /login with a device id that is new: the user's own devices hear of it.
Login(d) ==
    /\ d \notin devices
    /\ devices' = devices \cup {d}
    /\ Record(SelfRow(Owner[d]), {})
    /\ token' = [c \in Clients |-> IF c = d THEN 0 ELSE token[c]]
    /\ held' = [c \in Clients |-> [u \in Everyone |-> IF c = d THEN None ELSE held[c][u]]]
    /\ UNCHANGED <<members, deviceKeys, cross, signatures, told>>

\* Mutant: an upload is announced to the room members alone.
UploadKeysQuietly(d) ==
    /\ d \in devices /\ Uploads < MaxUploads
    /\ deviceKeys' = [deviceKeys EXCEPT ![d] = @ + 1]
    /\ Record(RoomRows(Owner[d]), {})
    /\ Broadcast(Owner[d], ServersFor(Owner[d], members))
    /\ UNCHANGED <<members, devices, cross, signatures, clientVars>>

\* handle_key_upload() with device_keys that pass their checks.
UploadKeys(d) ==
    /\ d \in devices /\ Uploads < MaxUploads
    /\ deviceKeys' = [deviceKeys EXCEPT ![d] = @ + 1]
    /\ Record(RoomRows(Owner[d]) \o SelfRow(Owner[d]), {})
    /\ Broadcast(Owner[d], ServersFor(Owner[d], members))
    /\ UNCHANGED <<members, devices, cross, signatures, clientVars>>

\* POST /keys/device_signing/upload, after the password check.
UploadCrossSigning(u) ==
    /\ DevicesOf(u) # {} /\ Uploads < MaxUploads
    /\ cross' = [cross EXCEPT ![u] = @ + 1]
    /\ Record(SelfRow(u) \o RoomRows(u), {})
    /\ Broadcast(u, ServersFor(u, members))
    /\ UNCHANGED <<members, devices, deviceKeys, signatures, clientVars>>

\* POST /keys/signatures/upload: the rows name the signer, whoever was signed;
\* nobody hears that the keys of another user are served with a new signature.
UploadSignatures(u, target) ==
    /\ DevicesOf(u) # {} /\ Uploads < MaxUploads
    /\ signatures' = [signatures EXCEPT ![<<u, target>>] = @ + 1]
    /\ Record(SelfRow(u) \o RoomRows(u), IF target = u THEN {} ELSE Local \X {target})
    /\ Broadcast(u, ServersFor(u, members))
    /\ UNCHANGED <<members, devices, deviceKeys, cross, clientVars>>

\* PUT /devices/{deviceId}: a new display name.
RenameDevice(d) ==
    /\ d \in devices
    /\ Record(RoomRows(Owner[d]), {})
    /\ UNCHANGED <<members, keyVars, clientVars, told>>

\* DELETE /devices/{deviceId}: the device row goes, its keys stay.
DeleteDevice(d) ==
    /\ d \in devices
    /\ devices' = devices \ {d}
    /\ Record(RoomRows(Owner[d]), {})
    /\ UNCHANGED <<members, deviceKeys, cross, signatures, clientVars, told>>

\* record_local_device_list_change(): nobody else's server keeps rows here.
LocalRows(pairs, kind) ==
    LET rows == SetToSeq({p \in pairs : p[1] # p[2] /\ p[1] \in Local})
    IN  [i \in DOMAIN rows |-> Row(rows[i][1], rows[i][2], kind)]

BothWays(u, others) == ({u} \X others) \cup (others \X {u})

\* A join: record_room_share_started_device_changes(), and the broadcast of
\* the POST .../join handler.  The member list has the user by then, so a
\* row that fails leaves the user in it with an error for an answer.
Join(u, r, fails) ==
    LET rows == LocalRows(BothWays(u, members[r]), "changed")
        done == fails > Len(rows)
    IN  /\ u \notin members[r]
        /\ members' = [members EXCEPT ![r] = @ \cup {u}]
        /\ RecordOrStop(rows, fails)
        /\ hushed' = (hushed \cup Pairs(rows, DOMAIN rows)) \ Pairs(rows, 1 .. fails - 1)
        /\ IF done THEN Broadcast(u, ServersFor(u, members')) ELSE UNCHANGED told
        /\ UNCHANGED <<keyVars, clientVars>>

\* The members the departing user shares no other room with.
Parted(u, r) == {v \in members[r] \ {u} : ~ShareBesides(u, v, {r})}

\* A leave, kick or ban: record_room_share_ended_device_changes(), before the
\* member list changes.  A row that fails leaves the list as it was, with the
\* rows before it telling of a departure that did not come about.
Leave(u, r, fails) ==
    LET rows == LocalRows(BothWays(u, Parted(u, r)), "left")
        done == fails > Len(rows)
    IN  /\ u \in members[r]
        /\ members' = IF done THEN [members EXCEPT ![r] = @ \ {u}] ELSE members
        /\ RecordOrStop(rows, fails)
        /\ hushed' = IF done THEN hushed \ Pairs(rows, DOMAIN rows)
                     ELSE hushed \cup Pairs(rows, DOMAIN rows)
        /\ UNCHANGED <<keyVars, clientVars, told>>

\* The ingested join of a remote user: apply_runtime_membership() alone.
RemoteJoin(x, r) ==
    /\ x \notin members[r]
    /\ members' = [members EXCEPT ![r] = @ \cup {x}]
    /\ UNCHANGED <<keyVars, logVars, clientVars, told>>

\* An m.device_list_update EDU: a row for every local user.
DeviceListEdu(x) ==
    /\ Uploads < MaxUploads
    /\ cross' = [cross EXCEPT ![x] = @ + 1]
    /\ LET all == SetToSeq(Local) IN Record([i \in DOMAIN all |-> Row(all[i], x, "changed")], {})
    /\ UNCHANGED <<members, devices, deviceKeys, signatures, clientVars, told>>

\* handle_key_query(): the keys of local users from the store, of remote users
\* from their server, which may fail and is then listed under failures.
QueryKeys(d, u) ==
    /\ d \in devices
    /\ held' = [held EXCEPT ![d][u] = Served(u)]
    /\ UNCHANGED <<members, keyVars, logVars, token, told>>

\* A remote server's query: it is given every stored key of the user.
QueryFromRemote(x, u) ==
    /\ told' = [told EXCEPT ![x] = @ \cup {d \in Devices : Owner[d] = u /\ deviceKeys[d] # 0}]
    /\ UNCHANGED <<members, keyVars, logVars, clientVars>>

InRange(o, from, to) == {c \in changes : c.observer = o /\ from < c.id /\ c.id <= to}

\* collect_device_list_delta(): the latest row of each subject.
Delta(o, from, to) ==
    {c \in InRange(o, from, to) : \A e \in InRange(o, from, to) : e.subject = c.subject => e.id <= c.id}

\* GET /sync (build_device_list_arrays) and, between two tokens, GET
\* /keys/changes: changed and left users alike lose what was held of them.
Sync(d) ==
    /\ d \in devices
    /\ LET named == {c.subject : c \in Delta(Owner[d], token[d], nextId)}
       IN  held' = [held EXCEPT ![d] = [u \in Everyone |-> IF u \in named THEN None ELSE @[u]]]
    /\ token' = [token EXCEPT ![d] = nextId]
    /\ UNCHANGED <<members, keyVars, logVars, told>>

Next ==
    \/ \E d \in Devices :
          \/ Login(d) \/ UploadKeys(d) \/ RenameDevice(d) \/ DeleteDevice(d)
    \/ \E d \in Clients : Sync(d) \/ \E u \in Everyone : QueryKeys(d, u)
    \/ \E u \in Local :
          \/ UploadCrossSigning(u)
          \/ \E target \in Local : UploadSignatures(u, target)
          \/ \E r \in Rooms, fails \in 1 .. MaxIds + 1 : Join(u, r, fails) \/ Leave(u, r, fails)
          \/ \E x \in Remote : QueryFromRemote(x, u)
    \/ \E x \in Remote : DeviceListEdu(x) \/ \E r \in Rooms : RemoteJoin(x, r)

Spec == Init /\ [][Next]_vars

-----------------------------------------------------------------------------

TypeOK ==
    /\ members \in [Rooms -> SUBSET Everyone] /\ devices \subseteq Devices
    /\ deviceKeys \in [Devices -> 0..MaxUploads] /\ nextId \in 0..MaxIds
    /\ \A d \in Clients : token[d] \in 0..nextId
    /\ \A c \in changes : c.id \in 1..nextId /\ c.kind \in {"changed", "left"}

\* Keys a device holds of someone its user shares a room with, or of its own
\* user, are the ones the server would serve now, or the device's next /sync
\* names that user: handle_key_upload() and the other writers announce to
\* every observer, and collect_device_list_delta() keeps the latest row.
\* Left out are the pairs whose last change has no row: its insert failed, or
\* it is a signature one user put on the keys of another.
NoStaleKeys ==
    \A d \in devices \cap Clients, u \in Everyone :
        (held[d][u] # None /\ Shares(Owner[d], u) /\ held[d][u] # Served(u))
            => \/ \E c \in Delta(Owner[d], token[d], nextId) : c.subject = u
               \/ <<Owner[d], u>> \in hushed

\* A local user is reported as left only to someone who shares no room with
\* them: record_room_share_ended_device_changes() spares those with another
\* room in common, and a later join is the latest row again.  Left out are
\* the pairs whose row of the join, or of an abandoned departure, is missing
\* or stands alone.
LeftMeansApart ==
    \A o \in Local : \A c \in Delta(o, 0, nextId) :
        (c.subject \in Local /\ c.kind = "left" /\ <<o, c.subject>> \notin hushed) => ~Shares(o, c.subject)

=============================================================================
