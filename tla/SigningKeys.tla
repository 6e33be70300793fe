---------------------------- MODULE SigningKeys ----------------------------
(***************************************************************************)
(* The signing identity of the server: which of the stored Ed25519 keys it *)
(* signs with, how long the published window of a key is and how it is     *)
(* rolled forward, rotation, and the key document other servers fetch      *)
(* from GET /_matrix/key/v2/server.  Four places hold the identity: the    *)
(* rows, the crypto provider built from them, the copy the dispatch worker *)
(* took, and the cached document, which is served without the lock.        *)
(*                                                                         *)
(* Keys are numbered in the order they are made; key 0 is the legacy       *)
(* "ed25519:auto" row with its far-future window.  Time advances in ticks. *)
(***************************************************************************)
EXTENDS Integers, FiniteSets

CONSTANTS
    HasLegacy,      \* the store starts with an "ed25519:auto" row
    Validity,       \* signing_key_validity_ms, in ticks
    CacheFor,       \* key_server_cache_refresh_interval_ms
    MaxTime, MaxKeys, MaxFaults, MaxRestarts    \* bounds

VARIABLES
    now,
    until,      \* valid_until_ts of each stored key, 0 where there is no row
    held,       \* keys the crypto provider was built from
    worker,     \* the key the dispatch worker signs with, 0 before it exists
    doc,        \* the cached document: verify_keys, old_verify_keys, valid_until_ts
    fresh,      \* servable until this time
    everOld,    \* keys some document has listed as old
    up,         \* start_runtime() has succeeded
    rotating,   \* the new key of a rotation that holds the mutex, or 0
    readable,   \* the master key file can be read
    faults, restarts

vars == <<now, until, held, worker, doc, fresh, everOld, up, rotating, readable, faults, restarts>>

Keys == 1 .. MaxKeys
Far == MaxTime + 2 * Validity
NoDoc == [verify |-> {}, old |-> {}, until |-> 0]

Init ==
    /\ now = 1
    /\ until = [k \in 0 .. MaxKeys |-> IF k = 0 /\ HasLegacy THEN Far ELSE 0]
    /\ held = {} /\ worker = 0 /\ doc = NoDoc /\ fresh = 0 /\ everOld = {}
    /\ up = FALSE /\ rotating = 0 /\ readable = TRUE /\ faults = 0 /\ restarts = 0

-----------------------------------------------------------------------------
(* Choosing a key.                                                         *)

Usable(u) == {k \in Keys : u[k] > 0}

\* The newest window, lapsed or not; the first of several.
Preferred(u) ==
    CHOOSE k \in Usable(u) : \A j \in Usable(u) : u[j] < u[k] \/ (u[j] = u[k] /\ k <= j)

\* collect_active_server_signing_keys().
Active(u) == {k \in Usable(u) : k = Preferred(u) \/ u[k] > now}

\* Past the halfway point of the advertised window.
RefreshDue(t) == t <= now + Validity \div 2

\* encrypt_signing_secret() needs the master key.
CanMint(u) == readable /\ Cardinality(Usable(u)) < MaxKeys
NewKey(u) == Cardinality(Usable(u)) + 1

\* store_server_signing_key(): an upsert that keeps the secret.
Stored(u, k, t) == [u EXCEPT ![k] = t]

\* No usable key at all: one is made, unless it cannot be encrypted or written.
Minted(u, ok) == IF CanMint(u) /\ ok THEN Stored(u, 1, now + Validity) ELSE u

\* The preferred key is kept whatever its window, which is rolled forward; a
\* window that cannot be written stays as it was.
Refreshed(u, ok) ==
    LET k == Preferred(u)
    IN  IF readable /\ ok /\ RefreshDue(u[k]) THEN Stored(u, k, now + Validity) ELSE u

\* ensure_runtime_server_signing_key().
Ensured(u, ok) == IF Usable(u) = {} THEN Minted(u, ok) ELSE Refreshed(u, ok)

\* decrypt_stored_signing_secret() of the preferred key.
Available(u) == readable /\ Usable(u) # {}

\* reset_runtime_crypto_provider(): from every active secret.
Rebuilt(u) == IF readable THEN Active(u) ELSE {}

\* ensure_crypto_provider_holds_key().
Holding(u) == IF Preferred(u) \in held THEN held ELSE Rebuilt(u)

\* publish_server_signing_keys(): the document, and its place in the cache.
Document(u) ==
    [verify |-> Active(u),
     old |-> {k \in DOMAIN u : u[k] > 0} \ Active(u),
     until |-> u[Preferred(u)]]

Served(u) ==
    doc' = Document(u) /\ fresh' = now + CacheFor /\ everOld' = everOld \union Document(u).old

Faulty(ok) == /\ ~ok => faults < MaxFaults
              /\ faults' = IF ok THEN faults ELSE faults + 1

-----------------------------------------------------------------------------
(* start_runtime(): ensure, build the provider, publish.                   *)

Start(ok) ==
    LET u == Ensured(until, ok)
    IN  /\ ~up /\ Faulty(ok)
        /\ until' = u
        /\ IF Available(u)
           THEN up' = TRUE /\ held' = Rebuilt(u) /\ Served(u)
           ELSE up' = FALSE /\ held' = {} /\ UNCHANGED <<doc, fresh, everOld>>
        /\ UNCHANGED <<now, worker, rotating, readable, restarts>>

\* Any request that needs the signing identity, under the mutex.
Ensure(ok) ==
    LET u == Ensured(until, ok)
    IN  /\ up /\ rotating = 0 /\ Faulty(ok)
        /\ until' = u
        /\ held' = IF Available(u) THEN Holding(u) ELSE held
        /\ UNCHANGED <<now, worker, doc, fresh, everOld, up, rotating, readable, restarts>>

\* wire_federation_callbacks(): the dispatch worker takes its own copy.
WireWorker(ok) ==
    LET u == Ensured(until, ok)
    IN  /\ up /\ rotating = 0 /\ worker = 0 /\ Available(u) /\ Faulty(ok)
        /\ until' = u /\ held' = Holding(u)
        /\ worker' = Preferred(u)
        /\ UNCHANGED <<now, doc, fresh, everOld, up, rotating, readable, restarts>>

\* GET /_matrix/key/v2/server once the cached document is too old.
Publish(ok) ==
    LET u == Ensured(until, ok)
    IN  /\ up /\ rotating = 0 /\ now >= fresh /\ Available(u) /\ Faulty(ok)
        /\ until' = u /\ held' = Holding(u) /\ Served(u)
        /\ UNCHANGED <<now, worker, up, rotating, readable, restarts>>

-----------------------------------------------------------------------------
(* rotate_server_signing_key(), in the two parts the dispatch worker and   *)
(* the lock-free document see apart.                                       *)

\* Mutant: the dispatch worker keeps the key it was made with.
WorkerKeepsIts(k) == worker

\* update_signing_identity(), if there is a worker.
WorkerTakes(k) == IF worker = 0 THEN 0 ELSE k

\* Retires the current key, then stores the new one.  Writes: 1 the retired key,
\* 2 the new one, which may fail with the first in place, as making or
\* encrypting the new key may.  The clock has moved since a key was last retired.
Rotate(fails) ==
    LET u == Ensured(until, TRUE)
        retired == Stored(u, Preferred(u), now)
        k == NewKey(u)
        rotated == Stored(retired, k, now + Validity)
    IN  /\ up /\ rotating = 0 /\ Available(u) /\ CanMint(u) /\ Faulty(fails = 3)
        /\ \A j \in Usable(until) : until[j] # now
        /\ IF fails = 3
           THEN /\ until' = rotated /\ held' = Active(rotated)
                /\ worker' = WorkerTakes(k) /\ rotating' = k
           ELSE /\ until' = IF fails = 1 THEN u ELSE retired
                /\ held' = Holding(u)
                /\ UNCHANGED <<worker, rotating>>
        /\ UNCHANGED <<now, doc, fresh, everOld, up, readable, restarts>>

\* The rotation ends with the new document, unless the keys cannot be read.
FinishRotation ==
    LET u == Ensured(until, TRUE)
    IN  /\ rotating # 0 /\ rotating' = 0
        /\ IF Available(u)
           THEN until' = u /\ held' = Holding(u) /\ Served(u)
           ELSE UNCHANGED <<until, held, doc, fresh, everOld>>
        /\ UNCHANGED <<now, worker, up, readable, faults, restarts>>

-----------------------------------------------------------------------------
Tick == now < MaxTime /\ now' = now + 1
        /\ UNCHANGED <<until, held, worker, doc, fresh, everOld, up, rotating, readable, faults, restarts>>

\* The master key file becomes unreadable, or readable again.
MasterKey ==
    /\ readable' = ~readable
    /\ readable => faults < MaxFaults
    /\ faults' = IF readable THEN faults + 1 ELSE faults
    /\ UNCHANGED <<now, until, held, worker, doc, fresh, everOld, up, rotating, restarts>>

\* The process ends, in the middle of a rotation if need be: the rows stay.
Restart ==
    /\ up /\ restarts < MaxRestarts /\ restarts' = restarts + 1
    /\ up' = FALSE /\ held' = {} /\ worker' = 0 /\ doc' = NoDoc /\ fresh' = 0 /\ rotating' = 0
    /\ UNCHANGED <<now, until, everOld, readable, faults>>

Next ==
    \/ \E ok \in BOOLEAN : Start(ok) \/ Ensure(ok) \/ WireWorker(ok) \/ Publish(ok)
    \/ \E fails \in 1 .. 3 : Rotate(fails)
    \/ FinishRotation \/ Tick \/ MasterKey \/ Restart

Spec == Init /\ [][Next]_vars

-----------------------------------------------------------------------------
\* Every variable stays within its type.
TypeOK ==
    /\ now \in 1 .. MaxTime /\ until \in [0 .. MaxKeys -> 0 .. Far + Validity]
    /\ held \subseteq Keys /\ worker \in 0 .. MaxKeys /\ rotating \in 0 .. MaxKeys
    /\ doc.verify \subseteq Keys /\ everOld \subseteq 0 .. MaxKeys /\ doc.until \in Nat
    /\ up \in BOOLEAN /\ readable \in BOOLEAN

\* A document served from the cache has not outlived the window it advertises,
\* so that a peer that fetches it can use the keys: the window is rolled
\* forward at its half, the cache is asked to expire before the other half.
ServedIsValid == up /\ now < fresh /\ faults = 0 => doc.until > now

\* What the dispatch worker signs with, peers can find in the document, and the
\* provider can sign with the key that every other signer is given.
PeersCanVerify ==
    up /\ rotating = 0 /\ faults = 0 =>
        /\ worker # 0 => worker \in doc.verify
        /\ Preferred(until) \in held

\* A key published as an old one, with the time it expired, is never again
\* published as one that may sign: not after a failed rotation, not after a
\* restart, not when every window has lapsed.
RetiredStaysRetired == [][everOld \intersect doc'.verify = {}]_vars
=============================================================================
