---------------------------- MODULE OneTimeKeys ----------------------------
(***************************************************************************)
(* One-time and fallback keys: uploaded with POST /keys/upload, handed out *)
(* by POST /keys/claim to local clients and by POST /user/keys/claim to    *)
(* other servers.  A claim deletes the row before the key leaves memory.   *)
(* A claim request names several devices in turn and may fail half-way.    *)
(***************************************************************************)
EXTENDS Integers, FiniteSets, FiniteSetsExt, Sequences

CONSTANTS
    Devices, Keys,  \* device ids and one-time key ids, all of one algorithm
    Signed,         \* the keys signed with the identity key of their device
    MaxUploads,     \* bound: times one key is uploaded
    MaxFaults       \* bound: writes that fail

VARIABLES
    identity,  \* the devices with a row in store.device_keys
    keys,      \* store.one_time_keys, by device; memory and table agree
    fallback,  \* the devices with a row in store.fallback_keys
    uploads,   \* how often each key was stored
    handed,    \* how often each key was taken out to be given away
    faults

vars == <<identity, keys, fallback, uploads, handed, faults>>

Init ==
    /\ identity = {} /\ keys = [d \in Devices |-> {}] /\ fallback = {}
    /\ uploads = [d \in Devices |-> [k \in Keys |-> 0]] /\ handed = uploads
    /\ faults = 0

\* A write goes through, or the backend refuses it.
Writes(ok) ==
    \/ ok /\ faults' = faults
    \/ ~ok /\ faults < MaxFaults /\ faults' = faults + 1

\* The device_keys of an upload that pass validate_device_keys_object().
UploadDeviceKeys(d) ==
    /\ identity' = identity \cup {d}
    /\ UNCHANGED <<keys, fallback, uploads, handed, faults>>

\* validate_key_object_members(): every key of a signed algorithm verifies
\* under the identity key of the body or, without one, of the store.
Verified(d, new) == d \in identity /\ new \subseteq Signed

\* The one_time_keys of an upload, all checked before the first is stored:
\* store_key_object_members() stores them in turn and stops at the first that
\* fails, and the client that is answered 500 uploads them again.
UploadOneTimeKeys(d, new) ==
    /\ Verified(d, new)
    /\ \E stored \in SUBSET new :
        /\ Writes(stored = new)
        /\ \A k \in stored : uploads[d][k] < MaxUploads
        /\ keys' = [keys EXCEPT ![d] = @ \cup stored]
        /\ uploads' = [uploads EXCEPT ![d] = [k \in Keys |-> @[k] + IF k \in stored THEN 1 ELSE 0]]
        /\ UNCHANGED <<identity, fallback, handed>>

\* The fallback_keys of an upload.
UploadFallbackKey(d) ==
    /\ d \in identity
    /\ fallback' = fallback \cup {d}
    /\ UNCHANGED <<identity, keys, uploads, handed, faults>>

\* Mutant: hands the key out although its row could not be deleted.
ClaimBeforeDelete(d, k, ok) ==
    /\ k \in keys[d]
    /\ Writes(ok)
    /\ keys' = [keys EXCEPT ![d] = IF ok THEN @ \ {k} ELSE @]
    /\ handed' = [handed EXCEPT ![d][k] = @ + 1]

\* claim_one_time_key(): a failed deletion yields no key.
ClaimOneTimeKey(d, k, ok) ==
    /\ k \in keys[d]
    /\ Writes(ok)
    /\ keys' = [keys EXCEPT ![d] = IF ok THEN @ \ {k} ELSE @]
    /\ handed' = [handed EXCEPT ![d][k] = @ + IF ok THEN 1 ELSE 0]

\* One entry of a claim, from a client or from another server: a one-time key,
\* else find_fallback_key(), which leaves everything as it is.  A later entry
\* that is malformed answers 400 and the keys taken so far are gone with it.
ClaimEntry(d) ==
    /\ \E k \in Keys, ok \in BOOLEAN : ClaimOneTimeKey(d, k, ok)
    /\ UNCHANGED <<identity, fallback, uploads>>

\* Deleting a device removes none of this: its keys can still be claimed.
Next == \E d \in Devices :
    \/ UploadDeviceKeys(d)
    \/ \E new \in SUBSET Keys \ {{}} : UploadOneTimeKeys(d, new)
    \/ UploadFallbackKey(d)
    \/ ClaimEntry(d)

Spec == Init /\ [][Next]_vars

\* what one_time_key_counts() and build_otk_counts() report.
Count(d) == Cardinality(keys[d])

-----------------------------------------------------------------------------

\* A key is handed out at most once for each time it was stored, and the count
\* reported to its device is of keys nobody has yet: a claim that cannot
\* delete its row gives nothing away.
HandedOutOnce ==
    \A d \in Devices :
        /\ \A k \in Keys : handed[d][k] <= uploads[d][k]
        /\ Count(d) <= MapThenSumSet(LAMBDA k : uploads[d][k] - handed[d][k], Keys)

=============================================================================
