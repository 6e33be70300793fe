-------------------------------- MODULE Media --------------------------------
(***************************************************************************)
(* The media repository (media/repository.cpp, media/security.cpp) and the *)
(* service in front of it (homeserver/media_service.cpp): what is accepted *)
(* and held, the blobs that equal uploads share, the rows both are kept    *)
(* in, and what a restart makes of the rows.                               *)
(*                                                                         *)
(* A content stands for its digest and its size, so it is a storage id as  *)
(* well.  A media id is the sequence number and the content it was made    *)
(* from.                                                                   *)
(***************************************************************************)
EXTENDS Integers, Sequences, SequencesExt, FiniteSets, FiniteSetsExt

CONSTANTS
    Owners,         \* local users
    Contents,       \* contents that are uploaded or fetched
    Size,           \* the size of each
    Sniffed,        \* sniff_mime_type of each
    Requests,       \* for remote media: [media, thumbnail]; of the media its
                    \* [origin, id], the id's content what comes
    Config,         \* RuntimeMediaConfig
    Answers,        \* what the network may answer a fetch with
    Ruled,          \* bound: the media ids that policy rules are set on
    MaxSequence,    \* bound: media ids handed out
    MaxFaults,      \* bound: writes that fail
    MaxRestarts     \* bound: restarts

VARIABLES
    records,        \* repository.records
    blobs,          \* repository.blobs
    sequence,       \* repository.next_media_sequence
    rows,           \* PersistentStore::local_media and its table
    blobRows,       \* PersistentStore::media_blobs and its table
    blocked,        \* the media ids a policy rule blocks
    fetching,       \* remote fetches under way, lock released, for a download or a thumbnail
    answer,         \* what the last step answered one of them with
    faults,
    restarts

vars == <<records, blobs, sequence, rows, blobRows, blocked, fetching, answer, faults, restarts>>

NoAnswer == [status |-> 0, bytes |-> {}]

Init ==
    /\ records = <<>> /\ blobs = <<>> /\ sequence = 1
    /\ rows = <<>> /\ blobRows = {}
    /\ blocked = {} /\ fetching = {} /\ answer = NoAnswer
    /\ faults = 0 /\ restarts = 0

---------------------------------------------------------------------------
(* What the policies say of an upload (media/security.cpp).                *)

UploadPolicy(remote) ==
    [max |-> Config.max_upload, allowed |-> Config.allowed, quarantine_unknown |-> Config.quarantine_unknown,
     acceptance |-> IF remote THEN Config.remote_policy ELSE Config.local_policy]

\* evaluate_media_upload; sniffing is required and scanner failures are held.
EvaluateMediaUpload(policy, request) ==
    LET type == IF request.sniffed = "" THEN request.declared ELSE request.sniffed IN
    CASE policy.acceptance = "deny" \/ policy.max = 0 -> "reject"
      [] request.size = 0 \/ request.size > policy.max -> "reject"
      [] request.sniffed = "" \/ request.declared # request.sniffed -> "quarantine"
      [] type \notin policy.allowed -> IF policy.quarantine_unknown THEN "quarantine" ELSE "reject"
      [] ~request.clean /\ policy.acceptance # "allow" -> "quarantine"
      [] policy.acceptance = "quarantine" -> "quarantine"
      [] OTHER -> "accept"

SaturatingScale(value, ratio) == Min({value * ratio, Config.max_word})

DecoderPolicy ==
    [max_input |-> IF Config.max_decode_input = 0 THEN Config.max_upload ELSE Config.max_decode_input,
     max_output |-> IF Config.max_decode_output = 0
                    THEN SaturatingScale(Config.max_upload, Config.max_ratio) ELSE Config.max_decode_output,
     max_pixels |-> Config.max_pixels, max_frames |-> Config.max_frames, max_ratio |-> Config.max_ratio]

\* decoder_request: nothing is known of the image before it is decoded.
DecoderRequest(size) ==
    [input |-> size, output |-> size, pixels |-> Min({size, Config.max_pixels}), frames |-> 1, safe |-> TRUE]

EvaluateDecoderSafety(policy, request) ==
    /\ request.safe
    /\ request.input <= policy.max_input /\ request.output <= policy.max_output
    /\ request.pixels <= policy.max_pixels /\ request.frames <= policy.max_frames
    /\ request.input > 0 => request.output \div request.input <= policy.max_ratio

\* sandboxed_worker_plan_is_hardened(worker_plan(config))
WorkerPlanHardened ==
    /\ Config.sandbox
    /\ 0 < (IF Config.max_decode_output = 0 THEN SaturatingScale(Config.max_upload, 64) ELSE Config.max_decode_output)

\* remote_media_fetch_policy, for a destination discovery has let through.
RemoteMediaFetchPolicy(request) ==
    /\ request.valid /\ request.addresses # {}
    /\ Config.block_private => "private" \notin request.addresses

---------------------------------------------------------------------------
(* The repository.                                                         *)

FindRecord(id) ==
    LET i == SelectInSeq(records, LAMBDA r : r.id = id) IN IF i = 0 THEN {} ELSE {i}

\* find_live_blob and find_blob
FindLiveBlob(bs, content) ==
    LET i == SelectInSeq(bs, LAMBDA b : b.content = content /\ b.refs > 0) IN IF i = 0 THEN {} ELSE {i}

\* find_local_media_blob: the first of the storage id, referenced or not.
FindLocalMediaBlob(bs, content) ==
    LET i == SelectInSeq(bs, LAMBDA b : b.content = content) IN IF i = 0 THEN {} ELSE {i}

LiveBlobs == SelectSeq(blobs, LAMBDA b : b.refs > 0)

LiveBlobBytes == FoldLeft(LAMBDA n, b : n + Size[b.content], 0, LiveBlobs)

LiveBytesForOwner(owner) ==
    FoldLeft(LAMBDA n, r : n + Size[r.content], 0,
             SelectSeq(records, LAMBDA r : r.owner = owner /\ r.state # "removed"))

\* Mutant: bytes already stored are all that counts.
HasRoomForMore(owner, content, fresh) ==
    /\ Config.max_records # 0 => Len(records) < Config.max_records
    /\ fresh /\ Config.max_total # 0 => LiveBlobBytes <= Config.max_total
    /\ fresh /\ Config.max_per_user # 0 => LiveBytesForOwner(owner) <= Config.max_per_user

\* capacity_rejection_reason gives none.
HasCapacity(owner, content, fresh) ==
    /\ Config.max_records # 0 => Len(records) < Config.max_records
    /\ fresh /\ Config.max_total # 0 => LiveBlobBytes + Size[content] <= Config.max_total
    /\ fresh /\ Config.max_per_user # 0 => LiveBytesForOwner(owner) + Size[content] <= Config.max_per_user

\* What upload_local_media makes of a request: reject, quarantine or accept.
Disposition(owner, request, remote) ==
    LET clean == IF Config.scanner THEN request.clean ELSE TRUE
        upload == [size |-> Size[request.content], declared |-> request.declared,
                   sniffed |-> request.sniffed, clean |-> clean]
        decision == EvaluateMediaUpload(UploadPolicy(remote), upload)
    IN IF /\ WorkerPlanHardened
          /\ EvaluateDecoderSafety(DecoderPolicy, DecoderRequest(Size[request.content]))
          /\ HasCapacity(owner, request.content, FindLiveBlob(blobs, request.content) = {})
       THEN decision ELSE "reject"

MakeMediaId(content) == <<sequence, content>>

StateOf(disposition) == IF disposition = "quarantine" THEN "quarantined" ELSE "available"

\* The blob is shared with equal uploads, or stored.
Shared(content) ==
    LET live == FindLiveBlob(blobs, content) IN
    IF live = {} THEN Append(blobs, [content |-> content, refs |-> 1, bytes |-> TRUE])
    ELSE [blobs EXCEPT ![CHOOSE i \in live : TRUE].refs = @ + 1]

AddRecord(owner, request, disposition) ==
    /\ sequence <= MaxSequence
    /\ blobs' = Shared(request.content)
    /\ records' = Append(records, [id |-> MakeMediaId(request.content), owner |-> owner,
                                   content |-> request.content, state |-> StateOf(disposition)])
    /\ sequence' = sequence + 1

---------------------------------------------------------------------------
(* The rows.  A write that fails is not noticed.                           *)

\* The outcomes of a number of writes: TRUE where one happens.
Written(n) == {w \in [1 .. n -> BOOLEAN] : faults + Cardinality({i \in 1 .. n : ~w[i]}) <= MaxFaults}

Failures(w) == Cardinality({i \in DOMAIN w : ~w[i]})

\* store_local_media refuses an id it has.
StoreLocalMedia(rs, row) == IF \E i \in DOMAIN rs : rs[i].id = row.id THEN rs ELSE Append(rs, row)

\* update_local_media_state
UpdateLocalMediaState(rs, id, state) ==
    [i \in DOMAIN rs |-> IF rs[i].id = id THEN [rs[i] EXCEPT !.state = state] ELSE rs[i]]

\* persist_blob_for_media: the blob that find_local_media_blob gives for the
\* storage id replaces the row.
PersistBlob(bs, content) ==
    {b \in blobRows : b.content # content} \union {bs[i] : i \in FindLocalMediaBlob(bs, content)}

---------------------------------------------------------------------------
(* Uploads.                                                                *)

UploadLocalMedia(owner, request) ==
    LET disposition == Disposition(owner, request, FALSE) IN
    /\ disposition # "reject"
    /\ AddRecord(owner, request, disposition)
    /\ \E w \in Written(2) :
        /\ rows' = IF w[1] THEN StoreLocalMedia(rows, Last(records')) ELSE rows
        /\ blobRows' = IF w[2] THEN PersistBlob(blobs', request.content) ELSE blobRows
        /\ faults' = faults + Failures(w)
    /\ answer' = NoAnswer /\ UNCHANGED <<blocked, fetching, restarts>>

---------------------------------------------------------------------------
(* Downloads.  The policy is asked first, the lock is released while a     *)
(* remote server answers, and what comes is taken through an upload that   *)
(* writes no rows.                                                         *)

\* media_policy_decision
PolicyAllows(id) == id \notin blocked

\* media::download_local_media, which answers other servers as well
\* (media_download_provider): the status.
RepositoryStatus(id) ==
    LET found == {records[i] : i \in FindRecord(id)}
        alive == {r \in found : r.state # "removed"}
    IN CASE alive = {} -> 404
         [] \E r \in alive : r.state = "quarantined" -> 451
         [] \A r \in alive : FindLiveBlob(blobs, r.content) = {} -> 500
         [] OTHER -> 200

\* download_local_media of the service, which answers clients.
DownloadStatus(id) == IF PolicyAllows(id) THEN RepositoryStatus(id) ELSE 403

StartFetch(request) ==
    /\ PolicyAllows(request.media.id) /\ request \notin fetching
    /\ fetching' = fetching \union {request}
    /\ answer' = NoAnswer
    /\ UNCHANGED <<records, blobs, sequence, rows, blobRows, blocked, faults, restarts>>

\* fetch_remote_media_via_federation_endpoint.  An answer says whether there is
\* a signing key, the status (0: none), whether it is a two-part envelope,
\* whether that redirects, whether the target resolves and answers.
FederatedOutcome(n) ==
    CASE ~n.key \/ n.status \in {0, 404} -> "fall back"
      [] n.status # 200 -> "rejected"
      [] ~n.multipart -> "fall back"
      [] ~n.redirect -> "fetched"
      [] ~n.resolves -> "fall back"
      [] OTHER -> IF n.redirected THEN "fetched" ELSE "rejected"

\* fetch_remote_media_live: the federation endpoint, then the client one.
FetchRemoteMediaLive(n) ==
    CASE ~n.wired \/ ~n.discovered -> "rejected"
      [] FederatedOutcome(n) = "fall back" -> IF n.legacy THEN "fetched" ELSE "rejected"
      [] OTHER -> FederatedOutcome(n)

\* fetch_remote_media: how the upload that what came goes through disposes of it.
FetchRemoteMedia(media, declared, addresses) ==
    LET content == media.id[2]
        request == [content |-> content, declared |-> declared, sniffed |-> Sniffed[content], clean |-> FALSE]
    IN IF /\ Config.remote_enabled /\ Size[content] > 0
          /\ RemoteMediaFetchPolicy([valid |-> TRUE, addresses |-> addresses])
       THEN Disposition(media.origin, request, TRUE) ELSE "reject"

\* The bytes are the answer's, held or not.  502 stands for every refusal.
FetchAnswer(disposition, content) ==
    CASE disposition = "reject" -> [status |-> 502, bytes |-> {}]
      [] disposition = "quarantine" -> [status |-> 202, bytes |-> {content}]
      [] OTHER -> [status |-> 200, bytes |-> {content}]

\* generate_thumbnail_for_media; `made' is whether the worker made one.
ThumbnailAnswer(content, made) ==
    IF Config.thumbnailing /\ made THEN [status |-> 200, bytes |-> {content}] ELSE [status |-> 404, bytes |-> {}]

\* finalize_remote_media_fetch, and the thumbnail that
\* download_local_media_thumbnail makes of whatever succeeded.
FinishFetch(request, n) ==
    LET content == request.media.id[2]
        disposition == IF FetchRemoteMediaLive(n) = "fetched"
                       THEN FetchRemoteMedia(request.media, n.declared, n.addresses) ELSE "reject"
    IN /\ request \in fetching
       /\ fetching' = fetching \ {request}
       /\ IF disposition = "reject" THEN UNCHANGED <<records, blobs, sequence>>
          ELSE AddRecord(request.media.origin, [content |-> content], disposition)
       /\ answer' = IF request.thumbnail /\ disposition # "reject" THEN ThumbnailAnswer(content, n.made)
                    ELSE FetchAnswer(disposition, content)
       /\ UNCHANGED <<rows, blobRows, blocked, faults, restarts>>

\* download_local_media_thumbnail, of local media: the status of the answer.
ThumbnailStatus(id, made) ==
    LET available == {r \in {records[i] : i \in FindRecord(id)} : r.state = "available"} IN
    CASE ~PolicyAllows(id) -> 403
      [] \A r \in available : FindLocalMediaBlob(blobs, r.content) = {} -> 404
      [] OTHER -> ThumbnailAnswer(id[2], made).status

---------------------------------------------------------------------------
(* Administration.                                                         *)

SetState(id, from, to) ==
    \E i \in FindRecord(id) :
        /\ records[i].state \in from
        /\ records' = [records EXCEPT ![i].state = to]
        /\ \E w \in Written(1) :
            /\ rows' = IF w[1] THEN UpdateLocalMediaState(rows, id, to) ELSE rows
            /\ faults' = faults + Failures(w)

QuarantineLocalMedia(id) ==
    /\ SetState(id, {"available", "quarantined"}, "quarantined")
    /\ answer' = NoAnswer /\ UNCHANGED <<blobs, sequence, blobRows, blocked, fetching, restarts>>

ReleaseLocalMedia(id) ==
    /\ SetState(id, {"available", "quarantined"}, "available")
    /\ answer' = NoAnswer /\ UNCHANGED <<blobs, sequence, blobRows, blocked, fetching, restarts>>

\* A reference fewer on the first blob of the storage id; the last clears it.
Released(content) ==
    [i \in DOMAIN blobs |->
        IF i \in FindLocalMediaBlob(blobs, content) /\ blobs[i].refs > 0
        THEN [blobs[i] EXCEPT !.refs = @ - 1, !.bytes = blobs[i].refs > 1] ELSE blobs[i]]

RemoveLocalMedia(id) ==
    \E i \in FindRecord(id) :
        /\ records[i].state # "removed"
        /\ records' = [records EXCEPT ![i].state = "removed"]
        /\ blobs' = Released(records[i].content)
        /\ \E w \in Written(2) :
            /\ rows' = IF w[1] THEN UpdateLocalMediaState(rows, id, "removed") ELSE rows
            /\ blobRows' = IF w[2] THEN PersistBlob(blobs', records[i].content) ELSE blobRows
            /\ faults' = faults + Failures(w)
        /\ answer' = NoAnswer /\ UNCHANGED <<sequence, blocked, fetching, restarts>>

\* A policy rule on a media id is set or lifted (store_policy_rule).
SetRule(id) ==
    /\ blocked' = IF id \in blocked THEN blocked \ {id} ELSE blocked \union {id}
    /\ answer' = NoAnswer
    /\ UNCHANGED <<records, blobs, sequence, rows, blobRows, fetching, faults, restarts>>

---------------------------------------------------------------------------
\* The records and blobs are those of the rows; a row's two flags, removed
\* and quarantined, are the three states of a record.
hydrate_media_repository ==
    /\ records' = rows
    /\ blobs' = SetToSeq(blobRows)

\* Then restore_local_media_repository counts the records.
Restart ==
    /\ restarts < MaxRestarts
    /\ restarts' = restarts + 1
    /\ hydrate_media_repository
    /\ sequence' = Len(rows) + 1
    /\ fetching' = {} /\ answer' = NoAnswer
    /\ UNCHANGED <<rows, blobRows, blocked, faults>>

Ids == {records[i].id : i \in DOMAIN records}

Next ==
    \/ \E owner \in Owners, content \in Contents, clean \in BOOLEAN, declared \in {"image/png", "text/plain"} :
        UploadLocalMedia(owner, [content |-> content, declared |-> declared, sniffed |-> Sniffed[content],
                                 clean |-> clean])
    \/ \E request \in Requests : StartFetch(request)
    \/ \E request \in Requests, n \in Answers : FinishFetch(request, n)
    \/ \E id \in Ids : QuarantineLocalMedia(id) \/ ReleaseLocalMedia(id) \/ RemoveLocalMedia(id)
    \/ \E id \in Ruled : SetRule(id)
    \/ Restart

Spec == Init /\ [][Next]_vars

---------------------------------------------------------------------------
TypeOK ==
    /\ \A i \in DOMAIN records : records[i].state \in {"available", "quarantined", "removed"}
    /\ \A i \in DOMAIN blobs : blobs[i].refs >= 0
    /\ blobRows \subseteq [content : Contents, refs : Nat, bytes : BOOLEAN]

(* The configured limit holds over uploads, fetches, removals and, as long *)
(* as no write fails, restarts, which bring back what the rows say: a      *)
(* blob that is referenced has its bytes, and capacity_rejection_reason    *)
(* counts what would be stored.                                            *)
WithinLimits ==
    /\ faults = 0 /\ Config.max_total # 0 => LiveBlobBytes <= Config.max_total
    /\ \A i \in DOMAIN blobs : blobs[i].refs > 0 => blobs[i].bytes

(* As long as no write fails, the repository never again serves media that *)
(* was removed, and media it holds only once an administrator has released *)
(* it: not after a restart, not by a later upload or fetch of the same     *)
(* bytes, not as a thumbnail, and not to another server, which the policy  *)
(* rules do not stop.                                                      *)
HeldStaysHeld ==
    [][faults' = 0 => \A id \in Ids : \A i \in FindRecord(id) :
        records[i].state # "available" /\ ~ReleaseLocalMedia(id) =>
            RepositoryStatus(id)' # 200 /\ DownloadStatus(id)' # 200 /\ ThumbnailStatus(id, TRUE)' # 200]_vars

(* The one answer with bytes that are held is that of the fetch that       *)
(* brought them: fetch_remote_media hands them out, and a thumbnail is     *)
(* made of them.  Whatever a fetch hands out it has recorded, with the     *)
(* bytes, under an id of this server's that an administrator can hold or   *)
(* remove; and the answer to a download says 202 where it is held.         *)
FetchesAreRecorded ==
    [][\A request \in fetching \ fetching' : answer'.bytes # {} =>
        /\ Len(records') = Len(records) + 1
        /\ answer'.bytes = {Last(records').content}
        /\ FindLiveBlob(blobs', Last(records').content) # {}
        /\ ~request.thumbnail => (answer'.status = 202 <=> Last(records').state = "quarantined")]_vars

=============================================================================
