----------------------------- MODULE KeyBackup -----------------------------
(***************************************************************************)
(* The server-side key backup of one user: numbered versions, of which the *)
(* last in the list is current, and the sessions stored under them by the  *)
(* user's devices.  A backup is what POST /room_keys/version created, or   *)
(* PUT under a name of the client's; the number is all that identifies it  *)
(* afterwards.                                                             *)
(***************************************************************************)
EXTENDS Integers, FiniteSets, FiniteSetsExt, SequencesExt

CONSTANTS
    Devices, Sessions,  \* the user's devices, and the room sessions they back up
    Top,                \* the largest std::uint64_t
    MaxBackups,         \* bound: backups created
    MaxFaults           \* bound: writes that fail

VARIABLES
    versions,  \* store.key_backup_versions of the user: the version numbers in order
    backup,    \* the backup each version number stands for, the how-manieth created
    stored,    \* store.key_backup_sessions: version, session and the backup its writer had in mind
    known,     \* each device: the version and backup it last read
    reused,    \* history: the numbers that have stood for two backups
    created, faults

vars == <<versions, backup, stored, known, reused, created, faults>>

\* The names of versions.  One that is not a number counts for nothing in the
\* numbering, and is left out.
Names == 0 .. Top

Init ==
    /\ versions = <<>> /\ backup = [n \in Names |-> 0] /\ stored = {}
    /\ known = [d \in Devices |-> [version |-> 0, backup |-> 0]]
    /\ reused = {} /\ created = 0 /\ faults = 0

Fails == faults < MaxFaults /\ faults' = faults + 1 /\ UNCHANGED <<versions, backup, stored, reused, created>>

\* key_backup_version_for_user() without a version.
Current == IF versions = <<>> THEN 0 ELSE Last(versions)

\* Mutant: numbered by how many there are.
NextVersionByCount == (Len(versions) + 1) % (Top + 1)

\* key_backup_next_version().
NextVersion == (Max({0} \cup ToSet(versions)) + 1) % (Top + 1)

\* store_key_backup_version(): an upsert, at the end of the list when new.
Upsert(n) == versions' = IF n \in ToSet(versions) THEN versions ELSE Append(versions, n)

Begin(n) ==
    /\ created < MaxBackups /\ created' = created + 1
    /\ backup' = [backup EXCEPT ![n] = created']
    /\ reused' = IF backup[n] = 0 THEN reused ELSE reused \cup {n}

\* create_key_backup_version.
CreateVersion(d) ==
    \/ /\ Upsert(NextVersion)
       /\ Begin(NextVersion)
       /\ known' = [known EXCEPT ![d] = [version |-> NextVersion, backup |-> created']]
       /\ UNCHANGED <<stored, faults>>
    \/ Fails /\ UNCHANGED known

\* update_key_backup_version takes any name: it brings a deleted version back,
\* and makes a version of one that never was.
UpdateVersion(n) ==
    \/ /\ Upsert(n)
       /\ IF backup[n] = 0 THEN Begin(n) ELSE UNCHANGED <<backup, reused, created>>
       /\ UNCHANGED <<stored, known, faults>>
    \/ Fails /\ UNCHANGED known

\* delete_key_backup_version(): the sessions stay.
DeleteVersion(n) ==
    /\ n \in ToSet(versions)
    /\ \/ /\ versions' = SelectSeq(versions, LAMBDA m : m # n)
          /\ UNCHANGED <<backup, stored, known, reused, created, faults>>
       \/ Fails /\ UNCHANGED known

\* get_key_backup_version, and get_key_backup_version_by_id for the others.
ReadVersion(d, n) ==
    /\ n \in ToSet(versions)
    /\ known' = [known EXCEPT ![d] = [version |-> n, backup |-> backup[n]]]
    /\ UNCHANGED <<versions, backup, stored, reused, created, faults>>

\* The checks of handle_key_api_route() before a write of sessions: 404
\* without the version, 403 M_WRONG_ROOM_KEYS_VERSION unless it is current.
Writable(n) == n \in ToSet(versions) /\ n = Current

\* put_room_key_backup, ..._room and ..._batch: sessions are upserted in turn
\* and may fail one by one.
PutSessions(d, new) ==
    /\ known[d].backup # 0 /\ Writable(known[d].version)
    /\ \E done \in SUBSET new :
          /\ \/ done = new /\ faults' = faults
             \/ done # new /\ faults < MaxFaults /\ faults' = faults + 1
          /\ stored' = {s \in stored : ~(s.version = known[d].version /\ s.session \in done)}
                       \cup {[version |-> known[d].version, session |-> e,
                              backup |-> known[d].backup] : e \in done}
    /\ UNCHANGED <<versions, backup, known, reused, created>>

\* delete_room_key_backup, ..._room and ..._batch.
DeleteSessions(d, gone) ==
    /\ known[d].backup # 0 /\ Writable(known[d].version)
    /\ \/ /\ stored' = {s \in stored : ~(s.version = known[d].version /\ s.session \in gone)}
          /\ UNCHANGED <<versions, backup, reused, created, faults>>
       \/ Fails
    /\ UNCHANGED known

Next ==
    \/ \E d \in Devices :
          \/ CreateVersion(d)
          \/ \E n \in Names : ReadVersion(d, n)
          \/ \E some \in SUBSET Sessions \ {{}} : PutSessions(d, some) \/ DeleteSessions(d, some)
    \/ \E n \in Names : UpdateVersion(n) \/ DeleteVersion(n)

Spec == Init /\ [][Next]_vars

-----------------------------------------------------------------------------

\* A version that exists goes on standing for the backup it was created for,
\* and is in the list once: key_backup_next_version() gives its number to no
\* other, whichever versions were deleted or written again, until a client
\* has named a version 2^64 - 1.  The sessions stored under a number are
\* those of the backup it stands for, unless the number has stood for two:
\* the highest is given out again once it is deleted, and the sessions of a
\* deleted version stay.
VersionsKeepTheirBackup ==
    /\ [](Cardinality(ToSet(versions)) = Len(versions))
    /\ [][Top \notin ToSet(versions) => \A n \in ToSet(versions) : backup'[n] = backup[n]]_vars
    /\ [](\A s \in stored : s.version \notin reused => s.backup = backup[s.version])

=============================================================================
