------------------------------- MODULE MCUsers -------------------------------
(***************************************************************************)
(* What the server keeps for its users, for TLC: their credentials, and    *)
(* the keys, messages and backups of their devices.  The parts share no    *)
(* state: a behaviour is one of them, in one of the instances below, and   *)
(* the others stay as they began.                                          *)
(***************************************************************************)
EXTENDS Sessions, Sequences, TLC

CONSTANTS u1, d1, d2, p1, p2

VARIABLES
    part,
    members, known, deviceKeys, cross, signatures, changes, changeId, token, held, told, hushed,
    identity, keys, fallback, uploads, handed,
    queue, queueRows, txns, messageId, mark, since, got, restarts, leftOut, rewound,
    versions, backup, backedUp, seen, reused, created,
    failures

credentials == <<users, stored, devices, cached, access, refresh, logins, sessions, past, issued, loggedOut,
                 closed, exchanged, faults>>
deviceLists == <<members, known, deviceKeys, cross, signatures, changes, changeId, token, held, told, hushed>>
oneTimeKeys == <<identity, keys, fallback, uploads, handed>>
toDevice == <<queue, queueRows, txns, messageId, mark, since, got, restarts, leftOut, rewound>>
backups == <<versions, backup, backedUp, seen, reused, created>>
all == <<part, credentials, deviceLists, oneTimeKeys, toDevice, backups, failures>>

-----------------------------------------------------------------------------
(* One account, two devices and two passwords: with three tokens of a kind *)
(* (the constants of the configuration), and with two, of which one        *)
(* expires.                                                                *)
Lapsed == INSTANCE Sessions WITH MaxGrants <- 2, MaxExpired <- 1

Symmetry == Permutations({d1, d2}) \cup Permutations({p1, p2})

(* Two local users in and out of one room, or a local and a remote one. *)
L == INSTANCE DeviceLists WITH
        Local <- {"a", "b"}, Remote <- {}, Devices <- {"a1", "b1"}, Owner <- [a1 |-> "a", b1 |-> "b"],
        Rooms <- {"r"}, Clients <- {"b1"}, None <- "none", MaxUploads <- 1, MaxIds <- 3, MaxFaults <- 1,
        devices <- known, nextId <- changeId, faults <- failures

R == INSTANCE DeviceLists WITH
        Local <- {"b"}, Remote <- {"x"}, Devices <- {"b1"}, Owner <- [b1 |-> "b"],
        Rooms <- {"r"}, Clients <- {"b1"}, None <- "none", MaxUploads <- 1, MaxIds <- 3, MaxFaults <- 1,
        devices <- known, nextId <- changeId, faults <- failures

(* One device that uploads two signed keys, each of them twice, and an     *)
(* unsigned one.                                                           *)
K == INSTANCE OneTimeKeys WITH
        Devices <- {"a1"}, Keys <- {"k1", "k2", "k3"}, Signed <- {"k1", "k2"}, MaxUploads <- 2, MaxFaults <- 2,
        faults <- failures

(* A device on /sync and one on sliding sync, whose page holds one message.*)
Q == INSTANCE ToDevice WITH
        Devices <- {"a1", "a2"}, Owner <- [a1 |-> "a", a2 |-> "a"], Sliding <- {"a2"}, Senders <- {"b"},
        Txns <- {1}, Limit <- 1, MaxIds <- 3, MaxRestarts <- 1, MaxFaults <- 1,
        rows <- queueRows, nextId <- messageId, faults <- failures

(* Two devices, three backups, and numbers up to two. *)
B == INSTANCE KeyBackup WITH
        Devices <- {"a1", "a2"}, Sessions <- {"s1"}, Top <- 2, MaxBackups <- 3, MaxFaults <- 1,
        stored <- backedUp, known <- seen, faults <- failures

-----------------------------------------------------------------------------
UsersInit ==
    /\ part \in {"renewed", "lapsed", "lists", "remote lists", "keys", "messages", "backups"}
    /\ Init /\ (part \notin {"renewed", "lapsed"} => issued = 0)
    /\ IF part = "remote lists" THEN R!Init ELSE L!Init
    /\ (part \notin {"lists", "remote lists"} => members = [r \in {"r"} |-> {}])
    /\ K!Init
    /\ Q!Init /\ (part # "messages" => ~rewound)
    /\ B!Init

UsersNext ==
    /\ UNCHANGED part
    /\ \/ /\ (part = "renewed" /\ Next) \/ (part = "lapsed" /\ Lapsed!Next)
          /\ UNCHANGED <<deviceLists, oneTimeKeys, toDevice, backups, failures>>
       \/ /\ (part = "lists" /\ L!Next) \/ (part = "remote lists" /\ R!Next)
          /\ UNCHANGED <<credentials, oneTimeKeys, toDevice, backups>>
       \/ /\ part = "keys" /\ K!Next
          /\ UNCHANGED <<credentials, deviceLists, toDevice, backups>>
       \/ /\ part = "messages" /\ Q!Next
          /\ UNCHANGED <<credentials, deviceLists, oneTimeKeys, backups>>
       \/ /\ part = "backups" /\ B!Next
          /\ UNCHANGED <<credentials, deviceLists, oneTimeKeys, toDevice>>

UsersSpec == UsersInit /\ [][UsersNext]_all

-----------------------------------------------------------------------------
(* A device that holds outdated keys of someone it shares a room with will *)
(* be told, and nobody is reported as gone who is not.                     *)
KeysAreCurrent ==
    /\ part = "lists" => L!TypeOK /\ L!NoStaleKeys /\ L!LeftMeansApart
    /\ part = "remote lists" => R!TypeOK /\ R!NoStaleKeys /\ R!LeftMeansApart

(* A one-time key is handed out at most as often as it was uploaded.       *)
HandedOutOnce == part = "keys" => K!HandedOutOnce

(* A to-device message is removed only once its device has it, or a full   *)
(* sliding-sync page passed over it, and not given to the device again:    *)
(* until a restart resumes the counter below a token.                      *)
MessagesArriveOnce == [](part = "messages" => Q!TypeOK /\ Q!NeverDeliveredTwice) /\ Q!RemovedOnlyIfReceived

(* A version of the key backup goes on standing for the backup it was      *)
(* created for, and so do the sessions under a number no second backup got.*)
VersionsKeepTheirBackup == B!VersionsKeepTheirBackup
=============================================================================
