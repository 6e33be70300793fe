------------------------------ MODULE MCStream ------------------------------
(***************************************************************************)
(* The event stream and its readers, for TLC: many writers and a crash;    *)
(* three whose membership writes fail; two whose watermark writes fail,    *)
(* and the same with fewer events and with fairness; and the delivery of   *)
(* the stored events to an application service, two requests at a time.  A *)
(* behaviour is one of these parts', and what it is not about stays as it  *)
(* began.                                                                  *)
(***************************************************************************)
EXTENDS EventStream, TLC

CONSTANTS c1, i1, i2, l1, l2, l3, l4, m, t, j0, j1, j2, r1, r2, s1, s2, kTopic, kMember

VARIABLES part, cursor, lock, top, pos, step, copy, sent, acked, overwritten, crashes

\* The PDUs and the requests: a remote server's join arrives both through
\* send_join (l1) and in a transaction (i1), and l2 replaces it; l4 stores what
\* both of them may replace.
Deliveries ==
    [w \in Writers |-> CASE w = i1 -> j1 [] w = i2 -> m [] w = l1 -> j1 [] w = l2 -> j2 [] w = l3 -> t
                         [] w = l4 -> j0]

\* Everything in one room, or the message in a room of its own.
OneRoom == [e \in Events |-> r1]
TwoRooms == [e \in Events |-> IF e = m THEN r2 ELSE r1]

OwnStripe == [r \in Rooms |-> IF r = r1 THEN s1 ELSE s2]

RowOf == [e \in Events |-> IF e \in {j0, j1, j2} THEN kMember ELSE IF e = t THEN kTopic ELSE NoKey]

Half == INSTANCE EventStream WITH RoomOf <- OneRoom, Faults <- {"membership"}, MaxSurfaces <- 0
Two == INSTANCE EventStream WITH
        RoomOf <- OneRoom, Faults <- {"watermark"}, MaxSurfaces <- 0
Live == INSTANCE EventStream WITH
        RoomOf <- OneRoom, Faults <- {"watermark"}, MaxSurfaces <- 0, MaxOrderings <- 2

A == INSTANCE AppserviceDelivery WITH
        Locals <- {l1, l2}, Remotes <- {i1, i2}, pc <- step,
        StoreMayFail <- TRUE, MaxConcurrent <- 2, MaxCrashes <- 1

delivery == <<cursor, lock, top, pos, step, copy, sent, acked, overwritten, crashes>>

StreamInit ==
    /\ A!Init
    /\ Init /\ part \in {"many", "half", "two", "live", "delivery"}

StreamNext ==
    /\ UNCHANGED part
    /\ \/ part = "many" /\ Next /\ UNCHANGED <<delivery, pc[l4]>>
       \/ part = "half" /\ Half!Next /\ UNCHANGED <<delivery, pc[i2], pc[l1], pc[l3]>>
       \/ part = "two" /\ Two!Next /\ UNCHANGED <<delivery, pc[i2], pc[l1], pc[l3], pc[l4]>>
       \/ part = "live" /\ Live!Next /\ UNCHANGED <<delivery, pc[i2], pc[l1], pc[l3], pc[l4]>>
       \/ part = "delivery" /\ A!Next /\ UNCHANGED vars

(* A pool thread that has reserved its positions runs on, and a sync       *)
(* thread whose condition holds is woken.                                  *)
StreamSpec ==
    /\ StreamInit /\ [][StreamNext]_<<vars, part, delivery>>
    /\ WF_vars(part = "live" /\ Live!IngestStep(i1))
    /\ WF_vars(part = "live" /\ Live!Wake(c1))

(* A client that waits is woken for news, and an ingest ends. *)
StreamMovesOn == part = "live" => Live!WakesForNews /\ Live!IngestFinishes

(* A transaction id is never used for two events, and no event is sent to  *)
(* an application service before the one it follows is acknowledged, until *)
(* one of two overlapping deliveries has stored the cursor it copied before *)
(* its network call over what the other has stored since.                  *)
DeliveredInOrder == [](A!TypeOK /\ A!TxnIdsNeverReused) /\ A!NothingOvertakes
=============================================================================
