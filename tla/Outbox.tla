------------------------------- MODULE Outbox -------------------------------
(***************************************************************************)
(* What the federation dispatch worker promises the code that hands it a   *)
(* transaction: an accepted transaction is owned by the outbox until it is *)
(* settled, once; copies may reach the remote server only while the outbox *)
(* owns it; and it is called delivered only if a copy has reached it.      *)
(***************************************************************************)
CONSTANT Txns

VARIABLES
    status,      \* none, refused, owned, delivered or dropped
    arrived      \* the transactions of which a copy reached the remote server

vars == <<status, arrived>>

Init ==
    /\ status = [x \in Txns |-> "none"]
    /\ arrived = {}

Become(x, s) == status' = [status EXCEPT ![x] = s]

Accept(x) == status[x] = "none" /\ Become(x, "owned") /\ UNCHANGED arrived

Refuse(x) == status[x] = "none" /\ Become(x, "refused") /\ UNCHANGED arrived

Arrive(x) == status[x] = "owned" /\ arrived' = arrived \cup {x} /\ UNCHANGED status

Deliver(x) == status[x] = "owned" /\ x \in arrived /\ Become(x, "delivered") /\ UNCHANGED arrived

Drop(x) == status[x] = "owned" /\ Become(x, "dropped") /\ UNCHANGED arrived

Next == \E x \in Txns : Accept(x) \/ Refuse(x) \/ Arrive(x) \/ Deliver(x) \/ Drop(x)

Spec == Init /\ [][Next]_vars

(* Every transaction the outbox owns is settled some day. *)
Settles == \A x \in Txns : status[x] = "owned" ~> status[x] \in {"delivered", "dropped"}
=============================================================================
