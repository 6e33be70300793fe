------------------------- MODULE TransactionLedger -------------------------
(***************************************************************************)
(* What the receiving side of PUT /send/{txnId} promises its peers: a      *)
(* transaction is acknowledged as a repetition only when some delivery of  *)
(* it has walked all of its PDUs and EDUs.  Deliveries may repeat, also    *)
(* concurrently, and nothing is promised about a second walk.              *)
(***************************************************************************)
CONSTANT Ids

VARIABLES walked, acked

vars == <<walked, acked>>

Init == walked = {} /\ acked = {}

\* A delivery reaches the end of its PDUs and EDUs.
Walk(id) == walked' = walked \cup {id} /\ UNCHANGED acked

\* A delivery is answered 200 without being walked.
Acknowledge(id) == id \in walked /\ acked' = acked \cup {id} /\ UNCHANGED walked

Next == \E id \in Ids : Walk(id) \/ Acknowledge(id)

Spec == Init /\ [][Next]_vars
=============================================================================
