------------------------------ MODULE MCRooms ------------------------------
(***************************************************************************)
(* The rooms service for TLC: three local users of one room, who change    *)
(* its power levels, or invite each other by third-party identifiers.  A   *)
(* behaviour is one of either.                                             *)
(***************************************************************************)
EXTENDS Rooms, TLC

CONSTANTS alice, bob, carol

VARIABLE part

MCUsers == {alice, bob, carol}
MCPolicies == [privilege_room_creators : {FALSE}, checks_federate : {TRUE}]
MCHomeOf == [u \in MCUsers |-> "here"]

Content(levels, users) == [levels |-> levels, users |-> users, events |-> [t \in {} |-> 0]]

\* Levels around the sender's own, and an explicit negative one under a
\* default that lifts everyone without an entry.
MCContents ==
    {Content([state_default |-> 50], (p[1] :> 100) @@ (p[2] :> 50)) :
        p \in {q \in MCUsers \X MCUsers : q[1] # q[2]}}
    \union {Content([state_default |-> 50, users_default |-> 50], u :> -1) : u \in MCUsers}

\* Under "private" the signed invite is stored and the join refused.
Invited == INSTANCE Rooms WITH Contents <- {}, Tokens <- {"t"}, Rules <- Rules \union {"private"}

RoomsInit == Init /\ part \in {"levels", "invited"}

RoomsNext ==
    /\ UNCHANGED part
    /\ \/ part = "levels" /\ Next
       \/ part = "invited" /\ Invited!Next

RoomsSpec == RoomsInit /\ [][RoomsNext]_<<vars, part>>

Symmetry == Permutations(MCUsers)
=============================================================================
