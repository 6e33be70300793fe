------------------------------- MODULE Rooms -------------------------------
(***************************************************************************)
(* One room hosted by this server, as homeserver/room_service.cpp keeps it *)
(* in four places at once: the current-state events the authorisation      *)
(* rules read, the membership rows, the invite metadata rows, and the      *)
(* member list of the LocalRoom in memory.  A handler writes them one      *)
(* after the other and returns 500 from the middle when one write fails,   *)
(* leaving the earlier writes in place.  Each handler runs under           *)
(* runtime.mutex from its first read to its last write, so it is one step; *)
(* `fails' is the number of the write that fails in it.                    *)
(***************************************************************************)
EXTENDS AuthRules

CONSTANTS
    Policies,       \* the room version policies rooms are created with
    Contents,       \* the power_levels contents users send
    Rules,          \* the join rules users set
    Tokens,         \* third-party invite tokens
    MaxFaults,      \* bound: writes that fail,
    MaxPlain        \*        and m.room.member events sent as room state

\* power_levels_content_rejection_reason: every level is an integer.
IsLevels(f) == \A key \in DOMAIN f : f[key] \in Int
IsContent(c) ==
    /\ DOMAIN c.levels \subseteq PowerKeys
    /\ IsLevels(c.levels) /\ IsLevels(c.users) /\ IsLevels(c.events)

ASSUME ContentsAreLevels == \A c \in Contents : IsContent(c)

VARIABLES
    policy,     \* the room version's policy
    create, pl, join_rule, mem, tokens,     \* current state, as auth views have it
    rows,       \* persistent_store.memberships, "none" where there is no row
    invites,    \* persistent_store.invites: users with an invite row
    members,    \* LocalRoom.members
    known,      \* the room row, and the LocalRoom made with it
    upsets,     \* failed writes and plain member events so far
    diverged    \* users whose last membership change stopped half way, or
                \* was an m.room.member event sent as plain room state

state == <<create, pl, join_rule, mem, tokens>>
vars == <<policy, state, rows, invites, members, known, upsets, diverged>>

\* build_auth_event_map: it never supplies an authorising user's membership.
View == [policy |-> policy, create |-> create, pl |-> pl, join_rule |-> join_rule,
         mem |-> mem, tokens |-> tokens, authorisers |-> {}]

MemberEvent(s, t, m, token) ==
    [type |-> "member", sender |-> s, key |-> t, membership |-> m,
     via |-> {}, token |-> token, wellformed |-> TRUE]

StateEvent(type, s, content) ==
    [type |-> type, sender |-> s, key |-> "", content |-> content, wellformed |-> TRUE]

Init ==
    /\ policy \in Policies
    /\ create = {} /\ pl = {} /\ join_rule = {} /\ tokens = {}
    /\ mem = [u \in Users |-> "none"]
    /\ rows = [u \in Users |-> "none"]
    /\ invites = {} /\ members = {} /\ known = FALSE
    /\ upsets = 0 /\ diverged = {}

\* The write numbered `fails' is the first to fail; `last' writes in all.
Fails(fails, last) ==
    /\ fails \in 2 .. last + 1
    /\ fails <= last => upsets < MaxFaults
    /\ upsets' = IF fails <= last THEN upsets + 1 ELSE upsets

\* A departure or a join rewrites all four records; an invite or a knock
\* leaves the member list, and a knock the invite row, as they are.
Settled(u, m, fails, last) ==
    diverged' = IF fails <= last THEN diverged \union {u}
                ELSE IF m \in {"join", "leave", "ban"} THEN diverged \ {u} ELSE diverged

---------------------------------------------------------------------------
(* createRoom.  Writes: 1 the room and its creator's membership row, 2 the *)
(* create event, 3 the creator's member event, 4 power_levels, 5           *)
(* join_rules, 6 the invitee's member event, 7 its row, 8 its metadata.    *)

\* In version 12 the creators act above every level and are left out.
InitialLevels(u, trusted) ==
    [levels |-> [ban |-> 50, events_default |-> 0, invite |-> 50, kick |-> 50,
                 redact |-> 50, state_default |-> 50, users_default |-> 0],
     events |-> [t \in {} |-> 0],
     users |-> [w \in IF policy.privilege_room_creators THEN {}
                      ELSE {u} \union trusted |-> 100]]

Creators(u, trusted) == {u} \union IF policy.privilege_room_creators THEN trusted ELSE {}

\* The events the room begins with: what was written before the failure.
FirstState(u, rule, trusted, fails) ==
    /\ create' = IF fails > 2 THEN {[creator |-> {u}, creators |-> Creators(u, trusted),
                                     federate |-> TRUE]} ELSE {}
    /\ pl' = IF fails > 4 THEN {InitialLevels(u, trusted)} ELSE {}
    /\ join_rule' = IF fails > 5 THEN {rule} ELSE {}

\* The creator joins and then invites; a failure leaves one of them half way.
FirstMembers(u, invited, fails) ==
    /\ mem' = [w \in Users |-> IF w = u /\ fails > 3 THEN "join"
                               ELSE IF w \in invited /\ fails > 6 THEN "invite" ELSE "none"]
    /\ rows' = [w \in Users |-> IF w = u THEN "join"
                                ELSE IF w \in invited /\ fails > 7 THEN "invite" ELSE "none"]
    /\ invites' = IF fails > 8 THEN invited ELSE {}
    /\ diverged' = IF fails <= 3 THEN {u}
                   ELSE IF fails \in {7, 8} THEN invited ELSE {}

CreateRoom(u, rule, invited, trusted, fails) ==
    /\ ~known
    /\ trusted \subseteq invited
    /\ fails <= 6 \/ invited # {}
    /\ Fails(fails, IF invited = {} THEN 5 ELSE 8)
    /\ known' = TRUE
    /\ members' = {u}
    /\ FirstState(u, rule, trusted, fails)
    /\ FirstMembers(u, invited, fails)
    /\ UNCHANGED <<policy, tokens>>

---------------------------------------------------------------------------
(* persist_membership_transition.  Writes: 1 the event and its state row,  *)
(* 2 the membership row, 3 the device-list records of a departure, 4 the   *)
(* invite metadata; the member list changes between 3 and 4.               *)

Transition(s, t, m, fails) ==
    /\ Fails(fails, 4)
    /\ Authorized(View, MemberEvent(s, t, m, {}))
    /\ fails = 3 => m \in {"leave", "ban"}
    /\ fails = 4 => m # "knock"
    /\ mem' = [mem EXCEPT ![t] = m]
    /\ rows' = IF fails > 2 THEN [rows EXCEPT ![t] = m] ELSE rows
    /\ members' = IF fails > 3 /\ m \in {"leave", "ban"} THEN members \ {t} ELSE members
    /\ invites' = IF fails <= 4 \/ m = "knock" THEN invites
                  ELSE IF m = "invite" THEN invites \union {t} ELSE invites \ {t}
    /\ Settled(t, m, fails, 4)
    /\ UNCHANGED <<policy, create, pl, join_rule, tokens, known>>

Acts(s) == known /\ s \in members

InviteUser(s, t, fails) == Acts(s) /\ Transition(s, t, "invite", fails)

BanUser(s, t, fails) == Acts(s) /\ Transition(s, t, "ban", fails)

KickUser(s, t, fails) == Acts(s) /\ Transition(s, t, "leave", fails)

UnbanUser(s, t, fails) == Acts(s) /\ rows[t] = "ban" /\ Transition(s, t, "leave", fails)

KnockRoom(u, fails) == known /\ Transition(u, u, "knock", fails)

---------------------------------------------------------------------------
(* leave_room on a room of this server.  A missing row is first rebuilt    *)
(* from current state; a row that is neither join nor invite is only       *)
(* stamped again.                                                          *)

\* Mutant: a missing row is taken for a departure.
RecoveredAsLeft(u) == IF rows[u] = "none" THEN "leave" ELSE rows[u]

RecoveredRow(u) == IF rows[u] = "none" THEN mem[u] ELSE rows[u]

LeaveRoom(u, fails) ==
    /\ RecoveredRow(u) \in {"join", "invite"}
    /\ Transition(u, u, "leave", fails)

LeaveAgain(u) ==
    /\ RecoveredRow(u) \notin {"join", "invite", "none"}
    /\ rows' = [rows EXCEPT ![u] = RecoveredRow(u)]
    /\ UNCHANGED <<policy, state, invites, members, known, upsets, diverged>>

\* Writes: 1 the row, 2 the invite row; a failed 2 is reported with 1 done.
ForgetRoom(u, fails) ==
    /\ known
    /\ Fails(fails, 2)
    /\ rows[u] \in {"leave", "ban"}
    /\ rows' = [rows EXCEPT ![u] = "none"]
    /\ invites' = IF fails > 2 THEN invites \ {u} ELSE invites
    /\ UNCHANGED <<policy, state, members, known, diverged>>

---------------------------------------------------------------------------
(* join_room on a room of this server.  Writes: 1 the join event, 2 the    *)
(* row, 3 the device-list records (after the member list), 4 the invite    *)
(* row's removal.  A third-party signed block first puts an invite event   *)
(* of the inviter's into current state.                                    *)

JoinAfter(u, view, fails) ==
    /\ Fails(fails, 4)
    /\ Authorized(view, MemberEvent(u, u, "join", {}))
    /\ mem' = [mem EXCEPT ![u] = "join"]
    /\ rows' = IF fails > 2 THEN [rows EXCEPT ![u] = "join"] ELSE rows
    /\ members' = IF fails > 2 THEN members \union {u} ELSE members
    /\ invites' = IF fails > 4 THEN invites \ {u} ELSE invites
    /\ Settled(u, "join", fails, 4)
    /\ UNCHANGED <<policy, create, pl, join_rule, tokens, known>>

JoinRoom(u, fails) ==
    /\ known /\ u \notin members
    /\ JoinAfter(u, View, fails)

InvitedBy(u, inviter, token) ==
    /\ known /\ u \notin members
    /\ Authorized(View, MemberEvent(inviter, u, "invite", {token}))

ViewInvited(u) == [View EXCEPT !.mem[u] = "invite"]

JoinWithToken(u, inviter, token, fails) ==
    /\ InvitedBy(u, inviter, token)
    /\ JoinAfter(u, ViewInvited(u), fails)

\* The invite is stored and the join is then refused, or not written.
InvitedOnly(u, inviter, token) ==
    /\ InvitedBy(u, inviter, token)
    /\ IF Authorized(ViewInvited(u), MemberEvent(u, u, "join", {}))
       THEN upsets < MaxFaults /\ upsets' = upsets + 1
       ELSE UNCHANGED upsets
    /\ mem' = [mem EXCEPT ![u] = "invite"]
    /\ diverged' = diverged \union {u}
    /\ UNCHANGED <<policy, create, pl, join_rule, tokens, rows, invites, members, known>>

\* The member list already has the user: only the invite row goes.
JoinAgain(u) ==
    /\ Acts(u)
    /\ invites' = invites \ {u}
    /\ UNCHANGED <<policy, state, rows, members, known, upsets, diverged>>

---------------------------------------------------------------------------
(* Events sent to the room.  send_event stores whatever the rules allow,   *)
(* an m.room.member event among them, and touches current state only.      *)

Sends(s, e) == Acts(s) /\ Authorized(View, e)

SendPowerLevels(s, content) ==
    /\ Sends(s, StateEvent("power_levels", s, content))
    /\ pl' = {content}
    /\ UNCHANGED <<policy, create, join_rule, mem, tokens, rows, invites, members, known,
                   upsets, diverged>>

SendJoinRules(s, rule) ==
    /\ Sends(s, StateEvent("join_rules", s, rule))
    /\ join_rule' = {rule}
    /\ UNCHANGED <<policy, create, pl, mem, tokens, rows, invites, members, known,
                   upsets, diverged>>

SendMemberEvent(s, t, m) ==
    /\ upsets < MaxPlain
    /\ Sends(s, MemberEvent(s, t, m, {}))
    /\ mem' = [mem EXCEPT ![t] = m]
    /\ diverged' = diverged \union {t}
    /\ upsets' = upsets + 1
    /\ UNCHANGED <<policy, create, pl, join_rule, tokens, rows, invites, members, known>>

\* invite_user_by_threepid looks everything up again after the identity
\* server's answer, under the lock it takes back.
InviteByThreepid(s, token) ==
    /\ Sends(s, StateEvent("third_party_invite", s, token))
    /\ tokens' = {p \in tokens : p[1] # token} \union {<<token, s>>}
    /\ UNCHANGED <<policy, create, pl, join_rule, mem, rows, invites, members, known,
                   upsets, diverged>>

\* hydrate_local_database rebuilds the member list from the rows.
Restart ==
    /\ known
    /\ members' = {u \in Users : rows[u] = "join"}
    /\ UNCHANGED <<policy, state, rows, invites, known, upsets, diverged>>

---------------------------------------------------------------------------

\* 5 stands for a handler that runs to its end; createRoom has more writes.
Steps == 2 .. 5

Next ==
    \/ /\ ~known
       /\ \E u \in Users, rule \in Rules, invited \in {{}} \union {{w} : w \in Users},
             fails \in 2 .. 9 :
            /\ u \notin invited
            /\ \E trusted \in SUBSET invited : CreateRoom(u, rule, invited, trusted, fails)
    \/ \E s \in Users, t \in Users, fails \in Steps :
            \/ InviteUser(s, t, fails)
            \/ BanUser(s, t, fails)
            \/ s # t /\ (KickUser(s, t, fails) \/ UnbanUser(s, t, fails))
    \/ \E u \in Users, fails \in Steps :
            KnockRoom(u, fails) \/ LeaveRoom(u, fails) \/ JoinRoom(u, fails)
    \/ \E u \in Users, s \in Users, token \in Tokens, fails \in Steps :
            JoinWithToken(u, s, token, fails)
    \/ \E u \in Users, s \in Users, token \in Tokens : InvitedOnly(u, s, token)
    \/ \E u \in Users : LeaveAgain(u) \/ JoinAgain(u)
    \/ \E u \in Users, fails \in 2 .. 3 : ForgetRoom(u, fails)
    \/ \E s \in Users, content \in Contents : SendPowerLevels(s, content)
    \/ \E s \in Users, rule \in Rules : SendJoinRules(s, rule)
    \/ upsets < MaxPlain /\ \E s \in Users, t \in Users, m \in Memberships : SendMemberEvent(s, t, m)
    \/ \E s \in Users, token \in Tokens : InviteByThreepid(s, token)
    \/ Restart

Spec == Init /\ [][Next]_vars

---------------------------------------------------------------------------
(* The four records of a membership agree, for every user whose last       *)
(* change was carried through: the member list holds exactly the joined,   *)
(* the row repeats current state unless the user has forgotten the room,   *)
(* and an invite row exists exactly for the invited.                       *)
RecordsAgree ==
    \A u \in Users \ diverged :
        /\ u \in members <=> mem[u] = "join"
        /\ \/ rows[u] = mem[u]
           \/ rows[u] = "none" /\ mem[u] \in {"leave", "ban"}
        /\ u \in invites <=> mem[u] = "invite"

(* Whatever sequence of handlers, retries and failed writes is taken, a    *)
(* banned user's membership changes to "leave" and to nothing else, and    *)
(* only while some joined user may ban and stands above that user.         *)
BannedStayOut ==
    [][\A u \in Users : mem[u] = "ban" /\ mem'[u] # "ban" =>
          /\ mem'[u] = "leave"
          /\ \E s \in Users \ {u} :
                /\ mem[s] = "join"
                /\ EffectivePower(View, s) >= RequiredLevel(View, "ban", 50)
                /\ EffectivePower(View, u) < EffectivePower(View, s)]_vars

(* No sequence of power_levels events lifts anyone above the highest level *)
(* the room already had: levels are handed down, never up.                 *)
LevelsOnlyHandedDown ==
    [][~policy.privilege_room_creators =>
          \A old \in pl, new \in pl' \ pl : NoHigher(old, new)]_vars

=============================================================================
