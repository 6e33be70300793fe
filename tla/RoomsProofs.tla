---------------------------- MODULE RoomsProofs ----------------------------
(***************************************************************************)
(* An invariant and two action properties of Rooms, for every set of       *)
(* users, every set of power_levels contents and any number of failed      *)
(* writes.                                                                 *)
(***************************************************************************)
EXTENDS Rooms, TLAPS

\* A leaf that names no prover is SMT's, and has half a minute.
USE SMTT(30)

(* A sender who is no creator acts with a level the room's power_levels    *)
(* content already holds (effective_sender_power).                         *)
LEMMA PowerIsHeld ==
    ASSUME NEW a, NEW u, NEW old, a.pl = {old}, IsContent(old), ~IsRoomCreator(a, u)
    PROVE  EffectivePower(a, u) \in Held(old) /\ EffectivePower(a, u) \in Int
<1>1. The(a.pl) = old
  BY Zenon DEF The
<1>2. EffectivePower(a, u) = UserLevel(old, u)
  BY <1>1, Zenon DEF EffectivePower
<1>3. CASE u \in DOMAIN old.users /\ old.users[u] >= 0
  BY <1>2, <1>3, Zenon DEF UserLevel, Level, Held, IsContent, IsLevels
<1>4. CASE ~(u \in DOMAIN old.users /\ old.users[u] >= 0)
  <2>1. UserLevel(old, u) = Level(old.levels, "users_default", 0)
    BY <1>4 DEF UserLevel, Level, IsContent, IsLevels
  <2>2. Level(old.levels, "users_default", 0) \in Int
    BY DEF Level, IsContent, IsLevels
  <2> QED BY <1>2, <2>1, <2>2, Zenon DEF Held
<1> QED BY <1>3, <1>4, Zenon

(* The power_levels rule: an accepted content of a sender who is no        *)
(* creator holds no level above all those of the content it replaces.      *)
THEOREM HandedDown ==
    ASSUME NEW a, NEW e, NEW old, a.pl = {old}, IsContent(old), IsContent(e.content),
           ~IsRoomCreator(a, e.sender), PowerLevelsAllowed(a, e)
    PROVE  NoHigher(old, e.content)
<1> DEFINE new == e.content
           power == EffectivePower(a, e.sender)
<1>1. power \in Held(old) /\ power \in Int
  BY PowerIsHeld, Zenon
<1>2. /\ WithinPower(old.levels, new.levels, power)
      /\ UsersRaised(old.users, new.users, power)
  BY Zenon DEF PowerLevelsAllowed
<1>3. Held(old) \subseteq Int
  BY DEF Held, Level, IsContent, IsLevels
<1>4. SUFFICES ASSUME NEW n \in Held(new)
               PROVE  \E o \in Held(old) : n <= o
  BY Zenon DEF NoHigher
<1>5. CASE n = 0
  BY <1>5 DEF Held
<1>6. CASE n = Level(new.levels, "users_default", 0)
  <2>1. CASE "users_default" \notin DOMAIN new.levels
    BY <1>6, <2>1, <1>5, Zenon DEF Level
  <2>2. CASE "users_default" \in DOMAIN new.levels
            /\ Changed(old.levels, new.levels, "users_default")
    <3>1. n <= power
      BY <1>2, <1>6, <2>2, Zenon DEF WithinPower, Level
    <3> QED BY <3>1, <1>1, Zenon
  <2>3. CASE "users_default" \in DOMAIN new.levels
            /\ ~Changed(old.levels, new.levels, "users_default")
    <3>1. n = Level(old.levels, "users_default", 0)
      BY <1>6, <2>3, Zenon DEF Changed, Level
    <3>2. n \in Held(old)
      BY <3>1, Zenon DEF Held
    <3> QED BY <3>2, <1>3
  <2> QED BY <2>1, <2>2, <2>3, Zenon
<1>7. CASE \E u \in DOMAIN new.users : n = new.users[u]
  <2>1. PICK u \in DOMAIN new.users : n = new.users[u]
    BY <1>7, Zenon
  <2>2. CASE Level(old.users, u, -1) < 0 \/ new.users[u] # old.users[u]
    <3>1. n <= power
      BY <1>2, <2>1, <2>2, Zenon DEF UsersRaised
    <3> QED BY <3>1, <1>1, Zenon
  <2>3. CASE ~(Level(old.users, u, -1) < 0) /\ new.users[u] = old.users[u]
    <3>1. u \in DOMAIN old.users
      BY <2>3 DEF Level
    <3>2. n \in Held(old)
      BY <3>1, <2>1, <2>3, Zenon DEF Held
    <3> QED BY <3>2, <1>3
  <2> QED BY <2>2, <2>3, Zenon
<1> QED BY <1>5, <1>6, <1>7, Zenon DEF Held

---------------------------------------------------------------------------
(* The power_levels content in current state, if there is one, is a single *)
(* well-formed content, and there is none before the room exists.          *)
LevelsInv ==
    /\ known \in BOOLEAN
    /\ ~known => pl = {}
    /\ pl = {} \/ \E c : pl = {c} /\ IsContent(c)

(* createRoom's initial content is one of integers.                        *)
LEMMA InitialIsContent == \A u, trusted : IsContent(InitialLevels(u, trusted))
<1> TAKE u, trusted
<1> DEFINE c == InitialLevels(u, trusted)
<1>1. DOMAIN c.levels = PowerKeys
  BY Zenon DEF InitialLevels, PowerKeys
<1>2. IsLevels(c.levels) /\ IsLevels(c.users) /\ IsLevels(c.events)
  BY DEF IsLevels, InitialLevels
<1> QED BY <1>1, <1>2, Zenon DEF IsContent

(* Only createRoom and a power_levels event touch the power levels.        *)
LEMMA LevelWriters ==
    ASSUME [Next]_vars
    PROVE  \/ \E u, rule, invited, trusted, fails :
                 CreateRoom(u, rule, invited, trusted, fails)
           \/ \E s : \E content \in Contents : SendPowerLevels(s, content)
           \/ UNCHANGED <<pl, known>>
<1>1. ASSUME NEW s, NEW t, NEW m, NEW fails, Transition(s, t, m, fails)
      PROVE  UNCHANGED <<pl, known>>
  BY <1>1, Zenon DEF Transition
<1>2. ASSUME NEW u, NEW view, NEW fails, JoinAfter(u, view, fails)
      PROVE  UNCHANGED <<pl, known>>
  BY <1>2, Zenon DEF JoinAfter
<1>3. CASE \E s \in Users, t \in Users, fails \in Steps :
              \/ InviteUser(s, t, fails)
              \/ BanUser(s, t, fails)
              \/ s # t /\ (KickUser(s, t, fails) \/ UnbanUser(s, t, fails))
  BY <1>1, <1>3, Zenon DEF InviteUser, BanUser, KickUser, UnbanUser
<1>4. CASE \E u \in Users, fails \in Steps :
              KnockRoom(u, fails) \/ LeaveRoom(u, fails) \/ JoinRoom(u, fails)
  BY <1>1, <1>2, <1>4, Zenon DEF KnockRoom, LeaveRoom, JoinRoom
<1>5. CASE \E u \in Users, s \in Users, token \in Tokens, fails \in Steps :
              JoinWithToken(u, s, token, fails)
  BY <1>2, <1>5, Zenon DEF JoinWithToken
<1>5a. CASE \E u \in Users, s \in Users, token \in Tokens : InvitedOnly(u, s, token)
  BY <1>5a, Zenon DEF InvitedOnly
<1>6. CASE \E u \in Users : LeaveAgain(u) \/ JoinAgain(u)
  BY <1>6, Zenon DEF LeaveAgain, JoinAgain, state
<1>6a. CASE \E u \in Users, fails \in 2 .. 3 : ForgetRoom(u, fails)
  BY <1>6a, Zenon DEF ForgetRoom, state
<1>7. CASE \E s \in Users, rule \in Rules : SendJoinRules(s, rule)
  BY <1>7, Zenon DEF SendJoinRules
<1>8. CASE \E s \in Users, t \in Users, m \in Memberships : SendMemberEvent(s, t, m)
  BY <1>8, Zenon DEF SendMemberEvent
<1>9. CASE \E s \in Users, token \in Tokens : InviteByThreepid(s, token)
  BY <1>9, Zenon DEF InviteByThreepid
<1>10. CASE Restart
  BY <1>10, Zenon DEF Restart, state
<1>11. CASE UNCHANGED vars
  BY <1>11, Zenon DEF vars, state
<1>12. CASE \E u \in Users, rule \in Rules, invited \in {{}} \union {{w} : w \in Users},
                fails \in 2 .. 9 :
                  /\ u \notin invited
                  /\ \E trusted \in SUBSET invited :
                        CreateRoom(u, rule, invited, trusted, fails)
  BY <1>12, Zenon
<1>13. CASE \E s \in Users, content \in Contents : SendPowerLevels(s, content)
  BY <1>13, Zenon
<1> QED
  BY <1>3, <1>4, <1>5, <1>5a, <1>6, <1>6a, <1>7, <1>8, <1>9, <1>10, <1>11, <1>12, <1>13, Zenon DEF Next

(* Every step keeps at most one well-formed power_levels content.          *)
LEMMA LevelsInvariant == Spec => []LevelsInv
<1>1. Init => LevelsInv
  BY Zenon DEF Init, LevelsInv
<1>2. LevelsInv /\ [Next]_vars => LevelsInv'
  <2> SUFFICES ASSUME LevelsInv, [Next]_vars PROVE LevelsInv'
    BY Zenon
  <2>1. ASSUME NEW u, NEW rule, NEW invited, NEW trusted, NEW fails,
               CreateRoom(u, rule, invited, trusted, fails)
        PROVE  LevelsInv'
    BY <2>1, InitialIsContent, Zenon DEF CreateRoom, FirstState, LevelsInv
  <2>2. ASSUME NEW s, NEW content \in Contents, SendPowerLevels(s, content)
        PROVE  LevelsInv'
    BY <2>2, ContentsAreLevels, Zenon DEF SendPowerLevels, Sends, Acts, LevelsInv
  <2>3. CASE UNCHANGED <<pl, known>>
    BY <2>3, Zenon DEF LevelsInv
  <2> QED BY <2>1, <2>2, <2>3, LevelWriters, Zenon
<1> QED BY <1>1, <1>2, PTL DEF Spec

(* Outside room version 12, no behaviour of the room lifts anyone above    *)
(* the highest level it already had.                                       *)
THEOREM LevelsHandedDown == Spec => LevelsOnlyHandedDown
<1> DEFINE Step == ~policy.privilege_room_creators =>
                       \A old \in pl, new \in pl' \ pl : NoHigher(old, new)
<1>1. LevelsInv /\ [Next]_vars => [Step]_vars
  <2> SUFFICES ASSUME LevelsInv, [Next]_vars, ~policy.privilege_room_creators,
                      NEW old \in pl, NEW new \in pl' \ pl
               PROVE  NoHigher(old, new)
    BY Zenon
  <2>1. pl = {old} /\ IsContent(old) /\ known
    BY Zenon DEF LevelsInv
  <2>2. ASSUME NEW u, NEW rule, NEW invited, NEW trusted, NEW fails,
               CreateRoom(u, rule, invited, trusted, fails)
        PROVE  FALSE
    BY <2>1, <2>2, Zenon DEF CreateRoom
  <2>3. ASSUME NEW s, NEW content \in Contents, SendPowerLevels(s, content)
        PROVE  NoHigher(old, new)
    <3> DEFINE e == StateEvent("power_levels", s, content)
    <3>1. new = e.content /\ IsContent(e.content) /\ e.sender = s
      BY <2>3, ContentsAreLevels, Zenon DEF SendPowerLevels, StateEvent
    <3>2. View.pl = {old} /\ ~IsRoomCreator(View, s)
      BY <2>1, Zenon DEF View, IsRoomCreator
    <3>3. PowerLevelsAllowed(View, e)
      BY <2>3, Zenon DEF SendPowerLevels, Sends, Authorized, RestAllowed, StateEvent
    <3> HIDE DEF e
    <3> QED BY <2>1, <3>1, <3>2, <3>3, HandedDown, Zenon
  <2>4. CASE UNCHANGED pl
    BY <2>4, Zenon
  <2> QED BY <2>2, <2>3, <2>4, LevelWriters, Zenon
<1> QED BY <1>1, LevelsInvariant, PTL DEF LevelsOnlyHandedDown, Spec

---------------------------------------------------------------------------
(* The member rules leave a banned user one way out: a "leave" sent by a   *)
(* joined user who may ban and whose level is above the banned user's.     *)
LEMMA OnlyUnban ==
    ASSUME NEW a, NEW e, e.type = "member", Authorized(a, e),
           a.mem[e.key] = "ban", e.membership # "ban"
    PROVE  /\ e.membership = "leave"
           /\ e.sender # e.key
           /\ a.mem[e.sender] = "join"
           /\ EffectivePower(a, e.sender) >= RequiredLevel(a, "ban", 50)
           /\ EffectivePower(a, e.key) < EffectivePower(a, e.sender)
<1>1. Current(a, e.key) = "ban"
  BY Zenon DEF Current
<1>2. MemberAllowed(a, e)
  BY Zenon DEF Authorized
<1>3. ~JoinAllowed(a, e) /\ ~KnockAllowed(a, e) /\ ~InviteAllowed(a, e)
  BY <1>1, Zenon DEF JoinAllowed, KnockAllowed, InviteAllowed, ThirdPartyInviteAllowed
<1>4. e.membership = "leave" /\ LeaveAllowed(a, e)
  BY <1>2, <1>3, Zenon DEF MemberAllowed
<1>5. e.sender # e.key
  BY <1>1, <1>4, Zenon DEF LeaveAllowed
<1>6. Current(a, e.sender) = "join" => a.mem[e.sender] = "join"
  BY Zenon DEF Current
<1> QED BY <1>1, <1>4, <1>5, <1>6, Zenon DEF LeaveAllowed

(* Before the room exists it has neither a create event nor a member.      *)
UnbornInv == /\ known \in BOOLEAN
             /\ ~known => create = {} /\ \A u \in Users : mem[u] = "none"

(* What a step may do to a banned user.                                    *)
LiftedByRank(u) ==
    mem[u] = "ban" /\ mem'[u] # "ban" =>
        /\ mem'[u] = "leave"
        /\ \E s \in Users \ {u} :
              /\ mem[s] = "join"
              /\ EffectivePower(View, s) >= RequiredLevel(View, "ban", 50)
              /\ EffectivePower(View, u) < EffectivePower(View, s)

(* Member events change one user's membership, and only as the rules allow *)
(* (persist_membership_transition, send_event).                            *)
LEMMA MemberEventLifts ==
    ASSUME NEW s \in Users, NEW t, NEW m, Authorized(View, MemberEvent(s, t, m, {})),
           mem' = [mem EXCEPT ![t] = m], NEW u \in Users
    PROVE  LiftedByRank(u)
<1> DEFINE e == MemberEvent(s, t, m, {})
<1>1. /\ e.type = "member" /\ e.sender = s /\ e.key = t /\ e.membership = m
  BY Zenon DEF MemberEvent
<1>2. View.mem = mem
  BY Zenon DEF View
<1>3. SUFFICES ASSUME mem[u] = "ban", mem'[u] # "ban"
               PROVE  LiftedByRank(u)
  BY Zenon DEF LiftedByRank
<1>4. t = u
  BY <1>3
<1>5. mem'[u] = m \/ mem'[u] = mem[u]
  BY <1>4
<1> HIDE DEF e
<1>6. /\ m = "leave" /\ s # u /\ mem[s] = "join"
      /\ EffectivePower(View, s) >= RequiredLevel(View, "ban", 50)
      /\ EffectivePower(View, u) < EffectivePower(View, s)
  BY <1>1, <1>2, <1>3, <1>4, <1>5, OnlyUnban DEF e
<1> QED BY <1>3, <1>5, <1>6, Zenon DEF LiftedByRank

(* A join leaves a banned user banned, with or without a third-party       *)
(* invite token (join_room).                                               *)
LEMMA JoinKeepsBan ==
    ASSUME NEW j, NEW view, NEW fails, NEW u \in Users, JoinAfter(j, view, fails),
           mem[u] = "ban", j = u => view.mem[u] = "ban"
    PROVE  mem'[u] = "ban"
<1> DEFINE e == MemberEvent(j, j, "join", {})
<1>1. e.type = "member" /\ e.sender = j /\ e.key = j /\ e.membership = "join"
  BY Zenon DEF MemberEvent
<1>2. Authorized(view, e) /\ mem' = [mem EXCEPT ![j] = "join"]
  BY Zenon DEF JoinAfter
<1> HIDE DEF e
<1>3. j # u
  BY <1>1, <1>2, OnlyUnban, Zenon
<1> QED BY <1>2, <1>3

(* The steps of Rooms by what they do to current-state membership.         *)
LEMMA MemberWriters ==
    ASSUME [Next]_vars
    PROVE  \/ \E u, rule, invited, trusted, fails :
                 CreateRoom(u, rule, invited, trusted, fails)
           \/ \E s \in Users : \E t, m :
                 /\ Authorized(View, MemberEvent(s, t, m, {}))
                 /\ mem' = [mem EXCEPT ![t] = m]
                 /\ UNCHANGED <<create, known>>
           \/ \E u, fails : JoinRoom(u, fails)
           \/ \E u, s, token, fails : JoinWithToken(u, s, token, fails)
           \/ \E u, s, token : InvitedOnly(u, s, token)
           \/ UNCHANGED <<create, mem, known>>
<1> DEFINE Sent == \E s \in Users : \E t, m :
                       /\ Authorized(View, MemberEvent(s, t, m, {}))
                       /\ mem' = [mem EXCEPT ![t] = m]
                       /\ UNCHANGED <<create, known>>
<1>1. ASSUME NEW s \in Users, NEW t, NEW m, NEW fails, Transition(s, t, m, fails)
      PROVE  Sent
  BY <1>1, Zenon DEF Transition
<1>2. ASSUME NEW s \in Users, NEW t, NEW m, SendMemberEvent(s, t, m)
      PROVE  Sent
  BY <1>2, Zenon DEF SendMemberEvent, Sends
<1> HIDE DEF Sent
<1>3. CASE \E s \in Users, t \in Users, fails \in Steps :
              \/ InviteUser(s, t, fails)
              \/ BanUser(s, t, fails)
              \/ s # t /\ (KickUser(s, t, fails) \/ UnbanUser(s, t, fails))
  <2>1. Sent
    BY <1>1, <1>3, Zenon DEF InviteUser, BanUser, KickUser, UnbanUser
  <2> QED BY <2>1, Zenon DEF Sent
<1>4. CASE \E u \in Users, fails \in Steps :
              KnockRoom(u, fails) \/ LeaveRoom(u, fails) \/ JoinRoom(u, fails)
  <2>1. Sent \/ \E u, fails : JoinRoom(u, fails)
    BY <1>1, <1>4, Zenon DEF KnockRoom, LeaveRoom
  <2> QED BY <2>1, Zenon DEF Sent
<1>5. CASE \E u \in Users, s \in Users, token \in Tokens, fails \in Steps :
              JoinWithToken(u, s, token, fails)
  BY <1>5, Zenon
<1>5a. CASE \E u \in Users, s \in Users, token \in Tokens : InvitedOnly(u, s, token)
  BY <1>5a, Zenon
<1>6. CASE \E u \in Users : LeaveAgain(u) \/ JoinAgain(u)
  BY <1>6, Zenon DEF LeaveAgain, JoinAgain, state
<1>6a. CASE \E u \in Users, fails \in 2 .. 3 : ForgetRoom(u, fails)
  BY <1>6a, Zenon DEF ForgetRoom, state
<1>7. CASE \E s \in Users, rule \in Rules : SendJoinRules(s, rule)
  BY <1>7, Zenon DEF SendJoinRules
<1>8. CASE \E s \in Users, t \in Users, m \in Memberships : SendMemberEvent(s, t, m)
  <2>1. Sent
    BY <1>2, <1>8, Zenon
  <2> QED BY <2>1, Zenon DEF Sent
<1>9. CASE \E s \in Users, token \in Tokens : InviteByThreepid(s, token)
  BY <1>9, Zenon DEF InviteByThreepid
<1>10. CASE Restart
  BY <1>10, Zenon DEF Restart, state
<1>11. CASE UNCHANGED vars
  BY <1>11, Zenon DEF vars, state
<1>12. CASE \E u \in Users, rule \in Rules, invited \in {{}} \union {{w} : w \in Users},
                fails \in 2 .. 9 :
                  /\ u \notin invited
                  /\ \E trusted \in SUBSET invited :
                        CreateRoom(u, rule, invited, trusted, fails)
  BY <1>12, Zenon
<1>13. CASE \E s \in Users, content \in Contents : SendPowerLevels(s, content)
  BY <1>13, Zenon DEF SendPowerLevels
<1> QED
  BY <1>3, <1>4, <1>5, <1>5a, <1>6, <1>6a, <1>7, <1>8, <1>9, <1>10, <1>11, <1>12, <1>13, Zenon DEF Next

(* Nothing happens in a room before it is created.                         *)
LEMMA UnbornInvariant == Spec => []UnbornInv
<1>1. Init => UnbornInv
  BY Zenon DEF Init, UnbornInv
<1>2. UnbornInv /\ [Next]_vars => UnbornInv'
  <2> SUFFICES ASSUME UnbornInv, [Next]_vars PROVE UnbornInv'
    BY Zenon
  <2>1. ASSUME NEW u, NEW rule, NEW invited, NEW trusted, NEW fails,
               CreateRoom(u, rule, invited, trusted, fails)
        PROVE  UnbornInv'
    BY <2>1, Zenon DEF CreateRoom, FirstState, FirstMembers, UnbornInv
  <2>2. ASSUME NEW s \in Users, NEW t, NEW m, Authorized(View, MemberEvent(s, t, m, {})),
               UNCHANGED <<create, known>>
        PROVE  UnbornInv'
    <3>1. create # {}
      BY <2>2, Zenon DEF Authorized, MemberEvent, View
    <3> QED BY <2>2, <3>1, Zenon DEF UnbornInv
  <2>3. ASSUME NEW u, NEW fails, JoinRoom(u, fails)
        PROVE  UnbornInv'
    BY <2>3, Zenon DEF JoinRoom, JoinAfter, UnbornInv
  <2>4. ASSUME NEW u, NEW s, NEW token, NEW fails, JoinWithToken(u, s, token, fails)
        PROVE  UnbornInv'
    BY <2>4, Zenon DEF JoinWithToken, InvitedBy, JoinAfter, UnbornInv
  <2>6. ASSUME NEW u, NEW s, NEW token, InvitedOnly(u, s, token)
        PROVE  UnbornInv'
    BY <2>6, Zenon DEF InvitedOnly, InvitedBy, UnbornInv
  <2>5. CASE UNCHANGED <<create, mem, known>>
    BY <2>5, Zenon DEF UnbornInv
  <2> QED BY <2>1, <2>2, <2>3, <2>4, <2>5, <2>6, MemberWriters, Zenon
<1> QED BY <1>1, <1>2, PTL DEF Spec

(* A ban ends only by the act of a joined user who may ban and stands      *)
(* above the banned one, and ends in "leave".                              *)
THEOREM BansHold == Spec => BannedStayOut
<1>1. UnbornInv /\ [Next]_vars => [\A u \in Users : LiftedByRank(u)]_vars
  <2> SUFFICES ASSUME UnbornInv, [Next]_vars, NEW u \in Users
               PROVE  LiftedByRank(u)
    BY Zenon
  <2>1. ASSUME NEW c, NEW rule, NEW invited, NEW trusted, NEW fails,
               CreateRoom(c, rule, invited, trusted, fails)
        PROVE  mem[u] # "ban"
    BY <2>1, Zenon DEF CreateRoom, UnbornInv
  <2>2. ASSUME NEW s \in Users, NEW t, NEW m, Authorized(View, MemberEvent(s, t, m, {})),
               mem' = [mem EXCEPT ![t] = m]
        PROVE  LiftedByRank(u)
    BY <2>2, MemberEventLifts, Zenon
  <2>3. ASSUME NEW j, NEW fails, JoinRoom(j, fails), mem[u] = "ban"
        PROVE  mem'[u] = "ban"
    BY <2>3, JoinKeepsBan, Zenon DEF JoinRoom, View
  <2>4. ASSUME NEW j, NEW s, NEW token, InvitedBy(j, s, token), mem[u] = "ban"
        PROVE  j # u
    <3> DEFINE e == MemberEvent(s, j, "invite", {token})
    <3>1. e.type = "member" /\ e.key = j /\ e.membership = "invite"
      BY Zenon DEF MemberEvent
    <3>2. Authorized(View, e)
      BY <2>4, Zenon DEF InvitedBy
    <3>3. View.mem = mem
      BY Zenon DEF View
    <3> HIDE DEF e
    <3> QED BY <2>4, <3>1, <3>2, <3>3, OnlyUnban, Zenon
  <2>6. ASSUME NEW j, NEW s, NEW token, NEW fails, JoinWithToken(j, s, token, fails),
               mem[u] = "ban"
        PROVE  mem'[u] = "ban"
    <3> DEFINE view == ViewInvited(j)
    <3>1. InvitedBy(j, s, token) /\ JoinAfter(j, view, fails)
      BY <2>6, Zenon DEF JoinWithToken
    <3>2. mem' = [mem EXCEPT ![j] = "join"]
      BY <3>1, Zenon DEF JoinAfter
    <3> QED BY <2>4, <2>6, <3>1, <3>2
  <2>7. ASSUME NEW j, NEW s, NEW token, InvitedOnly(j, s, token), mem[u] = "ban"
        PROVE  mem'[u] = "ban"
    <3>1. InvitedBy(j, s, token) /\ mem' = [mem EXCEPT ![j] = "invite"]
      BY <2>7, Zenon DEF InvitedOnly
    <3> QED BY <2>4, <2>7, <3>1
  <2>5. CASE UNCHANGED mem
    BY <2>5, Zenon DEF LiftedByRank
  <2> QED BY <2>1, <2>2, <2>3, <2>5, <2>6, <2>7, MemberWriters, Zenon DEF LiftedByRank
<1> QED BY <1>1, UnbornInvariant, PTL DEF BannedStayOut, LiftedByRank, Spec
---------------------------------------------------------------------------
(* The records of a membership, with what they hold.                       *)
RecordsInv ==
    /\ mem \in [Users -> Memberships \union {"none"}]
    /\ rows \in [Users -> Memberships \union {"none"}]
    /\ RecordsAgree

(* An invite or a knock is for a user who is not joined, and a knock is    *)
(* for one who is not invited either.                                      *)
LEMMA AskedFromOutside ==
    ASSUME NEW s, NEW t, NEW m \in {"invite", "knock"}, Authorized(View, MemberEvent(s, t, m, {}))
    PROVE  mem[t] # "join" /\ (m = "knock" => mem[t] # "invite")
<1> DEFINE e == MemberEvent(s, t, m, {})
<1>1. e.type = "member" /\ e.key = t /\ e.membership = m /\ e.token = {}
  BY Zenon DEF MemberEvent
<1>2. View.mem = mem
  BY Zenon DEF View
<1>3. Authorized(View, e)
  BY Zenon
<1> HIDE DEF e
<1>4. MemberAllowed(View, e)
  BY <1>1, <1>3, Zenon DEF Authorized
<1>5. (m = "invite" /\ InviteAllowed(View, e)) \/ (m = "knock" /\ KnockAllowed(View, e))
  BY <1>1, <1>4, Zenon DEF MemberAllowed
<1>6. Current(View, t) # "join" /\ (m = "knock" => Current(View, t) # "invite")
  BY <1>1, <1>5, Zenon DEF InviteAllowed, KnockAllowed
<1> QED BY <1>2, <1>6, Zenon DEF Current

(* A membership transition carries the four records over together, or      *)
(* leaves its user among the diverged (persist_membership_transition).     *)
LEMMA TransitionAgrees ==
    ASSUME RecordsInv, NEW s, NEW t \in Users, NEW m \in {"invite", "knock", "leave", "ban"},
           NEW fails \in Steps, Transition(s, t, m, fails)
    PROVE  RecordsInv'
<1>1. /\ fails \in {2, 3, 4, 5}
      /\ fails <= 4 <=> fails # 5
      /\ fails > 2 <=> fails # 2
      /\ fails > 3 <=> fails \notin {2, 3}
  BY DEF Steps
<1>2. /\ Authorized(View, MemberEvent(s, t, m, {}))
      /\ mem' = [mem EXCEPT ![t] = m]
      /\ rows' = IF fails # 2 THEN [rows EXCEPT ![t] = m] ELSE rows
      /\ members' = IF fails \notin {2, 3} /\ m \in {"leave", "ban"} THEN members \ {t} ELSE members
      /\ invites' = IF fails # 5 \/ m = "knock" THEN invites
                    ELSE IF m = "invite" THEN invites \union {t} ELSE invites \ {t}
      /\ diverged' = IF fails # 5 THEN diverged \union {t}
                     ELSE IF m \in {"join", "leave", "ban"} THEN diverged \ {t} ELSE diverged
  BY <1>1, Zenon DEF Transition, Settled
<1>3. /\ mem \in [Users -> Memberships \union {"none"}]
      /\ rows \in [Users -> Memberships \union {"none"}]
  BY Zenon DEF RecordsInv
<1>4. /\ mem' \in [Users -> Memberships \union {"none"}]
      /\ rows' \in [Users -> Memberships \union {"none"}]
  BY <1>2, <1>3 DEF Memberships
<1>5. ASSUME NEW u \in Users \ diverged', u # t
      PROVE  /\ u \notin diverged
             /\ mem'[u] = mem[u] /\ rows'[u] = rows[u]
             /\ u \in members' <=> u \in members
             /\ u \in invites' <=> u \in invites
  BY <1>2, <1>3, <1>5
<1>6. ASSUME t \notin diverged'
      PROVE  /\ fails = 5 /\ mem'[t] = m /\ rows'[t] = m
             /\ t \in members' <=> t \in members /\ m \notin {"leave", "ban"}
             /\ t \in invites' <=> m = "invite" \/ (m = "knock" /\ t \in invites)
             /\ m \in {"invite", "knock"} => t \notin diverged
  BY <1>2, <1>3, <1>6
<1>7. ASSUME t \notin diverged'
      PROVE  /\ t \in members' <=> mem'[t] = "join"
             /\ rows'[t] = mem'[t]
             /\ t \in invites' <=> mem'[t] = "invite"
  <2>1. CASE m \in {"leave", "ban"}
    BY <1>6, <1>7, <2>1, Zenon
  <2>2. CASE m \in {"invite", "knock"}
    <3>1. mem[t] # "join" /\ (m = "knock" => mem[t] # "invite")
      BY <1>2, <2>2, AskedFromOutside, Zenon
    <3>2. t \notin members /\ (m = "knock" => t \notin invites)
      BY <1>6, <1>7, <2>2, <3>1, Zenon DEF RecordsInv, RecordsAgree
    <3> QED BY <1>6, <1>7, <2>2, <3>2, Zenon
  <2> QED BY <2>1, <2>2, Zenon
<1>8. RecordsAgree'
  BY <1>5, <1>7, ZenonT(30) DEF RecordsInv, RecordsAgree
<1> QED BY <1>4, <1>8, Zenon DEF RecordsInv

(* A join rewrites all four records, or leaves its user among the diverged *)
(* (join_room).                                                            *)
LEMMA JoinAgrees ==
    ASSUME RecordsInv, NEW j \in Users, NEW view, NEW fails \in Steps, JoinAfter(j, view, fails)
    PROVE  RecordsInv'
<1>1. /\ fails \in {2, 3, 4, 5}
      /\ fails <= 4 <=> fails # 5
      /\ fails > 2 <=> fails # 2
      /\ fails > 4 <=> fails = 5
  BY DEF Steps
<1>2. /\ mem' = [mem EXCEPT ![j] = "join"]
      /\ rows' = IF fails # 2 THEN [rows EXCEPT ![j] = "join"] ELSE rows
      /\ members' = IF fails # 2 THEN members \union {j} ELSE members
      /\ invites' = IF fails = 5 THEN invites \ {j} ELSE invites
      /\ diverged' = IF fails # 5 THEN diverged \union {j} ELSE diverged \ {j}
  BY <1>1, Zenon DEF JoinAfter, Settled
<1>3. /\ mem \in [Users -> Memberships \union {"none"}]
      /\ rows \in [Users -> Memberships \union {"none"}]
  BY Zenon DEF RecordsInv
<1>4. /\ mem' \in [Users -> Memberships \union {"none"}]
      /\ rows' \in [Users -> Memberships \union {"none"}]
  BY <1>2, <1>3 DEF Memberships
<1>5. ASSUME NEW u \in Users \ diverged', u # j
      PROVE  /\ u \notin diverged
             /\ mem'[u] = mem[u] /\ rows'[u] = rows[u]
             /\ u \in members' <=> u \in members
             /\ u \in invites' <=> u \in invites
  BY <1>2, <1>3, <1>5
<1>6. ASSUME j \notin diverged'
      PROVE  mem'[j] = "join" /\ rows'[j] = "join" /\ j \in members' /\ j \notin invites'
  BY <1>2, <1>3, <1>6
<1>7. RecordsAgree'
  BY <1>5, <1>6, Zenon DEF RecordsInv, RecordsAgree
<1> QED BY <1>4, <1>7, Zenon DEF RecordsInv

(* createRoom's records agree but for the user it stopped at.              *)
LEMMA CreateAgrees ==
    ASSUME NEW c \in Users, NEW rule, NEW invited \in SUBSET Users, NEW trusted, NEW fails \in 2 .. 9,
           c \notin invited, CreateRoom(c, rule, invited, trusted, fails)
    PROVE  RecordsInv'
<1>1. /\ members' = {c}
      /\ mem' = [w \in Users |-> IF w = c /\ fails > 3 THEN "join"
                                 ELSE IF w \in invited /\ fails > 6 THEN "invite" ELSE "none"]
      /\ rows' = [w \in Users |-> IF w = c THEN "join"
                                  ELSE IF w \in invited /\ fails > 7 THEN "invite" ELSE "none"]
      /\ invites' = IF fails > 8 THEN invited ELSE {}
      /\ diverged' = IF fails <= 3 THEN {c}
                     ELSE IF fails \in {7, 8} THEN invited ELSE {}
  BY Zenon DEF CreateRoom, FirstMembers
<1>2. /\ mem' \in [Users -> Memberships \union {"none"}]
      /\ rows' \in [Users -> Memberships \union {"none"}]
  BY <1>1 DEF Memberships
<1>3. /\ (fails <= 3) = ~(fails > 3)
      /\ fails > 8 => fails > 7 /\ fails > 6 /\ fails > 3
      /\ fails > 6 => fails \in {7, 8} \/ fails > 8
      /\ fails \in {7, 8} => fails > 3 /\ ~(fails > 8)
      /\ fails > 7 => fails > 6
  OBVIOUS
<1>4. ASSUME NEW u \in Users \ diverged'
      PROVE  /\ u \in members' <=> mem'[u] = "join"
             /\ rows'[u] = mem'[u]
             /\ u \in invites' <=> mem'[u] = "invite"
  <2>1. CASE u = c
    BY <1>1, <1>3, <2>1
  <2>2. CASE u # c
    BY <1>1, <1>3, <2>2
  <2> QED BY <2>1, <2>2
<1>5. RecordsAgree'
  BY <1>4, Zenon DEF RecordsAgree
<1> QED BY <1>2, <1>5, Zenon DEF RecordsInv

(* A departure stamped again, a room forgotten and a join repeated touch   *)
(* one record of one user, and keep what it says.                          *)
LEMMA RepeatAgrees ==
    ASSUME RecordsInv, NEW u \in Users, NEW fails \in 2 .. 3,
           LeaveAgain(u) \/ ForgetRoom(u, fails) \/ JoinAgain(u)
    PROVE  RecordsInv'
<1>1. /\ mem \in [Users -> Memberships \union {"none"}]
      /\ rows \in [Users -> Memberships \union {"none"}]
      /\ RecordsAgree
  BY Zenon DEF RecordsInv
<1>2. UNCHANGED <<mem, members, diverged>>
  BY Zenon DEF LeaveAgain, ForgetRoom, JoinAgain, state
<1>3. CASE LeaveAgain(u)
  <2>1. /\ RecoveredRow(u) \notin {"join", "invite", "none"}
        /\ rows' = [rows EXCEPT ![u] = RecoveredRow(u)] /\ UNCHANGED invites
    BY <1>3, Zenon DEF LeaveAgain
  <2>2. RecoveredRow(u) \in Memberships \union {"none"}
    BY <1>1, Zenon DEF RecoveredRow
  <2>3. /\ rows' \in [Users -> Memberships \union {"none"}]
        /\ rows'[u] = RecoveredRow(u) /\ \A w \in Users \ {u} : rows'[w] = rows[w]
    BY <1>1, <2>1, <2>2
  <2>4. RecordsAgree'
    BY <1>1, <1>2, <2>1, <2>3, ZenonT(30) DEF RecordsAgree, RecoveredRow
  <2> QED BY <1>1, <1>2, <2>3, <2>4, Zenon DEF RecordsInv
<1>4. CASE ForgetRoom(u, fails)
  <2>1. /\ rows[u] \in {"leave", "ban"} /\ rows' = [rows EXCEPT ![u] = "none"]
        /\ invites' \in {invites, invites \ {u}}
    BY <1>4, Zenon DEF ForgetRoom
  <2>2. /\ rows' \in [Users -> Memberships \union {"none"}]
        /\ rows'[u] = "none" /\ \A w \in Users \ {u} : rows'[w] = rows[w]
    BY <1>1, <2>1
  <2>3. /\ u \in invites' => u \in invites
        /\ \A w \in Users \ {u} : w \in invites' <=> w \in invites
    BY <2>1, Zenon
  <2>4. u \notin diverged => mem[u] = rows[u] /\ u \notin invites
    BY <1>1, <2>1, Zenon DEF RecordsAgree
  <2>5. RecordsAgree'
    BY <1>1, <1>2, <2>1, <2>2, <2>3, <2>4, ZenonT(30) DEF RecordsAgree
  <2> QED BY <1>1, <1>2, <2>2, <2>5, Zenon DEF RecordsInv
<1>5. CASE JoinAgain(u)
  <2>1. u \in members /\ invites' = invites \ {u} /\ UNCHANGED rows
    BY <1>5, Zenon DEF JoinAgain, Acts
  <2>2. u \notin diverged => mem[u] = "join"
    BY <1>1, <2>1, Zenon DEF RecordsAgree
  <2>3. u \notin invites' /\ \A w \in Users \ {u} : w \in invites' <=> w \in invites
    BY <2>1, Zenon
  <2>4. RecordsAgree'
    BY <1>1, <1>2, <2>1, <2>2, <2>3, Zenon DEF RecordsAgree
  <2> QED BY <1>1, <1>2, <2>1, <2>4, Zenon DEF RecordsInv
<1> QED BY <1>3, <1>4, <1>5, Zenon

(* An m.room.member event stored as room state alone, by send_event or by  *)
(* a token join that went no further, puts its user among the diverged.    *)
LEMMA StateOnlyAgrees ==
    ASSUME RecordsInv, NEW t \in Users, NEW m \in Memberships,
           mem' = [mem EXCEPT ![t] = m], diverged' = diverged \union {t},
           UNCHANGED <<rows, invites, members>>
    PROVE  RecordsInv'
<1>1. /\ mem' = [mem EXCEPT ![t] = m] /\ diverged' = diverged \union {t}
      /\ UNCHANGED <<rows, invites, members>>
  BY Zenon
<1>2. /\ mem \in [Users -> Memberships \union {"none"}]
      /\ rows \in [Users -> Memberships \union {"none"}]
      /\ RecordsAgree
  BY Zenon DEF RecordsInv
<1>3. /\ mem' \in [Users -> Memberships \union {"none"}]
      /\ \A u \in Users \ diverged' : u \notin diverged /\ mem'[u] = mem[u]
  BY <1>1, <1>2
<1>4. RecordsAgree'
  BY <1>1, <1>2, <1>3, Zenon DEF RecordsAgree
<1> QED BY <1>1, <1>2, <1>3, <1>4, Zenon DEF RecordsInv

(* Every step keeps the records together.                                  *)
LEMMA RecordsStep ==
    ASSUME RecordsInv, [Next]_vars
    PROVE  RecordsInv'
<1>1. ASSUME UNCHANGED <<mem, rows, invites, members, diverged>>
      PROVE  RecordsInv'
  BY <1>1, Zenon DEF RecordsInv, RecordsAgree
<1>2. CASE \E u \in Users, rule \in Rules, invited \in {{}} \union {{w} : w \in Users},
              fails \in 2 .. 9 :
                /\ u \notin invited
                /\ \E trusted \in SUBSET invited :
                      CreateRoom(u, rule, invited, trusted, fails)
  <2>1. \A invited \in {{}} \union {{w} : w \in Users} : invited \in SUBSET Users
    BY Zenon
  <2> QED BY <1>2, <2>1, CreateAgrees, Zenon
<1>3. CASE \E s \in Users, t \in Users, fails \in Steps :
              \/ InviteUser(s, t, fails)
              \/ BanUser(s, t, fails)
              \/ s # t /\ (KickUser(s, t, fails) \/ UnbanUser(s, t, fails))
  BY <1>3, TransitionAgrees, Zenon DEF InviteUser, BanUser, KickUser, UnbanUser
<1>4. CASE \E u \in Users, fails \in Steps :
              KnockRoom(u, fails) \/ LeaveRoom(u, fails) \/ JoinRoom(u, fails)
  BY <1>4, TransitionAgrees, JoinAgrees, Zenon DEF KnockRoom, LeaveRoom, JoinRoom
<1>5. CASE \E u \in Users, s \in Users, token \in Tokens, fails \in Steps :
              JoinWithToken(u, s, token, fails)
  BY <1>5, JoinAgrees, Zenon DEF JoinWithToken
<1>5a. CASE \E u \in Users, s \in Users, token \in Tokens : InvitedOnly(u, s, token)
  BY <1>5a, StateOnlyAgrees, Zenon DEF InvitedOnly, Memberships
<1>6. CASE \E u \in Users : LeaveAgain(u) \/ JoinAgain(u)
  <2>1. 2 \in 2 .. 3
    OBVIOUS
  <2> QED BY <1>6, <2>1, RepeatAgrees, Zenon
<1>6a. CASE \E u \in Users, fails \in 2 .. 3 : ForgetRoom(u, fails)
  BY <1>6a, RepeatAgrees, Zenon
<1>7. CASE \E s \in Users, content \in Contents : SendPowerLevels(s, content)
  BY <1>1, <1>7, Zenon DEF SendPowerLevels
<1>8. CASE \E s \in Users, rule \in Rules : SendJoinRules(s, rule)
  BY <1>1, <1>8, Zenon DEF SendJoinRules
<1>9. CASE \E s \in Users, t \in Users, m \in Memberships : SendMemberEvent(s, t, m)
  BY <1>9, StateOnlyAgrees, Zenon DEF SendMemberEvent
<1>10. CASE \E s \in Users, token \in Tokens : InviteByThreepid(s, token)
  BY <1>1, <1>10, Zenon DEF InviteByThreepid
<1>11. CASE Restart
  <2>1. members' = {u \in Users : rows[u] = "join"} /\ UNCHANGED <<mem, rows, invites, diverged>>
    BY <1>11, Zenon DEF Restart, state
  <2>2. RecordsAgree'
    BY <2>1, Zenon DEF RecordsInv, RecordsAgree
  <2> QED BY <2>1, <2>2, Zenon DEF RecordsInv
<1>12. CASE UNCHANGED vars
  BY <1>1, <1>12, Zenon DEF vars, state
<1> QED
  BY <1>2, <1>3, <1>4, <1>5, <1>5a, <1>6, <1>6a, <1>7, <1>8, <1>9, <1>10, <1>11, <1>12, Zenon DEF Next

(* The member list, the membership rows, the invite rows and current state *)
(* tell the same of every user whose last change was carried through,      *)
(* whatever write fails in whichever handler, and across restarts.         *)
THEOREM RecordsStayTogether == Spec => []RecordsAgree
<1>1. Init => RecordsInv
  BY Zenon DEF Init, RecordsInv, RecordsAgree
<1>2. RecordsInv /\ [Next]_vars => RecordsInv'
  BY RecordsStep, Zenon
<1>3. RecordsInv => RecordsAgree
  BY Zenon DEF RecordsInv
<1> QED BY <1>1, <1>2, <1>3, PTL DEF Spec
=============================================================================
