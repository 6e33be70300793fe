----------------------------- MODULE AuthRules -----------------------------
(***************************************************************************)
(* The room authorisation rules of events/authorization.cpp, as predicates *)
(* over the auth events a caller supplies.                                 *)
(*                                                                         *)
(* An auth view `a' is what AuthEventMap carries, reduced to what the      *)
(* rules read:                                                             *)
(*   a.policy      the two facts of RoomVersionPolicy the rules ask for:    *)
(*                 [privilege_room_creators, checks_federate];             *)
(*   a.create      {} or one record [creator, creators, federate]:         *)
(*                 `creator' is content.creator as a set of at most one    *)
(*                 user, `creators' the create event's sender and the      *)
(*                 additional_creators;                                    *)
(*   a.pl          {} or one power_levels content [levels, users, events], *)
(*                 three partial functions to integers;                    *)
(*   a.join_rule   {} or one rule name;                                    *)
(*   a.mem         the content.membership of each user's member event, or  *)
(*                 "none" where there is no such event;                    *)
(*   a.tokens      the m.room.third_party_invite events, as the set of     *)
(*                 <<token, sender>>;                                      *)
(*   a.authorisers the users whose member event was supplied as            *)
(*                 authorising_user_member.                                *)
(* Values that do not parse as integers never reach these rules: see       *)
(* power_levels_content_rejection_reason, whose malformed inputs are the   *)
(* `wellformed' flag of an event.                                          *)
(***************************************************************************)
EXTENDS Integers, FiniteSets

CONSTANTS
    Users,          \* user IDs
    HomeOf          \* domain_of: the server part of each user ID

Memberships == {"join", "invite", "leave", "ban", "knock"}

PowerKeys == {"users_default", "events_default", "state_default",
              "ban", "redact", "kick", "invite"}

The(option) == CHOOSE x \in option : TRUE

\* Larger than every level a room can carry: int64 max in the code.
CreatorPower == 1000000

---------------------------------------------------------------------------
(* Power levels.                                                           *)

Level(levels, key, default) ==
    IF key \in DOMAIN levels THEN levels[key] ELSE default

RequiredLevel(a, key, default) ==
    IF a.pl = {} THEN default ELSE Level(The(a.pl).levels, key, default)

\* An explicit negative level reads as an absent one.
UserLevel(content, u) ==
    LET level == Level(content.users, u, -1) IN
    IF level >= 0 THEN level ELSE Level(content.levels, "users_default", 0)

IsRoomCreator(a, u) ==
    a.policy.privilege_room_creators /\ a.create # {} /\ u \in The(a.create).creators

IsContentCreator(a, u) == a.create # {} /\ u \in The(a.create).creator

EffectivePower(a, u) ==
    IF IsRoomCreator(a, u) THEN CreatorPower
    ELSE IF a.pl # {} THEN UserLevel(The(a.pl), u)
    ELSE IF IsContentCreator(a, u) THEN 100 ELSE 0

EventLevel(a, type, key, default) ==
    LET fallback == RequiredLevel(a, key, default) IN
    IF a.pl = {} THEN fallback ELSE Level(The(a.pl).events, type, fallback)

---------------------------------------------------------------------------
(* m.room.create and the rules every other event meets first.              *)

CreateAllowed(a, e) == a.create = {} /\ e.wellformed

DomainAllowed(a, e) ==
    a.policy.checks_federate /\ ~The(a.create).federate =>
        \E c \in (IF The(a.create).creator # {} THEN The(a.create).creator
                                                 ELSE The(a.create).creators) :
            HomeOf[e.sender] = HomeOf[c]

---------------------------------------------------------------------------
(* m.room.member, one operator for each requested membership.              *)

Current(a, u) == IF a.mem[u] = "none" THEN "leave" ELSE a.mem[u]

JoinRule(a) == IF a.join_rule = {} THEN "invite" ELSE The(a.join_rule)

AuthorisedVia(a, e) ==
    \E w \in e.via : /\ w \in a.authorisers
                     /\ Current(a, w) = "join"
                     /\ EffectivePower(a, w) >= RequiredLevel(a, "invite", 0)

\* Mutant: the ban is looked for only under an invite rule.
JoinAllowedUnlessInviteOnly(a, e) ==
    /\ e.sender = e.key
    /\ JoinRule(a) = "public" \/ Current(a, e.key) \in {"invite", "join"}

JoinAllowed(a, e) ==
    /\ e.sender = e.key
    /\ Current(a, e.key) # "ban"
    /\ \/ a.mem[e.key] = "none" /\ IsContentCreator(a, e.sender)
       \/ JoinRule(a) = "public"
       \/ /\ JoinRule(a) \in {"invite", "knock", "restricted", "restricted_v2"}
          /\ Current(a, e.key) \in {"invite", "join"}
       \/ /\ JoinRule(a) \in {"restricted", "restricted_v2"}
          /\ AuthorisedVia(a, e)

KnockAllowed(a, e) ==
    /\ e.sender = e.key
    /\ Current(a, e.key) \notin {"ban", "join", "invite"}
    /\ JoinRule(a) \in {"knock", "knock_restricted"}

\* The signed block of the invite names this user and a token; the signature
\* itself is the event's wellformed flag.
ThirdPartyInviteAllowed(a, e) ==
    /\ Current(a, e.key) # "ban"
    /\ e.wellformed
    /\ \E token \in e.token : <<token, e.sender>> \in a.tokens

InviteAllowed(a, e) ==
    IF e.token # {} THEN ThirdPartyInviteAllowed(a, e)
    ELSE /\ Current(a, e.key) \notin {"join", "ban"}
         /\ Current(a, e.sender) = "join"
         /\ EffectivePower(a, e.sender) >= RequiredLevel(a, "invite", 0)

LeaveAllowed(a, e) ==
    IF e.sender = e.key THEN Current(a, e.key) \in {"invite", "join", "knock"}
    ELSE /\ Current(a, e.sender) = "join"
         /\ Current(a, e.key) = "ban" =>
                EffectivePower(a, e.sender) >= RequiredLevel(a, "ban", 50)
         /\ EffectivePower(a, e.sender) >= RequiredLevel(a, "kick", 50)
         /\ EffectivePower(a, e.key) < EffectivePower(a, e.sender)

BanAllowed(a, e) ==
    /\ Current(a, e.sender) = "join"
    /\ EffectivePower(a, e.sender) >= RequiredLevel(a, "ban", 50)
    /\ EffectivePower(a, e.key) < EffectivePower(a, e.sender)

MemberAllowed(a, e) ==
    \/ e.membership = "join" /\ JoinAllowed(a, e)
    \/ e.membership = "knock" /\ KnockAllowed(a, e)
    \/ e.membership = "invite" /\ InviteAllowed(a, e)
    \/ e.membership = "leave" /\ LeaveAllowed(a, e)
    \/ e.membership = "ban" /\ BanAllowed(a, e)

---------------------------------------------------------------------------
(* m.room.power_levels: what a new content may change in the old one.      *)

Changed(old, new, key) ==
    \/ (key \in DOMAIN old) # (key \in DOMAIN new)
    \/ key \in DOMAIN old /\ key \in DOMAIN new /\ old[key] # new[key]

\* scalar_power_level_rejection_reason and power_level_map_rejection_reason
\* apply the same bound, to the fixed keys and to the entries of a map.
WithinPower(old, new, power) ==
    \A key \in DOMAIN old \union DOMAIN new : Changed(old, new, key) =>
        /\ key \in DOMAIN old => old[key] <= power
        /\ key \in DOMAIN new => new[key] <= power

\* Mutant: only the entries that were already there are compared.
UsersRaisedWhereKnown(old, new, power) ==
    \A u \in DOMAIN new \intersect DOMAIN old : new[u] # old[u] => new[u] <= power

\* An old negative level counts as absent on both sides of the comparison.
UsersRaised(old, new, power) ==
    \A u \in DOMAIN new :
        Level(old, u, -1) < 0 \/ new[u] # old[u] => new[u] <= power

UsersKept(old, new, sender, power) ==
    \A u \in DOMAIN old \ {sender} :
        old[u] >= 0 /\ Changed(old, new, u) => old[u] < power

PowerLevelsAllowed(a, e) ==
    LET power == EffectivePower(a, e.sender) IN
    /\ e.wellformed
    /\ \A u \in DOMAIN e.content.users : ~IsRoomCreator(a, u)
    /\ \A old \in a.pl : /\ WithinPower(old.levels, e.content.levels, power)
                         /\ WithinPower(old.events, e.content.events, power)
                         /\ UsersRaised(old.users, e.content.users, power)
                         /\ UsersKept(old.users, e.content.users, e.sender, power)
    /\ power >= RequiredLevel(a, "state_default", 50)

---------------------------------------------------------------------------
(* Every other event.                                                      *)

SenderJoined(a, e) ==
    \/ a.mem[e.sender] = "join"
    \/ a.mem[e.sender] = "none" /\ IsContentCreator(a, e.sender)

OwnStateKey(e) == e.key \in Users => e.key = e.sender

RestAllowed(a, e) ==
    /\ SenderJoined(a, e)
    /\ \/ /\ e.type = "third_party_invite"
          /\ EffectivePower(a, e.sender) >= RequiredLevel(a, "invite", 0)
       \/ /\ e.type = "power_levels"
          /\ PowerLevelsAllowed(a, e)
       \/ /\ e.type \notin {"third_party_invite", "power_levels", "message"}
          /\ OwnStateKey(e)
          /\ EffectivePower(a, e.sender) >= EventLevel(a, e.type, "state_default", 50)
       \/ /\ e.type = "message"
          /\ EffectivePower(a, e.sender) >= EventLevel(a, e.type, "events_default", 0)

\* authorize_event_against_auth_events
Authorized(a, e) ==
    IF e.type = "create" THEN CreateAllowed(a, e)
    ELSE /\ a.create # {}
         /\ DomainAllowed(a, e)
         /\ IF e.type = "member" THEN MemberAllowed(a, e) ELSE RestAllowed(a, e)

---------------------------------------------------------------------------
(* The highest level anyone in the room can act with, creators aside: the  *)
(* explicit levels and the default, and 0, which an absent default means.  *)

Held(content) ==
    {0, Level(content.levels, "users_default", 0)}
        \union {content.users[u] : u \in DOMAIN content.users}

NoHigher(old, new) == \A new_level \in Held(new) :
                        \E old_level \in Held(old) : new_level <= old_level
=============================================================================
