--------------------------- MODULE SessionsProofs ---------------------------
(***************************************************************************)
(* Sessions, for any sets of users, devices and passwords, any number of   *)
(* logins and refreshes, of failed commits and of tokens that expire:      *)
(* CredentialsEnd holds.                                                   *)
(***************************************************************************)
EXTENDS Sessions, TLAPS

\* A leaf that names no prover is SMT's, and has half a minute.
USE SMTT(30)

-----------------------------------------------------------------------------
(* The inductive invariant.  All of it is about the rows and sessions that *)
(* are not revoked.                                                        *)
Live(table) == {r \in table : ~r.revoked}

(* The tokens in use are among those issued, and a refresh token's row     *)
(* holds a refresh token.                                                  *)
Numbered ==
    /\ \A r \in Live(access) \cup Live(sessions) \cup Live(refresh) : r.token[2] <= issued
    /\ \A t \in loggedOut : t[2] <= issued
    /\ \A r \in Live(refresh) : r.token[1] = "refresh"

(* A token has one live row, so to revoke the row found is to end it.      *)
LiveOnce(table) == \A r, s \in Live(table) : r.token = s.token => r = s

Once == LiveOnce(access) /\ LiveOnce(sessions) /\ LiveOnce(refresh)

(* A token that may still be exchanged has not been.                       *)
Unspent ==
    /\ \A r \in logins : r.token[2] <= issued /\ r.token[1] = "login"
    /\ \A r, s \in logins : r.token = s.token => r = s
    /\ \A t \in Tokens : t[2] > issued => exchanged[t] = 0
    /\ \A r \in Live(refresh) : exchanged[r.token] = 0
    /\ \A r \in logins : ~r.used => exchanged[r.token] = 0
    /\ SingleUse

(* Memory and rows have the same accounts, but for the password of a       *)
(* deactivated one, and the same devices.                                  *)
SameAccount(a, b) ==
    /\ a = NoUser <=> b = NoUser
    /\ a # NoUser =>
          /\ a.locked = b.locked /\ a.suspended = b.suspended /\ a.deactivated = b.deactivated
          /\ a.pw = b.pw \/ a.deactivated

AccountsSame == \A u \in Users : SameAccount(users[u], stored[u])

Mirrored == cached = devices /\ AccountsSame

(* Whoever has a live access token has an account,                         *)
Homed == \A r \in Live(access) \cup Live(sessions) : users[r.user] # NoUser

(* and whoever was signed out has none.                                    *)
Ended ==
    /\ \A r \in Live(access) \cup Live(sessions) : r.token \notin loggedOut
    /\ \A r \in Live(access) \cup Live(sessions) \cup Live(refresh) : r.user \notin closed
    /\ \A u \in closed : users[u] # NoUser /\ users[u].deactivated

(* CredentialsMirrored, row by row.                                        *)
Same(r, s) == r.user = s.user /\ r.device = s.device /\ r.token = s.token /\ r.ver = s.ver

Paired ==
    /\ \A s \in Live(sessions) : \E r \in Live(access) : Same(r, s)
    /\ \A r \in Live(access) : \E s \in Live(sessions) : Same(r, s)
    /\ \A r \in Live(access) \cup Live(refresh) : <<r.user, r.device>> \in devices
    /\ \A r \in Live(refresh) : \E s \in Live(sessions) : s.user = r.user /\ s.device = r.device

Faultless == faults = 0 => Paired

IInv == TypeOK /\ Numbered /\ Once /\ Unspent /\ Mirrored /\ Homed /\ Ended /\ Faultless

(* What a step owes RevocationIsOneWay.                                    *)
Kept == \A r \in access \cup refresh : r.revoked => r \in access' \cup refresh'

(* The commits of a step that fail can be counted.                         *)
Counted(fail) ==
    /\ Cardinality(fail) \in Nat
    /\ Cardinality(fail) = 0 => fail = {}
    /\ faults + Cardinality(fail) <= MaxFaults

-----------------------------------------------------------------------------
(* Rows.                                                                   *)

(* The numbers of tokens.                                                  *)
LEMMA TokenFacts ==
    /\ \A t \in Tokens : t[2] \in Nat
    /\ \A kind \in {"access", "refresh", "login"} :
          /\ \A n \in Grants : <<kind, n>> \in Tokens
          /\ \A t \in TokensOf(kind) : t \in Tokens /\ t[1] = kind
<1>1. Grants \subseteq Nat
  BY Bounds DEF Grants
<1>2. \A kind : \A t \in TokensOf(kind) : t[1] = kind /\ t[2] \in Nat
  BY <1>1, Zenon DEF TokensOf
<1>3. \A kind : \A n \in Grants : <<kind, n>> \in TokensOf(kind)
  BY DEF TokensOf
<1>4. \A kind \in {"access", "refresh", "login"} : TokensOf(kind) \subseteq Tokens
  BY Zenon DEF Tokens
<1>5. \A t \in Tokens : t[2] \in Nat
  BY <1>2, Zenon DEF Tokens
<1> QED BY <1>2, <1>3, <1>4, <1>5, Zenon

(* A handler's credential is a live row of its own.                        *)
LEMMA NewCredential ==
    ASSUME issued \in Nat, issued + 1 <= MaxGrants,
           NEW kind \in {"access", "refresh"}, NEW u \in Users, NEW d \in Devices, NEW ttl \in BOOLEAN
    PROVE  LET r == Credential(kind, u, d, ttl)
           IN  /\ r \in Credentials /\ ~r.revoked
               /\ r.user = u /\ r.device = d /\ r.token = <<kind, issued + 1>>
<1>1. <<kind, issued + 1>> \in Tokens
  BY TokenFacts, Bounds DEF Grants
<1> QED BY <1>1 DEF Credential, Credentials

(* A revoked row is a row.                                                 *)
LEMMA DeadRow ==
    ASSUME NEW r \in Credentials
    PROVE  LET dead == [r EXCEPT !.revoked = TRUE]
           IN  dead \in Credentials /\ dead.revoked = TRUE /\ (r.revoked => dead = r)
<1>1. r.revoked \in BOOLEAN
  BY DEF Credentials
<1>2. r.revoked => r.revoked = TRUE
  BY <1>1, Zenon
<1>3. [r EXCEPT !.revoked = TRUE] \in Credentials
  BY Zenon DEF Credentials
<1>4. [r EXCEPT !.revoked = TRUE].revoked = TRUE
  BY Zenon DEF Credentials
<1>5. r.revoked = TRUE => [r EXCEPT !.revoked = TRUE] = r
  BY Zenon DEF Credentials
<1> QED BY <1>2, <1>3, <1>4, <1>5, Zenon

(* The revoke_*() functions end the rows they match, and no others; what   *)
(* was revoked stays in the table.                                         *)
RevokedTo(ok, table, match, new) ==
    /\ new \in SUBSET Credentials
    /\ Live(new) \subseteq Live(table)
    /\ ok => Live(new) = Live(table) \ match
    /\ ~ok => new = table
    /\ \A r \in table : r.revoked => r \in new

(* That is what Revoke() does, whether its UPDATE succeeds or fails.       *)
LEMMA Revoking ==
    ASSUME NEW ok, NEW table, NEW match, table \in SUBSET Credentials, match \in SUBSET table
    PROVE  RevokedTo(ok, table, match, Revoke(ok, table, match))
<1>1. CASE ~ok
  BY <1>1, Zenon DEF Revoke, RevokedTo
<1>2. CASE ok
  <2> DEFINE dead(r) == [r EXCEPT !.revoked = TRUE]
             T == Revoke(ok, table, match)
  <2>1. \A r \in table : dead(r) \in Credentials /\ dead(r).revoked = TRUE /\ (r.revoked => dead(r) = r)
    BY DeadRow, Zenon
  <2>2. \A x : x \in T <=> (x \in table /\ x \notin match) \/ (\E r \in match : x = dead(r))
    BY <1>2, Zenon DEF Revoke
  <2> HIDE DEF dead, T
  <2>3. \A r \in match : dead(r).revoked
    BY <2>1, Zenon
  <2>4. \A x \in T : x \in Credentials
    BY <2>1, <2>2
  <2>5. \A x : x \in Live(T) <=> x \in Live(table) /\ x \notin match
    BY <2>2, <2>3, Zenon DEF Live
  <2>6. \A r \in table : r.revoked => r \in T
    <3> SUFFICES ASSUME NEW r \in table, r.revoked PROVE r \in T
      BY Zenon
    <3>1. dead(r) = r
      BY <2>1, Zenon
    <3> QED BY <2>2, <3>1, Zenon
  <2> QED BY <1>2, <2>4, <2>5, <2>6, Zenon DEF T, RevokedTo
<1> QED BY <1>1, <1>2, Zenon

(* The rows of a device, and of a user.                                    *)
LEMMA Chosen ==
    ASSUME NEW table, NEW s
    PROVE  /\ OfUser(table, s) \in SUBSET table
           /\ OfDevice(table, s) \in SUBSET table
           /\ \A r \in table : r \in OfUser(table, s) <=> r.user = s.user
           /\ \A r \in table : r \in OfDevice(table, s) <=> r.user = s.user /\ r.device = s.device
  BY Zenon DEF OfUser, OfDevice

(* A row added to a table is live, and nothing else changes.               *)
LEMMA Adding ==
    ASSUME NEW table, NEW row, ~row.revoked
    PROVE  Live(table \cup {row}) = Live(table) \cup {row}
  BY Zenon DEF Live

(* The number of failed commits stays within its bound.                    *)
LEMMA Counting ==
    ASSUME TypeOK, NEW fail, Counted(fail), Commits(fail)
    PROVE  faults' \in 0 .. MaxFaults /\ (faults' = 0 => faults = 0 /\ fail = {})
  BY Bounds DEF TypeOK, Counted, Commits

-----------------------------------------------------------------------------
(* The invariant's parts, for the steps that revoke and those that grant.  *)

(* No handler reopens or forgets an account.                               *)
AccountsKept ==
    \A u \in Users : users[u] # NoUser =>
        users'[u] # NoUser /\ (users[u].deactivated => users'[u].deactivated)

(* An account is changed alike in memory and in its row.                   *)
LEMMA AccountStep ==
    ASSUME TypeOK, Mirrored, NEW u \in Users,
           NEW a \in Accounts, NEW b \in Accounts, SameAccount(a, b),
           users' = [users EXCEPT ![u] = a], stored' = [stored EXCEPT ![u] = b],
           users[u] # NoUser => (users[u].deactivated => a.deactivated)
    PROVE  /\ users' \in [Users -> Accounts \cup {NoUser}]
           /\ stored' \in [Users -> Accounts \cup {NoUser}]
           /\ users'[u] = a /\ AccountsSame' /\ AccountsKept
<1>1. /\ users \in [Users -> Accounts \cup {NoUser}]
      /\ stored \in [Users -> Accounts \cup {NoUser}]
  BY Zenon DEF TypeOK
<1>2. a # NoUser
  BY Absence, Zenon
<1>3. \A w \in Users : users'[w] = (IF w = u THEN a ELSE users[w])
                    /\ stored'[w] = (IF w = u THEN b ELSE stored[w])
  BY <1>1, Zenon
<1>4. AccountsSame'
  BY <1>3, Zenon DEF Mirrored, AccountsSame
<1>5. AccountsKept
  BY <1>2, <1>3, Zenon DEF AccountsKept
<1>6. users' \in [Users -> Accounts \cup {NoUser}] /\ stored' \in [Users -> Accounts \cup {NoUser}]
  BY <1>1
<1> QED BY <1>3, <1>4, <1>5, <1>6, Zenon

(* Credentials belong to users and have tokens.                            *)
LEMMA Typed ==
    ASSUME TypeOK
    PROVE  \A r \in Live(access) \cup Live(sessions) \cup Live(refresh) :
               /\ r \in Credentials
               /\ r.user \in Users /\ r.device \in Devices /\ r.token \in Tokens /\ r.token[2] \in Nat
<1>1. \A r \in Credentials : r.user \in Users /\ r.device \in Devices /\ r.token \in Tokens
  BY DEF Credentials
<1> QED BY <1>1, TokenFacts, Zenon DEF TypeOK, Live

(* A step that only revokes.                                               *)
LEMMA Shrinking ==
    ASSUME Numbered, Once, Unspent,
           Live(access') \subseteq Live(access), Live(sessions') \subseteq Live(sessions),
           Live(refresh') \subseteq Live(refresh),
           issued' = issued, logins' = logins, exchanged' = exchanged,
           \A t \in loggedOut' : t[2] <= issued
    PROVE  Numbered' /\ Once' /\ Unspent'
<1>1. Numbered'
  BY Zenon DEF Numbered
<1>2. Once'
  BY Zenon DEF Once, LiveOnce
<1>3. Unspent'
  BY Zenon DEF Unspent, SingleUse
<1> QED BY <1>1, <1>2, <1>3, Zenon

(* A step that ends credentials and adds none signs no one in again.       *)
LEMMA StillEnded ==
    ASSUME TypeOK, Homed, Ended, AccountsKept,
           Live(access') \subseteq Live(access), Live(sessions') \subseteq Live(sessions),
           Live(refresh') \subseteq Live(refresh),
           loggedOut' = loggedOut, closed' = closed
    PROVE  Homed' /\ Ended'
<1>1. Homed'
  BY Typed DEF Homed, AccountsKept
<1>2. \A u \in closed : u \in Users
  BY Zenon DEF TypeOK
<1>3. Ended'
  BY <1>2, Zenon DEF Ended, AccountsKept
<1> QED BY <1>1, <1>3, Zenon

(* A step that grants a session, and perhaps a refresh token, to a user    *)
(* whose account is open.                                                  *)
LEMMA Growing ==
    ASSUME TypeOK, Numbered, Once, Homed, Ended, AccountsKept,
           NEW u \in Users, NEW a, NEW b,
           a.user = u, b.user = u, a.token = <<"access", issued + 1>>, b.token = <<"refresh", issued + 1>>,
           Live(access') \subseteq Live(access) \cup {a}, Live(sessions') \subseteq Live(sessions) \cup {a},
           Live(refresh') \subseteq Live(refresh) \cup {b},
           issued' = issued + 1, loggedOut' = loggedOut, closed' = closed,
           u \notin closed, users'[u] # NoUser
    PROVE  Numbered' /\ Once' /\ Homed' /\ Ended'
<1>1. issued \in Nat /\ closed \subseteq Users /\ loggedOut \subseteq Tokens
  BY Bounds DEF TypeOK
<1>2. a.token[2] = issued + 1 /\ b.token[2] = issued + 1 /\ b.token[1] = "refresh"
  OBVIOUS
<1>3. \A r \in Live(access) \cup Live(sessions) \cup Live(refresh) :
         r.token[2] <= issued + 1 /\ r.token # a.token /\ r.token # b.token
  BY <1>1, <1>2, Typed DEF Numbered
<1>4. \A t \in loggedOut : t[2] <= issued + 1 /\ t # a.token
  BY <1>1, <1>2, TokenFacts DEF Numbered
<1>5. a.token[2] <= issued + 1 /\ b.token[2] <= issued + 1
  BY <1>1, <1>2
<1>6. Numbered'
  BY <1>2, <1>3, <1>4, <1>5, Zenon DEF Numbered
<1>7. Once'
  BY <1>3, Zenon DEF Once, LiveOnce
<1>8. Homed'
  BY Typed, Zenon DEF Homed, AccountsKept
<1>9. Ended'
  <2>1. \A w \in closed : users'[w] # NoUser /\ users'[w].deactivated
    BY <1>1, Zenon DEF Ended, AccountsKept
  <2>2. \A r \in Live(access') \cup Live(sessions') : r.token \notin loggedOut
    BY <1>4, Zenon DEF Ended
  <2>3. \A r \in Live(access') \cup Live(sessions') \cup Live(refresh') : r.user \notin closed
    BY Zenon DEF Ended
  <2> QED BY <2>1, <2>2, <2>3, Zenon DEF Ended
<1> QED BY <1>6, <1>7, <1>8, <1>9, Zenon

(* The next refresh token has not been exchanged.                          *)
LEMMA FreshToken ==
    ASSUME TypeOK, Unspent, issued + 1 <= MaxGrants
    PROVE  <<"refresh", issued + 1>> \in Tokens /\ exchanged[<<"refresh", issued + 1>>] = 0
<1>1. issued + 1 \in Grants
  BY Bounds DEF Grants, TypeOK
<1>2. <<"refresh", issued + 1>> \in Tokens
  BY <1>1, TokenFacts, Zenon
<1>3. <<"refresh", issued + 1>>[2] > issued
  BY Bounds DEF TypeOK
<1> QED BY <1>2, <1>3, Zenon DEF Unspent

(* A step that exchanges no token.                                         *)
LEMMA StillUnspent ==
    ASSUME TypeOK, Unspent, issued' \in {issued, issued + 1}, issued' <= MaxGrants,
           \A r \in Live(refresh') :
               \/ r \in Live(refresh)
               \/ issued' = issued + 1 /\ r.token = <<"refresh", issued + 1>>,
           logins' = logins, exchanged' = exchanged
    PROVE  Unspent'
<1>1. issued \in Nat
  BY Bounds DEF TypeOK
<1>2. \A r \in logins : r.token \in Tokens
  BY DEF TypeOK, LoginTokens
<1>3. \A r \in logins : r.token[2] <= issued'
  BY <1>1, <1>2, TokenFacts DEF Unspent
<1>4. \A t \in Tokens : t[2] > issued' => exchanged[t] = 0
  BY <1>1, TokenFacts DEF Unspent
<1>5. issued' = issued + 1 => exchanged[<<"refresh", issued + 1>>] = 0
  BY FreshToken, Zenon
<1>6. \A r \in Live(refresh') : exchanged[r.token] = 0
  BY <1>5, Zenon DEF Unspent
<1> QED BY <1>3, <1>4, <1>6, Zenon DEF Unspent, SingleUse

(* A step that exchanges one.                                              *)
LEMMA Spending ==
    ASSUME TypeOK, Unspent, NEW t \in Tokens, exchanged[t] = 0, t[2] <= issued,
           exchanged' = [exchanged EXCEPT ![t] = @ + 1], issued' \in {issued, issued + 1}
    PROVE  /\ exchanged' \in [Tokens -> Nat] /\ SingleUse'
           /\ \A x \in Tokens : x[2] > issued' => exchanged'[x] = 0
           /\ \A x \in Tokens : x # t => exchanged'[x] = exchanged[x]
<1>1. issued \in Nat /\ exchanged \in [Tokens -> Nat]
  BY Bounds DEF TypeOK
<1>2. exchanged' \in [Tokens -> Nat] /\ exchanged'[t] = 1
  BY <1>1
<1>3. \A x \in Tokens : x # t => exchanged'[x] = exchanged[x]
  BY <1>1
<1>4. SingleUse'
  BY <1>2, <1>3 DEF Unspent, SingleUse
<1>5. \A x \in Tokens : x[2] > issued' => x[2] > issued /\ x # t
  BY <1>1, TokenFacts
<1>6. \A x \in Tokens : x[2] > issued' => exchanged'[x] = 0
  BY <1>3, <1>5, Zenon DEF Unspent
<1> QED BY <1>2, <1>3, <1>4, <1>6, Zenon

(* Memory and rows lose the same devices.                                  *)
LEMMA PairedCut ==
    ASSUME Paired, NEW H,
           Live(access') = {r \in Live(access) : <<r.user, r.device>> \notin H},
           Live(sessions') = {r \in Live(sessions) : <<r.user, r.device>> \notin H},
           Live(refresh') = {r \in Live(refresh) : <<r.user, r.device>> \notin H},
           \A e \in devices : e \notin H => e \in devices'
    PROVE  Paired'
<1>1. \A s \in Live(sessions') : \E r \in Live(access') : Same(r, s)
  BY ZenonT(30) DEF Paired, Same
<1>2. \A r \in Live(access') : \E s \in Live(sessions') : Same(r, s)
  BY ZenonT(30) DEF Paired, Same
<1>3. \A r \in Live(access') \cup Live(refresh') : <<r.user, r.device>> \in devices'
  BY Zenon DEF Paired
<1>4. \A r \in Live(refresh') : \E s \in Live(sessions') : s.user = r.user /\ s.device = r.device
  BY Zenon DEF Paired
<1> QED BY <1>1, <1>2, <1>3, <1>4, Zenon DEF Paired

(* Memory and rows gain the same session, and its device.                  *)
LEMMA PairedGrown ==
    ASSUME Paired, NEW u, NEW d, NEW a, NEW b,
           a.user = u, a.device = d, b.user = u, b.device = d,
           Live(access') = Live(access) \cup {a}, Live(sessions') = Live(sessions) \cup {a},
           Live(refresh') \subseteq Live(refresh) \cup {b}, devices' = devices \cup {<<u, d>>}
    PROVE  Paired'
<1>1. \A s \in Live(sessions') : \E r \in Live(access') : Same(r, s)
  BY Zenon DEF Paired, Same
<1>2. \A r \in Live(access') : \E s \in Live(sessions') : Same(r, s)
  BY Zenon DEF Paired, Same
<1>3. \A r \in Live(access') \cup Live(refresh') : <<r.user, r.device>> \in devices'
  BY Zenon DEF Paired
<1>4. \A r \in Live(refresh') : \E s \in Live(sessions') : s.user = r.user /\ s.device = r.device
  BY Zenon DEF Paired
<1> QED BY <1>1, <1>2, <1>3, <1>4, Zenon DEF Paired

(* A step that leaves the credentials alone.                               *)
LEMMA Resting ==
    ASSUME Numbered, Once, Unspent, Homed, Ended, TypeOK, AccountsKept,
           UNCHANGED <<access, refresh, sessions, devices, logins, issued, answers>>
    PROVE  Numbered' /\ Once' /\ Unspent' /\ Homed' /\ Ended' /\ (Paired => Paired') /\ Kept
<1> USE DEF answers
<1>1. \A t \in loggedOut' : t[2] <= issued
  BY Zenon DEF Numbered
<1>2. Numbered' /\ Once' /\ Unspent'
  BY <1>1, Shrinking, Zenon
<1>3. Homed' /\ Ended'
  BY StillEnded, Zenon
<1>4. Paired => Paired'
  BY Zenon DEF Paired
<1>5. Kept
  BY Zenon DEF Kept
<1> QED BY <1>2, <1>3, <1>4, <1>5, Zenon

-----------------------------------------------------------------------------
(* The handlers that grant.                                                *)

(* GrantSession() by a handler that issues tokens, with or without a       *)
(* refresh token.                                                          *)
LEMMA GrantStep ==
    ASSUME TypeOK, Numbered, Once, Homed, Ended, AccountsKept,
           NEW u \in Users, NEW d \in Devices, NEW ttl \in BOOLEAN,
           GrantSession(u, d, ttl), IssueTokens(MaxLogins),
           refresh' = refresh \/ refresh' = refresh \cup {Credential("refresh", u, d, TRUE)},
           loggedOut' = loggedOut, closed' = closed, u \notin closed, users'[u] # NoUser
    PROVE  /\ devices' \subseteq Users \X Devices /\ cached' \subseteq Users \X Devices
           /\ access' \subseteq Credentials /\ refresh' \subseteq Credentials /\ sessions' \subseteq Credentials
           /\ issued' \in 0 .. MaxGrants /\ issued' = issued + 1
           /\ cached = devices => cached' = devices'
           /\ Numbered' /\ Once' /\ Homed' /\ Ended' /\ (Paired => Paired') /\ Kept
           /\ \A r \in Live(refresh') : r \in Live(refresh) \/ r.token = <<"refresh", issued + 1>>
<1> DEFINE a == Credential("access", u, d, ttl)
           b == Credential("refresh", u, d, TRUE)
<1>1. issued \in Nat /\ issued + 1 <= MaxGrants /\ issued' = issued + 1 /\ issued' \in 0 .. MaxGrants
  BY Bounds DEF TypeOK, IssueTokens
<1>2. a \in Credentials /\ ~a.revoked /\ a.user = u /\ a.device = d /\ a.token = <<"access", issued + 1>>
  BY <1>1, NewCredential
<1>3. b \in Credentials /\ ~b.revoked /\ b.user = u /\ b.device = d /\ b.token = <<"refresh", issued + 1>>
  BY <1>1, NewCredential, ZenonT(30)
<1>4. /\ devices' = devices \cup {<<u, d>>} /\ cached' = cached \cup {<<u, d>>}
      /\ access' = access \cup {a} /\ sessions' = sessions \cup {a}
  BY Zenon DEF GrantSession
<1>5. refresh' = refresh \/ refresh' = refresh \cup {b}
  BY Zenon
<1> HIDE DEF a, b
<1>6. Live(access') = Live(access) \cup {a} /\ Live(sessions') = Live(sessions) \cup {a}
  BY <1>2, <1>4, Adding, Zenon
<1>7. Live(refresh') = Live(refresh) \/ Live(refresh') = Live(refresh) \cup {b}
  BY <1>3, <1>5, Adding
<1>8. Live(refresh') \subseteq Live(refresh) \cup {b}
  BY <1>7, Zenon
<1>9. Numbered' /\ Once' /\ Homed' /\ Ended'
  <2>1. Live(access') \subseteq Live(access) \cup {a} /\ Live(sessions') \subseteq Live(sessions) \cup {a}
    BY <1>6, Zenon
  <2> QED BY <1>1, <1>2, <1>3, <1>8, <2>1, Growing, Zenon
<1>10. Paired => Paired'
  BY <1>2, <1>3, <1>4, <1>6, <1>8, PairedGrown, Zenon
<1>11. /\ devices' \subseteq Users \X Devices /\ cached' \subseteq Users \X Devices
       /\ access' \subseteq Credentials /\ refresh' \subseteq Credentials /\ sessions' \subseteq Credentials
  <2>1. <<u, d>> \in Users \X Devices
    BY Zenon
  <2> QED BY <1>2, <1>3, <1>4, <1>5, <2>1, Zenon DEF TypeOK
<1>12. Kept
  BY <1>4, <1>5, Zenon DEF Kept
<1>13. \A r \in Live(refresh') : r \in Live(refresh) \/ r.token = <<"refresh", issued + 1>>
  BY <1>3, <1>8, Zenon
<1>14. cached = devices => cached' = devices'
  BY <1>4, Zenon
<1> QED BY <1>1, <1>9, <1>10, <1>11, <1>12, <1>13, <1>14, Zenon

(* POST /register.                                                         *)
LEMMA RegisterStep ==
    ASSUME IInv, NEW u \in Users, NEW p \in Passwords, NEW d \in Devices, NEW quiet \in BOOLEAN,
           NEW fail, Counted(fail), Register(u, p, d, quiet, fail)
    PROVE  IInv' /\ Kept
<1>1. TypeOK /\ Numbered /\ Once /\ Unspent /\ Mirrored /\ Homed /\ Ended /\ Faultless
  BY Zenon DEF IInv
<1>2. /\ loggedOut' = loggedOut /\ closed' = closed /\ exchanged' = exchanged /\ past' = past
      /\ users[u] = NoUser /\ Commits(fail)
  BY Zenon DEF Register, answers
<1>3. faults' \in 0 .. MaxFaults /\ (faults' = 0 => faults = 0 /\ fail = {})
  BY <1>1, <1>2, Counting, Zenon
<1>4. CASE "user" \in fail
  <2>1. UNCHANGED <<rows, memory, issued>>
    BY <1>4, Zenon DEF Register
  <2>2. UNCHANGED <<users, stored, devices, cached, access, refresh, logins, sessions, issued, answers>>
    BY <1>2, <2>1, Zenon DEF rows, memory, answers
  <2>3. AccountsKept
    BY <2>2, Zenon DEF AccountsKept
  <2>4. Numbered' /\ Once' /\ Unspent' /\ Homed' /\ Ended' /\ (Paired => Paired') /\ Kept
    BY <1>1, <2>2, <2>3, Resting, Zenon
  <2>5. Mirrored'
    BY <1>1, <2>2, Zenon DEF Mirrored, AccountsSame
  <2>6. TypeOK'
    BY <1>1, <1>2, <1>3, <2>2, Zenon DEF TypeOK
  <2> QED BY <1>1, <1>3, <2>4, <2>5, <2>6, Zenon DEF IInv, Faultless
<1>5. CASE "user" \notin fail
  <2>1. /\ stored' = [stored EXCEPT ![u] = NewAccount(p)]
        /\ users' = [users EXCEPT ![u] = NewAccount(p)]
        /\ refresh' = refresh /\ logins' = logins
    BY <1>5, Zenon DEF Register
  <2>2. NewAccount(p) \in Accounts
    BY DEF NewAccount, Accounts
  <2>3. SameAccount(NewAccount(p), NewAccount(p))
    BY Zenon DEF SameAccount
  <2>4. /\ users' \in [Users -> Accounts \cup {NoUser}] /\ stored' \in [Users -> Accounts \cup {NoUser}]
        /\ users'[u] # NoUser /\ AccountsSame' /\ AccountsKept
    BY <1>1, <1>2, <2>1, <2>2, <2>3, AccountStep, Absence, Zenon
  <2>5. u \notin closed
    BY <1>1, <1>2, Zenon DEF Ended
  <2>6. CASE quiet \/ "session" \in fail
    <3>1. UNCHANGED <<devices, access, sessions, cached, issued>>
      BY <1>5, <2>6, Zenon DEF Register
    <3>2. UNCHANGED <<access, refresh, sessions, devices, logins, issued, answers>>
      BY <1>2, <2>1, <3>1, Zenon DEF answers
    <3>3. Numbered' /\ Once' /\ Unspent' /\ Homed' /\ Ended' /\ (Paired => Paired') /\ Kept
      BY <1>1, <2>4, <3>2, Resting, Zenon
    <3>4. Mirrored'
      BY <1>1, <2>4, <3>1, Zenon DEF Mirrored
    <3>5. TypeOK'
      BY <1>1, <1>2, <1>3, <2>1, <2>4, <3>1, Zenon DEF TypeOK
    <3> QED BY <1>1, <1>3, <3>3, <3>4, <3>5, Zenon DEF IInv, Faultless
  <2>7. CASE ~(quiet \/ "session" \in fail)
    <3>1. GrantSession(u, d, FALSE) /\ IssueTokens(MaxLogins)
      BY <1>5, <2>7, Zenon DEF Register
    <3>2. /\ devices' \subseteq Users \X Devices /\ cached' \subseteq Users \X Devices
          /\ access' \subseteq Credentials /\ refresh' \subseteq Credentials /\ sessions' \subseteq Credentials
          /\ issued' \in 0 .. MaxGrants /\ issued' = issued + 1
          /\ cached = devices => cached' = devices'
          /\ Numbered' /\ Once' /\ Homed' /\ Ended' /\ (Paired => Paired') /\ Kept
          /\ \A r \in Live(refresh') : r \in Live(refresh) \/ r.token = <<"refresh", issued + 1>>
      BY <1>1, <1>2, <2>1, <2>4, <2>5, <3>1, GrantStep, Zenon
    <3>3. Unspent'
      <4>1. issued' <= MaxGrants
        BY <3>2, Bounds
      <4> QED BY <1>1, <1>2, <2>1, <3>2, <4>1, StillUnspent, Zenon
    <3>4. Mirrored'
      BY <1>1, <2>4, <3>2, Zenon DEF Mirrored
    <3>5. TypeOK'
      BY <1>1, <1>2, <1>3, <2>1, <2>4, <3>2, Zenon DEF TypeOK
    <3> QED BY <1>1, <1>3, <3>2, <3>3, <3>4, <3>5, Zenon DEF IInv, Faultless
  <2> QED BY <2>6, <2>7, Zenon
<1> QED BY <1>4, <1>5, Zenon

(* What the three kinds of POST /login have in common.                     *)
LEMMA LoginStep ==
    ASSUME IInv, NEW u \in Users, NEW d \in Devices, NEW ttl \in BOOLEAN, NEW fail,
           Login(u, d, ttl, fail), UNCHANGED <<stored, users, loggedOut, closed>>
    PROVE  /\ devices' \subseteq Users \X Devices /\ cached' \subseteq Users \X Devices
           /\ access' \subseteq Credentials /\ refresh' \subseteq Credentials /\ sessions' \subseteq Credentials
           /\ issued' \in 0 .. MaxGrants /\ issued' \in {issued, issued + 1} /\ issued' <= MaxGrants
           /\ Numbered' /\ Once' /\ Mirrored' /\ Homed' /\ Ended' /\ (Paired => Paired') /\ Kept
           /\ \A r \in Live(refresh') :
                  \/ r \in Live(refresh)
                  \/ issued' = issued + 1 /\ r.token = <<"refresh", issued + 1>>
<1>1. TypeOK /\ Numbered /\ Once /\ Unspent /\ Mirrored /\ Homed /\ Ended
  BY Zenon DEF IInv
<1>2. AccountsKept /\ AccountsSame'
  BY <1>1, Zenon DEF AccountsKept, AccountsSame, Mirrored
<1>3. CASE ~LoginAllowed(users[u]) \/ "session" \in fail
  <2>1. UNCHANGED <<devices, access, refresh, sessions, cached, issued>>
    BY <1>3, Zenon DEF Login
  <2>2. Numbered' /\ Once' /\ Homed' /\ Ended'
    BY <1>1, <2>1, Zenon DEF Numbered, Once, LiveOnce, Homed, Ended
  <2>3. Kept /\ (Paired => Paired')
    BY <2>1, Zenon DEF Kept, Paired
  <2>4. Mirrored'
    BY <1>1, <1>2, <2>1, Zenon DEF Mirrored
  <2>5. issued' <= MaxGrants
    BY <1>1, <2>1, Bounds DEF TypeOK
  <2> QED BY <1>1, <2>1, <2>2, <2>3, <2>4, <2>5, Zenon DEF TypeOK
<1>4. CASE ~(~LoginAllowed(users[u]) \/ "session" \in fail)
  <2>1. /\ GrantSession(u, d, ttl) /\ IssueTokens(MaxLogins)
        /\ refresh' = IF ttl /\ "refresh" \notin fail
                      THEN refresh \cup {Credential("refresh", u, d, TRUE)} ELSE refresh
    BY <1>4, Zenon DEF Login
  <2>2. refresh' = refresh \/ refresh' = refresh \cup {Credential("refresh", u, d, TRUE)}
    BY <2>1, Zenon
  <2>3. users'[u] # NoUser /\ u \notin closed
    BY <1>1, <1>4, Zenon DEF LoginAllowed, Ended
  <2>4. /\ devices' \subseteq Users \X Devices /\ cached' \subseteq Users \X Devices
        /\ access' \subseteq Credentials /\ refresh' \subseteq Credentials /\ sessions' \subseteq Credentials
        /\ issued' \in 0 .. MaxGrants /\ issued' = issued + 1
        /\ cached = devices => cached' = devices'
        /\ Numbered' /\ Once' /\ Homed' /\ Ended' /\ (Paired => Paired') /\ Kept
        /\ \A r \in Live(refresh') : r \in Live(refresh) \/ r.token = <<"refresh", issued + 1>>
    BY <1>1, <1>2, <2>1, <2>2, <2>3, GrantStep, Zenon
  <2>5. Mirrored'
    BY <1>1, <1>2, <2>4, Zenon DEF Mirrored
  <2>6. issued' <= MaxGrants
    BY <2>4, Bounds
  <2> QED BY <2>4, <2>5, <2>6, Zenon
<1> QED BY <1>3, <1>4, Zenon

(* POST /login with a password, and for an application service.            *)
LEMMA LoginDone ==
    ASSUME IInv, NEW u \in Users, NEW d \in Devices, NEW ttl \in BOOLEAN, NEW fail,
           Counted(fail), Commits(fail), Login(u, d, ttl, fail),
           UNCHANGED <<stored, users, logins, answers, past>>
    PROVE  IInv' /\ Kept
<1>1. TypeOK /\ Unspent /\ Faultless
  BY Zenon DEF IInv
<1>2. faults' \in 0 .. MaxFaults /\ (faults' = 0 => faults = 0 /\ fail = {})
  BY <1>1, Counting, Zenon
<1>3. UNCHANGED <<stored, users, logins, loggedOut, closed, exchanged, past>>
  BY Zenon DEF answers
<1>4. /\ devices' \subseteq Users \X Devices /\ cached' \subseteq Users \X Devices
      /\ access' \subseteq Credentials /\ refresh' \subseteq Credentials /\ sessions' \subseteq Credentials
      /\ issued' \in 0 .. MaxGrants /\ issued' \in {issued, issued + 1} /\ issued' <= MaxGrants
      /\ Numbered' /\ Once' /\ Mirrored' /\ Homed' /\ Ended' /\ (Paired => Paired') /\ Kept
      /\ \A r \in Live(refresh') :
             \/ r \in Live(refresh)
             \/ issued' = issued + 1 /\ r.token = <<"refresh", issued + 1>>
  BY <1>3, LoginStep, Zenon
<1>5. Unspent'
  BY <1>1, <1>3, <1>4, StillUnspent, Zenon
<1>6. TypeOK'
  BY <1>1, <1>2, <1>3, <1>4, Zenon DEF TypeOK
<1> QED BY <1>1, <1>2, <1>4, <1>5, <1>6, Zenon DEF IInv, Faultless

(* complete_sso_login().                                                   *)
LEMMA MintStep ==
    ASSUME IInv, NEW u \in Users, NEW fail, Counted(fail), MintLoginToken(u, fail)
    PROVE  IInv' /\ Kept
<1> DEFINE n == [user |-> u, token |-> <<"login", issued + 1>>, used |-> FALSE]
<1>1. TypeOK /\ Numbered /\ Once /\ Unspent /\ Mirrored /\ Homed /\ Ended /\ Faultless
  BY Zenon DEF IInv
<1>2. /\ UNCHANGED <<stored, devices, access, refresh, users, cached, sessions>>
      /\ UNCHANGED <<loggedOut, closed, exchanged, past>>
      /\ Commits(fail) /\ IssueTokens(MaxLogins)
      /\ logins' = logins \/ logins' = logins \cup {n}
  BY Zenon DEF MintLoginToken, memory, answers
<1>3. faults' \in 0 .. MaxFaults /\ (faults' = 0 => faults = 0 /\ fail = {})
  BY <1>1, <1>2, Counting, Zenon
<1>4. /\ issued \in Nat /\ issued' = issued + 1 /\ issued' \in 0 .. MaxGrants /\ issued + 1 \in Grants
  BY <1>1, <1>2, Bounds DEF TypeOK, IssueTokens, Grants
<1>5. <<"login", issued + 1>> \in Tokens
  BY <1>4, TokenFacts, Zenon
<1>6. n \in LoginTokens /\ n.token = <<"login", issued + 1>> /\ n.token[1] = "login" /\ n.token[2] = issued + 1
  BY <1>5 DEF LoginTokens
<1> HIDE DEF n
<1>7. TypeOK'
  BY <1>1, <1>2, <1>3, <1>4, <1>6, Zenon DEF TypeOK
<1>8. Numbered'
  <2>1. \A r \in Live(access) \cup Live(sessions) \cup Live(refresh) : r.token[2] <= issued + 1
    BY <1>1, <1>4, Typed DEF Numbered
  <2>2. \A t \in loggedOut : t[2] <= issued + 1
    BY <1>1, <1>4, TokenFacts DEF Numbered, TypeOK
  <2> QED BY <1>1, <1>2, <1>4, <2>1, <2>2, Zenon DEF Numbered
<1>9. Unspent'
  <2>1. \A r \in logins : r.token \in Tokens
    BY <1>1 DEF TypeOK, LoginTokens
  <2>2. \A r \in logins : r.token[2] <= issued + 1 /\ r.token # n.token
    BY <1>1, <1>4, <1>6, <2>1, TokenFacts DEF Unspent
  <2>3. n.token[2] <= issued + 1
    BY <1>4, <1>6
  <2>4. \A t \in Tokens : t[2] > issued + 1 => t[2] > issued
    BY <1>4, TokenFacts
  <2>5. n.token[2] > issued
    BY <1>4, <1>6
  <2>6. exchanged[n.token] = 0
    BY <1>1, <1>5, <1>6, <2>5, Zenon DEF Unspent
  <2>7. \A r \in logins' : r.token[2] <= issued' /\ r.token[1] = "login"
    BY <1>1, <1>2, <1>4, <1>6, <2>2, <2>3, Zenon DEF Unspent
  <2>8. \A r, s \in logins' : r.token = s.token => r = s
    BY <1>1, <1>2, <2>2, Zenon DEF Unspent
  <2>9. \A r \in logins' : ~r.used => exchanged'[r.token] = 0
    BY <1>1, <1>2, <2>6, Zenon DEF Unspent
  <2>10. \A t \in Tokens : t[2] > issued' => exchanged'[t] = 0
    BY <1>1, <1>2, <1>4, <2>4, Zenon DEF Unspent
  <2> QED BY <1>1, <1>2, <2>7, <2>8, <2>9, <2>10, Zenon DEF Unspent, SingleUse
<1>10. Once' /\ Mirrored' /\ Homed' /\ Ended' /\ (Paired => Paired') /\ Kept
  BY <1>1, <1>2, Zenon DEF Once, LiveOnce, Mirrored, AccountsSame, Homed, Ended, Paired, Kept
<1> QED BY <1>1, <1>3, <1>7, <1>8, <1>9, <1>10, Zenon DEF IInv, Faultless

(* consume_login_token() on a row that is not used yet.                    *)
LEMMA ConsumeStep ==
    ASSUME TypeOK, Unspent, Numbered, NEW r \in logins, ~r.used,
           logins' = (logins \ {r}) \cup {[r EXCEPT !.used = TRUE]},
           exchanged' = [exchanged EXCEPT ![r.token] = @ + 1],
           issued' \in {issued, issued + 1}, issued' <= MaxGrants,
           \A c \in Live(refresh') :
               \/ c \in Live(refresh)
               \/ issued' = issued + 1 /\ c.token = <<"refresh", issued + 1>>
    PROVE  logins' \subseteq LoginTokens /\ exchanged' \in [Tokens -> Nat] /\ Unspent'
<1> DEFINE n == [r EXCEPT !.used = TRUE]
<1>1. issued \in Nat /\ r \in LoginTokens /\ logins \subseteq LoginTokens
  BY Bounds DEF TypeOK
<1>2. n \in LoginTokens /\ n.token = r.token /\ n.used = TRUE
  BY <1>1, Zenon DEF LoginTokens
<1>3. \A l \in LoginTokens : l.token \in Tokens
  BY DEF LoginTokens
<1>4. logins' = (logins \ {r}) \cup {n}
  BY Zenon
<1> HIDE DEF n
<1>5. r.token \in Tokens /\ exchanged[r.token] = 0 /\ r.token[2] <= issued /\ r.token[1] = "login"
  BY <1>1, <1>3, Zenon DEF Unspent
<1>6. /\ exchanged' \in [Tokens -> Nat] /\ SingleUse'
      /\ \A x \in Tokens : x[2] > issued' => exchanged'[x] = 0
      /\ \A x \in Tokens : x # r.token => exchanged'[x] = exchanged[x]
  BY <1>5, Spending, Zenon
<1>7. \A l \in logins : l.token[2] <= issued' /\ l.token[1] = "login"
  BY <1>1, <1>3, TokenFacts DEF Unspent
<1>8. \A l \in logins' : l.token[2] <= issued' /\ l.token[1] = "login"
  BY <1>2, <1>4, <1>7, Zenon
<1>9. \A l, m \in logins' : l.token = m.token => l = m
  BY <1>2, <1>4 DEF Unspent
<1>10. \A l \in logins' : ~l.used => exchanged'[l.token] = 0
  <2> SUFFICES ASSUME NEW l \in logins', ~l.used PROVE exchanged'[l.token] = 0
    BY Zenon
  <2>1. l \in logins /\ l # r
    BY <1>2, <1>4, Zenon
  <2>2. l.token # r.token /\ l.token \in Tokens /\ exchanged[l.token] = 0
    BY <1>1, <1>3, <2>1, Zenon DEF Unspent
  <2> QED BY <1>6, <2>2, Zenon
<1>11. \A c \in Live(refresh') : exchanged'[c.token] = 0
  <2> SUFFICES ASSUME NEW c \in Live(refresh') PROVE exchanged'[c.token] = 0
    BY Zenon
  <2>1. c.token \in Tokens /\ exchanged[c.token] = 0 /\ c.token[1] = "refresh"
    <3>1. CASE c \in Live(refresh)
      BY <3>1, Typed, Zenon DEF Unspent, Numbered
    <3>2. CASE issued' = issued + 1 /\ c.token = <<"refresh", issued + 1>>
      <4>1. issued + 1 <= MaxGrants
        BY <3>2, Zenon
      <4> QED BY <3>2, <4>1, FreshToken
    <3> QED BY <3>1, <3>2, Zenon
  <2>2. c.token # r.token
    BY <1>5, <2>1
  <2> QED BY <1>6, <2>1, <2>2, Zenon
<1>12. logins' \subseteq LoginTokens
  BY <1>1, <1>2, <1>4, Zenon
<1> QED BY <1>6, <1>8, <1>9, <1>10, <1>11, <1>12, Zenon DEF Unspent

(* POST /login with a login token.                                         *)
LEMMA TokenLoginStep ==
    ASSUME IInv, NEW t \in TokensOf("login"), NEW d \in Devices, NEW ttl \in BOOLEAN,
           NEW fail, Counted(fail), TokenLogin(t, d, ttl, fail)
    PROVE  IInv' /\ Kept
<1>1. TypeOK /\ Numbered /\ Once /\ Unspent /\ Mirrored /\ Homed /\ Ended /\ Faultless
  BY Zenon DEF IInv
<1>2. PICK r \in logins :
         /\ r.token = t /\ ~r.used
         /\ Commits(fail)
         /\ IF "consume" \in fail
            THEN UNCHANGED <<logins, exchanged, devices, access, refresh, sessions, cached, issued>>
            ELSE /\ logins' = (logins \ {r}) \cup {[r EXCEPT !.used = TRUE]}
                 /\ exchanged' = [exchanged EXCEPT ![t] = @ + 1]
                 /\ Login(r.user, d, ttl, fail)
         /\ UNCHANGED <<stored, users, loggedOut, closed, past>>
  BY Zenon DEF TokenLogin
<1>3. faults' \in 0 .. MaxFaults /\ (faults' = 0 => faults = 0 /\ fail = {})
  BY <1>1, <1>2, Counting, Zenon
<1>4. CASE "consume" \in fail
  <2>1. UNCHANGED <<users, stored, devices, cached, access, refresh, logins, sessions, issued, answers>>
    BY <1>2, <1>4, Zenon DEF answers
  <2>2. AccountsKept
    BY <2>1, Zenon DEF AccountsKept
  <2>3. Numbered' /\ Once' /\ Unspent' /\ Homed' /\ Ended' /\ (Paired => Paired') /\ Kept
    BY <1>1, <2>1, <2>2, Resting, Zenon
  <2>4. Mirrored'
    BY <1>1, <2>1, Zenon DEF Mirrored, AccountsSame
  <2>5. TypeOK'
    BY <1>1, <1>2, <1>3, <2>1, Zenon DEF TypeOK, answers
  <2> QED BY <1>1, <1>3, <2>3, <2>4, <2>5, Zenon DEF IInv, Faultless
<1>5. CASE "consume" \notin fail
  <2>1. r.user \in Users
    BY <1>1 DEF TypeOK, LoginTokens
  <2>2. Login(r.user, d, ttl, fail) /\ UNCHANGED <<stored, users, loggedOut, closed>>
    BY <1>2, <1>5, Zenon
  <2>3. /\ devices' \subseteq Users \X Devices /\ cached' \subseteq Users \X Devices
        /\ access' \subseteq Credentials /\ refresh' \subseteq Credentials /\ sessions' \subseteq Credentials
        /\ issued' \in 0 .. MaxGrants /\ issued' \in {issued, issued + 1} /\ issued' <= MaxGrants
        /\ Numbered' /\ Once' /\ Mirrored' /\ Homed' /\ Ended' /\ (Paired => Paired') /\ Kept
        /\ \A c \in Live(refresh') :
               \/ c \in Live(refresh)
               \/ issued' = issued + 1 /\ c.token = <<"refresh", issued + 1>>
    BY <2>1, <2>2, LoginStep, Zenon
  <2>4. logins' \subseteq LoginTokens /\ exchanged' \in [Tokens -> Nat] /\ Unspent'
    BY <1>1, <1>2, <1>5, <2>3, ConsumeStep, Zenon
  <2>5. TypeOK'
    BY <1>1, <1>2, <1>3, <2>3, <2>4, Zenon DEF TypeOK
  <2> QED BY <1>1, <1>3, <2>3, <2>4, <2>5, Zenon DEF IInv, Faultless
<1> QED BY <1>4, <1>5, Zenon

(* POST /refresh: the tables it leaves, given which commits fail.          *)
Renewal(r, fail) ==
    LET a == Credential("access", r.user, r.device, TRUE)
        b == Credential("refresh", r.user, r.device, TRUE)
        A == Revoke("access" \notin fail, access, OfDevice(access, r))
        F == Revoke(TRUE, refresh, {r})
        S == Revoke(TRUE, sessions, OfDevice(sessions, r))
    IN  /\ access' = A \/ access' = A \cup {a}
        /\ refresh' = F \/ refresh' = F \cup {b}
        /\ sessions' = S \/ sessions' = S \cup {a}
        /\ cached' = cached \/ cached' = cached \cup {<<r.user, r.device>>}
        /\ fail = {} => access' = A \cup {a} /\ sessions' = S \cup {a}

(* POST /refresh, once the token it was given has been found.              *)
LEMMA RenewalStep ==
    ASSUME TypeOK, Numbered, Once, Unspent, Homed, Ended, NEW r \in refresh, NEW fail,
           ~r.revoked, users[r.user] # NoUser, <<r.user, r.device>> \in devices,
           Renewal(r, fail), IssueTokens(MaxGrants), exchanged' = [exchanged EXCEPT ![r.token] = @ + 1],
           UNCHANGED <<users, devices, logins, loggedOut, closed>>
    PROVE  /\ access' \subseteq Credentials /\ refresh' \subseteq Credentials /\ sessions' \subseteq Credentials
           /\ cached' \subseteq Users \X Devices /\ (cached = devices => cached' = devices')
           /\ issued' \in 0 .. MaxGrants /\ exchanged' \in [Tokens -> Nat]
           /\ Numbered' /\ Once' /\ Unspent' /\ Homed' /\ Ended' /\ Kept
           /\ fail = {} => (Paired => Paired')
<1> DEFINE a == Credential("access", r.user, r.device, TRUE)
           b == Credential("refresh", r.user, r.device, TRUE)
           A == Revoke("access" \notin fail, access, OfDevice(access, r))
           F == Revoke(TRUE, refresh, {r})
           S == Revoke(TRUE, sessions, OfDevice(sessions, r))
<1>1. /\ access' = A \/ access' = A \cup {a}
      /\ refresh' = F \/ refresh' = F \cup {b}
      /\ sessions' = S \/ sessions' = S \cup {a}
      /\ cached' = cached \/ cached' = cached \cup {<<r.user, r.device>>}
      /\ fail = {} => access' = A \cup {a} /\ sessions' = S \cup {a}
  BY Zenon DEF Renewal
<1>2. issued \in Nat /\ issued + 1 <= MaxGrants /\ issued' = issued + 1 /\ issued' \in 0 .. MaxGrants
  BY Bounds DEF TypeOK, IssueTokens
<1>3. /\ access \in SUBSET Credentials /\ sessions \in SUBSET Credentials /\ refresh \in SUBSET Credentials
      /\ logins \subseteq LoginTokens
  BY Zenon DEF TypeOK
<1>4. r \in Live(refresh) /\ r.user \in Users /\ r.device \in Devices /\ r.token \in Tokens
  <2>1. r \in Live(refresh)
    BY Zenon DEF Live
  <2> QED BY <2>1, Typed, Zenon
<1>5. a \in Credentials /\ ~a.revoked /\ a.user = r.user /\ a.device = r.device /\ a.token = <<"access", issued + 1>>
  BY <1>2, <1>4, NewCredential, ZenonT(60)
<1>6. b \in Credentials /\ ~b.revoked /\ b.user = r.user /\ b.device = r.device /\ b.token = <<"refresh", issued + 1>>
  BY <1>2, <1>4, NewCredential, ZenonT(60)
<1>7. /\ A \in SUBSET Credentials /\ Live(A) \subseteq Live(access)
      /\ "access" \notin fail => Live(A) = Live(access) \ OfDevice(access, r)
      /\ \A q \in access : q.revoked => q \in A
  <2>1. RevokedTo("access" \notin fail, access, OfDevice(access, r), A)
    BY <1>3, Chosen, Revoking, Zenon
  <2> QED BY <2>1, Zenon DEF RevokedTo
<1>8. /\ F \in SUBSET Credentials /\ Live(F) = Live(refresh) \ {r}
      /\ \A q \in refresh : q.revoked => q \in F
  <2>1. {r} \in SUBSET refresh
    BY Zenon
  <2>2. RevokedTo(TRUE, refresh, {r}, F)
    BY <1>3, <2>1, Revoking, Zenon
  <2> QED BY <2>2, Zenon DEF RevokedTo
<1>9. S \in SUBSET Credentials /\ Live(S) = Live(sessions) \ OfDevice(sessions, r)
  <2>1. RevokedTo(TRUE, sessions, OfDevice(sessions, r), S)
    BY <1>3, Chosen, Revoking, Zenon
  <2> QED BY <2>1, Zenon DEF RevokedTo
<1> HIDE DEF a, b, A, F, S
<1>10. Live(access') = Live(A) \/ Live(access') = Live(A) \cup {a}
  BY <1>1, <1>5, Adding
<1>11. Live(sessions') = Live(S) \/ Live(sessions') = Live(S) \cup {a}
  BY <1>1, <1>5, Adding
<1>12. Live(refresh') = Live(F) \/ Live(refresh') = Live(F) \cup {b}
  BY <1>1, <1>6, Adding, ZenonT(30)
<1>13. Numbered' /\ Once' /\ Homed' /\ Ended'
  <2>1. /\ Live(access') \subseteq Live(access) \cup {a} /\ Live(sessions') \subseteq Live(sessions) \cup {a}
        /\ Live(refresh') \subseteq Live(refresh) \cup {b}
    BY <1>7, <1>8, <1>9, <1>10, <1>11, <1>12, Zenon
  <2>2. AccountsKept
    BY Zenon DEF AccountsKept
  <2>3. r.user \notin closed /\ users'[r.user] # NoUser
    BY <1>4, Zenon DEF Ended
  <2> QED BY <1>2, <1>4, <1>5, <1>6, <2>1, <2>2, <2>3, Growing, Zenon
<1>14. Unspent' /\ exchanged' \in [Tokens -> Nat]
  <2>1. exchanged[r.token] = 0 /\ r.token[2] <= issued /\ r.token[1] = "refresh"
    BY <1>4, Zenon DEF Unspent, Numbered
  <2>2. /\ exchanged' \in [Tokens -> Nat] /\ SingleUse'
        /\ \A x \in Tokens : x[2] > issued' => exchanged'[x] = 0
        /\ \A x \in Tokens : x # r.token => exchanged'[x] = exchanged[x]
    BY <1>2, <1>4, <2>1, Spending, Zenon
  <2>3. \A l \in logins : l.token \in Tokens
    BY <1>3 DEF LoginTokens
  <2>4. \A l \in logins : l.token[2] <= issued' /\ l.token[1] = "login" /\ l.token # r.token
    BY <1>2, <2>1, <2>3, TokenFacts DEF Unspent
  <2>5. \A l \in logins : ~l.used => exchanged'[l.token] = 0
    BY <2>2, <2>3, <2>4, Zenon DEF Unspent
  <2>6. \A c \in Live(refresh) : c # r => c.token # r.token /\ c.token \in Tokens /\ exchanged[c.token] = 0
    BY <1>4, Typed, Zenon DEF Once, LiveOnce, Unspent
  <2>7. b.token \in Tokens /\ exchanged[b.token] = 0
    BY <1>2, <1>6, FreshToken, Zenon
  <2>8. b.token # r.token
    <3>1. b.token[2] = issued + 1
      BY <1>6
    <3> QED BY <1>2, <2>1, <3>1
  <2>9. \A c \in Live(refresh') : exchanged'[c.token] = 0
    BY <1>8, <1>12, <2>2, <2>6, <2>7, <2>8, ZenonT(30)
  <2> QED BY <2>2, <2>4, <2>5, <2>9, Zenon DEF Unspent
<1>15. ASSUME fail = {}, Paired PROVE Paired'
  <2>1. /\ Live(access') = (Live(access) \ OfDevice(access, r)) \cup {a}
        /\ Live(sessions') = (Live(sessions) \ OfDevice(sessions, r)) \cup {a}
    BY <1>1, <1>5, <1>7, <1>9, <1>15, Adding
  <2>2. \A q \in Live(access) : q \in OfDevice(access, r) <=> q.user = r.user /\ q.device = r.device
    BY Chosen DEF Live
  <2>3. \A q \in Live(sessions) : q \in OfDevice(sessions, r) <=> q.user = r.user /\ q.device = r.device
    BY Chosen DEF Live
  <2>4. \A s \in Live(sessions') : \E q \in Live(access') : Same(q, s)
    BY <1>15, <2>1, <2>2, <2>3, ZenonT(30) DEF Paired, Same
  <2>5. \A q \in Live(access') : \E s \in Live(sessions') : Same(q, s)
    BY <1>15, <2>1, <2>2, <2>3 DEF Paired, Same
  <2>6. \A q \in Live(access') \cup Live(refresh') : <<q.user, q.device>> \in devices'
    BY <1>5, <1>6, <1>8, <1>12, <1>15, <2>1, Zenon DEF Paired
  <2>7. \A q \in Live(refresh') : \E s \in Live(sessions') : s.user = q.user /\ s.device = q.device
    <3>1. \A q \in Live(refresh) : \E s \in Live(sessions') : s.user = q.user /\ s.device = q.device
      BY <1>5, <1>15, <2>1, <2>3, Zenon DEF Paired
    <3> QED BY <1>5, <1>6, <1>8, <1>12, <2>1, <3>1, Zenon
  <2> QED BY <2>4, <2>5, <2>6, <2>7, Zenon DEF Paired
<1>16. Kept
  BY <1>1, <1>7, <1>8, Zenon DEF Kept
<1>17. /\ access' \subseteq Credentials /\ refresh' \subseteq Credentials /\ sessions' \subseteq Credentials
       /\ cached' \subseteq Users \X Devices /\ (cached = devices => cached' = devices')
  <2>1. <<r.user, r.device>> \in Users \X Devices /\ cached \subseteq Users \X Devices
    BY <1>4, Zenon DEF TypeOK
  <2>2. access' \subseteq Credentials /\ refresh' \subseteq Credentials /\ sessions' \subseteq Credentials
    BY <1>1, <1>5, <1>6, <1>7, <1>8, <1>9
  <2>3. cached' \subseteq Users \X Devices
    BY <1>1, <2>1, Zenon
  <2>4. cached = devices => cached' = devices'
    BY <1>1, Zenon
  <2> QED BY <2>2, <2>3, <2>4, Zenon
<1> QED BY <1>2, <1>13, <1>14, <1>15, <1>16, <1>17, Zenon

(* POST /refresh.                                                          *)
LEMMA RefreshStep ==
    ASSUME IInv, NEW t, NEW fail, Counted(fail), Refresh(t, fail)
    PROVE  IInv' /\ Kept
<1>1. TypeOK /\ Numbered /\ Once /\ Unspent /\ Mirrored /\ Homed /\ Ended /\ Faultless
  BY Zenon DEF IInv
<1>2. PICK r \in refresh :
         /\ r.token = t /\ ~r.revoked /\ users[r.user] # NoUser
         /\ <<r.user, r.device>> \in devices /\ Commits(fail)
         /\ UNCHANGED <<stored, devices, logins, users, loggedOut, closed, past>>
         /\ \/ "spend" \in fail /\ UNCHANGED <<access, refresh, sessions, cached, issued, exchanged>>
            \/ IssueTokens(MaxGrants) /\ exchanged' = [exchanged EXCEPT ![t] = @ + 1] /\ Renewal(r, fail)
  BY Zenon DEF Refresh, Renewal, Valid
<1>3. faults' \in 0 .. MaxFaults /\ (faults' = 0 => faults = 0 /\ fail = {})
  BY <1>1, <1>2, Counting, Zenon
<1>4. CASE "spend" \in fail /\ UNCHANGED <<access, refresh, sessions, cached, issued, exchanged>>
  <2>1. UNCHANGED <<users, stored, devices, cached, access, refresh, logins, sessions, issued, answers>>
    BY <1>2, <1>4, Zenon DEF answers
  <2>2. AccountsKept
    BY <2>1, Zenon DEF AccountsKept
  <2>3. Numbered' /\ Once' /\ Unspent' /\ Homed' /\ Ended' /\ (Paired => Paired') /\ Kept
    BY <1>1, <2>1, <2>2, Resting, Zenon
  <2>4. Mirrored'
    BY <1>1, <2>1, Zenon DEF Mirrored, AccountsSame
  <2>5. TypeOK'
    BY <1>1, <1>2, <1>3, <2>1, Zenon DEF TypeOK, answers
  <2> QED BY <1>1, <1>3, <2>3, <2>4, <2>5, Zenon DEF IInv, Faultless
<1>5. CASE IssueTokens(MaxGrants) /\ exchanged' = [exchanged EXCEPT ![t] = @ + 1] /\ Renewal(r, fail)
  <2>1. /\ access' \subseteq Credentials /\ refresh' \subseteq Credentials /\ sessions' \subseteq Credentials
        /\ cached' \subseteq Users \X Devices /\ (cached = devices => cached' = devices')
        /\ issued' \in 0 .. MaxGrants /\ exchanged' \in [Tokens -> Nat]
        /\ Numbered' /\ Once' /\ Unspent' /\ Homed' /\ Ended' /\ Kept
        /\ fail = {} => (Paired => Paired')
    BY <1>1, <1>2, <1>5, RenewalStep, Zenon
  <2>2. Mirrored'
    BY <1>1, <1>2, <2>1, Zenon DEF Mirrored, AccountsSame
  <2>3. TypeOK'
    BY <1>1, <1>2, <1>3, <2>1, Zenon DEF TypeOK
  <2> QED BY <1>1, <1>3, <2>1, <2>2, <2>3, Zenon DEF IInv, Faultless
<1> QED BY <1>2, <1>4, <1>5, Zenon

-----------------------------------------------------------------------------
(* The handlers that revoke.                                               *)

(* authenticated_user() moves a session to the v4 hash: its token has one  *)
(* live row, under the old hash or under the new one.                      *)
LEMMA AuthenticateStep ==
    ASSUME IInv, NEW t, NEW fail, Counted(fail), Authenticate(t, fail)
    PROVE  IInv' /\ Kept
<1> DEFINE ok == "revoke" \notin fail
           legacy == WithHash(access, t, "v3")
           A == Revoke(ok, access, legacy)
<1>1. TypeOK /\ Numbered /\ Once /\ Unspent /\ Mirrored /\ Homed /\ Ended /\ Faultless
  BY Zenon DEF IInv
<1>2. PICK s \in sessions :
         /\ s.token = t /\ s.ver = "v3" /\ ~s.revoked /\ Commits(fail)
         /\ sessions' = (sessions \ {s}) \cup {[s EXCEPT !.ver = "v4"]}
         /\ access' = A \cup (IF Revokes(ok, legacy) /\ "insert" \notin fail
                             THEN {[s EXCEPT !.ver = "v4"]} ELSE {})
         /\ UNCHANGED <<stored, devices, refresh, logins, users, cached, answers, past, issued>>
  BY Zenon DEF Authenticate, Valid
<1> DEFINE moved == [s EXCEPT !.ver = "v4"]
<1>3. faults' \in 0 .. MaxFaults /\ (faults' = 0 => faults = 0 /\ fail = {})
  BY <1>1, <1>2, Counting, Zenon
<1>4. UNCHANGED <<stored, devices, refresh, logins, users, cached, loggedOut, closed, exchanged, past, issued>>
  BY <1>2, Zenon DEF answers
<1>5. access \in SUBSET Credentials /\ sessions \in SUBSET Credentials
  BY <1>1, Zenon DEF TypeOK
<1>6. /\ moved \in Credentials /\ moved.user = s.user /\ moved.device = s.device /\ moved.token = s.token
      /\ moved.ver = "v4" /\ moved.revoked = s.revoked
  BY <1>5 DEF Credentials
<1>7. s \in Live(sessions) /\ ~moved.revoked
  BY <1>2, <1>6, Zenon DEF Live
<1>8. \A q \in access : q \in legacy <=> q.token = t /\ q.ver = "v3"
  BY Zenon DEF WithHash
<1>9. /\ A \in SUBSET Credentials /\ Live(A) \subseteq Live(access)
      /\ ok => Live(A) = Live(access) \ legacy
      /\ \A q \in access : q.revoked => q \in A
  <2>1. legacy \in SUBSET access
    BY Zenon DEF WithHash
  <2>2. RevokedTo(ok, access, legacy, A)
    BY <1>5, <2>1, Revoking, Zenon
  <2> QED BY <2>2, Zenon DEF RevokedTo
<1>10. Revokes(ok, legacy) => ok /\ \E q \in legacy : ~q.revoked
  BY Zenon DEF Revokes
<1>11. sessions' = (sessions \ {s}) \cup {moved}
  BY <1>2, Zenon
<1>12. access' = A \/ (Revokes(ok, legacy) /\ access' = A \cup {moved})
  BY <1>2, Zenon
<1> HIDE DEF moved, A
<1>13. Live(sessions') = (Live(sessions) \ {s}) \cup {moved}
  BY <1>7, <1>11, Zenon DEF Live
<1>14. \A x \in Live(sessions) : x # s => x.token # t
  BY <1>1, <1>2, <1>7, Zenon DEF Once, LiveOnce
<1>15. Live(access') \subseteq Live(access) \cup {moved}
  BY <1>7, <1>9, <1>12, Adding
<1>16. moved \in Live(access') =>
          moved \in Live(access) \/ \A x \in Live(access') : x # moved => x.token # t
  <2>1. CASE access' = A
    BY <1>9, <2>1, Zenon
  <2>2. CASE Revokes(ok, legacy) /\ access' = A \cup {moved}
    <3>1. PICK q \in legacy : ~q.revoked
      BY <1>10, <2>2, Zenon
    <3>2. q \in Live(access) /\ q.token = t
      BY <3>1, Zenon DEF Live, WithHash
    <3>3. Live(access') = (Live(access) \ legacy) \cup {moved}
      BY <1>7, <1>9, <1>10, <2>2, Adding, Zenon
    <3>4. \A x \in Live(access) : x.token = t => x = q
      BY <1>1, <3>2, Zenon DEF Once, LiveOnce
    <3> QED BY <3>1, <3>3, <3>4, Zenon
  <2> QED BY <1>12, <2>1, <2>2, Zenon
<1>17. Numbered'
  BY <1>1, <1>4, <1>6, <1>7, <1>13, <1>15, Zenon DEF Numbered
<1>18. Once'
  <2>1. LiveOnce(sessions')
    BY <1>1, <1>2, <1>6, <1>13, <1>14 DEF Once, LiveOnce
  <2>2. LiveOnce(access')
    <3>1. \A x, y \in Live(access) : x.token = y.token => x = y
      BY <1>1, Zenon DEF Once, LiveOnce
    <3>2. moved.token = t
      BY <1>2, <1>6, Zenon
    <3> QED BY <1>15, <1>16, <3>1, <3>2, Zenon DEF LiveOnce
  <2>3. LiveOnce(refresh')
    BY <1>1, <1>4, Zenon DEF Once
  <2> QED BY <2>1, <2>2, <2>3, Zenon DEF Once
<1>19. Unspent'
  BY <1>1, <1>4, Zenon DEF Unspent, SingleUse
<1>20. Homed' /\ Ended'
  BY <1>1, <1>4, <1>6, <1>7, <1>13, <1>15, Zenon DEF Homed, Ended
<1>21. Mirrored'
  BY <1>1, <1>4, Zenon DEF Mirrored, AccountsSame
<1>22. ASSUME fail = {}, Paired PROVE Paired'
  <2>1. PICK q \in Live(access) : Same(q, s)
    BY <1>7, <1>22, Zenon DEF Paired
  <2>2. q \in access /\ ~q.revoked /\ q \in legacy
    BY <1>2, <1>8, <2>1, Zenon DEF Live, Same
  <2>3. ok /\ Revokes(ok, legacy) /\ "insert" \notin fail
    BY <1>22, <2>2, Zenon DEF Revokes
  <2>4. access' = A \cup {moved}
    BY <1>2, <2>3, Zenon DEF moved
  <2>5. Live(access') = (Live(access) \ legacy) \cup {moved}
    BY <1>7, <1>9, <2>3, <2>4, Adding, Zenon
  <2>6. \A x \in Live(access) : x \notin legacy <=> x.token # t
    <3>1. \A x \in Live(access) : x.token = t => x = q
      BY <1>1, <1>2, <2>1, Zenon DEF Once, LiveOnce, Same
    <3> QED BY <1>8, <2>2, <3>1, Zenon DEF Live
  <2>7. \A x \in Live(sessions') : \E y \in Live(access') : Same(y, x)
    BY <1>13, <1>14, <1>22, <2>5, <2>6 DEF Paired, Same
  <2>8. \A y \in Live(access') : \E x \in Live(sessions') : Same(y, x)
    <3>1. Same(moved, moved)
      BY Zenon DEF Same
    <3>2. \A y \in Live(access) : y.token # t => \E x \in Live(sessions) : x # s /\ Same(y, x)
      BY <1>2, <1>22, Zenon DEF Paired, Same
    <3> QED BY <1>13, <2>5, <2>6, <3>1, <3>2, Zenon
  <2>9. \A x \in Live(access') \cup Live(refresh') : <<x.user, x.device>> \in devices'
    BY <1>4, <1>6, <1>22, <2>1, <2>5, ZenonT(30) DEF Paired, Same
  <2>10. \A x \in Live(refresh') : \E y \in Live(sessions') : y.user = x.user /\ y.device = x.device
    BY <1>4, <1>6, <1>13, <1>22, ZenonT(30) DEF Paired
  <2> QED BY <2>7, <2>8, <2>9, <2>10, Zenon DEF Paired
<1>23. TypeOK'
  <2>1. access' \subseteq Credentials /\ sessions' \subseteq Credentials
    BY <1>5, <1>6, <1>9, <1>11, <1>12, Zenon
  <2> QED BY <1>1, <1>3, <1>4, <2>1, Zenon DEF TypeOK
<1>24. Kept
  BY <1>4, <1>9, <1>12, Zenon DEF Kept
<1> QED BY <1>1, <1>3, <1>17, <1>18, <1>19, <1>20, <1>21, <1>22, <1>23, <1>24, Zenon DEF IInv, Faultless

(* POST /logout.                                                           *)
LEMMA LogoutStep ==
    ASSUME IInv, NEW t, NEW fail, Counted(fail), Logout(t, fail)
    PROVE  IInv' /\ Kept
<1> DEFINE ok == "access" \notin fail
           gone == {r \in sessions : r.token = t}
<1>1. TypeOK /\ Numbered /\ Once /\ Unspent /\ Mirrored /\ Homed /\ Ended /\ Faultless
  BY Zenon DEF IInv
<1>2. PICK s \in sessions :
         /\ s.token = t /\ ~s.revoked /\ Commits(fail)
         /\ sessions' = Revoke(TRUE, sessions, gone)
         /\ access' = Revoke(ok, access, WithHash(access, t, s.ver))
         /\ refresh' = Revoke(Revokes(ok, WithHash(access, t, s.ver)) /\ "refresh" \notin fail,
                              refresh, OfDevice(refresh, s))
         /\ loggedOut' = IF Revokes(ok, WithHash(access, t, s.ver)) THEN loggedOut \cup {t} ELSE loggedOut
         /\ UNCHANGED <<stored, devices, logins, users, cached, closed, exchanged, past, issued>>
  BY Zenon DEF Logout, EndRefresh
<1> DEFINE same == WithHash(access, t, s.ver)
           done == Revokes(ok, same)
<1>3. faults' \in 0 .. MaxFaults /\ (faults' = 0 => faults = 0 /\ fail = {})
  BY <1>1, <1>2, Counting, Zenon
<1>4. access \in SUBSET Credentials /\ sessions \in SUBSET Credentials /\ refresh \in SUBSET Credentials
  BY <1>1, Zenon DEF TypeOK
<1>5. s \in Live(sessions) /\ t \in Tokens
  <2>1. s \in Live(sessions)
    BY <1>2, Zenon DEF Live
  <2> QED BY <1>1, <1>2, <2>1, Typed, Zenon
<1>6. done \in BOOLEAN /\ (done => ok /\ \E q \in same : ~q.revoked)
  BY Zenon DEF Revokes
<1>7. \A q \in access : q \in same <=> q.token = t /\ q.ver = s.ver
  BY Zenon DEF WithHash
<1>8. /\ access' \in SUBSET Credentials /\ Live(access') \subseteq Live(access)
      /\ ok => Live(access') = Live(access) \ same
      /\ \A q \in access : q.revoked => q \in access'
  <2>1. same \in SUBSET access
    BY Zenon DEF WithHash
  <2>2. RevokedTo(ok, access, same, access')
    BY <1>2, <1>4, <2>1, Revoking, Zenon
  <2> QED BY <2>2, Zenon DEF RevokedTo
<1>9. sessions' \in SUBSET Credentials /\ Live(sessions') = Live(sessions) \ gone
  <2>1. gone \in SUBSET sessions
    BY Zenon
  <2>2. RevokedTo(TRUE, sessions, gone, sessions')
    BY <1>2, <1>4, <2>1, Revoking, Zenon
  <2> QED BY <2>2, Zenon DEF RevokedTo
<1>10. /\ refresh' \in SUBSET Credentials /\ Live(refresh') \subseteq Live(refresh)
       /\ done /\ "refresh" \notin fail => Live(refresh') = Live(refresh) \ OfDevice(refresh, s)
       /\ \A q \in refresh : q.revoked => q \in refresh'
  <2>1. RevokedTo(done /\ "refresh" \notin fail, refresh, OfDevice(refresh, s), refresh')
    BY <1>2, <1>4, Chosen, Revoking, Zenon
  <2> QED BY <2>1, Zenon DEF RevokedTo
<1>11. loggedOut' = IF done THEN loggedOut \cup {t} ELSE loggedOut
  BY <1>2, Zenon
<1> HIDE DEF done, same
<1>12. \A x \in Live(sessions) : x \in gone <=> x.token = t
  BY Zenon DEF Live
<1> HIDE DEF gone
<1>13. done => \A x \in Live(access') : x.token # t
  <2> SUFFICES ASSUME done, NEW x \in Live(access') PROVE x.token # t
    BY Zenon
  <2>1. PICK q \in same : ~q.revoked
    BY <1>6, Zenon
  <2>2. q \in Live(access) /\ q.token = t
    BY <2>1, Zenon DEF Live, same, WithHash
  <2>3. x \in Live(access) /\ x \notin same
    BY <1>6, <1>8, Zenon
  <2> QED BY <1>1, <2>1, <2>2, <2>3, Zenon DEF Once, LiveOnce
<1>14. Live(sessions') \subseteq Live(sessions)
  BY <1>9, Zenon
<1>15. \A x \in loggedOut' : x[2] <= issued
  BY <1>1, <1>2, <1>5, <1>11, Zenon DEF Numbered
<1>16. Numbered' /\ Once' /\ Unspent'
  BY <1>1, <1>2, <1>8, <1>10, <1>14, <1>15, Shrinking, Zenon
<1>17. Homed'
  BY <1>1, <1>2, <1>8, <1>14, Zenon DEF Homed
<1>18. Ended'
  <2>1. \A x \in Live(access') \cup Live(sessions') : x.token \notin loggedOut'
    BY <1>1, <1>8, <1>9, <1>11, <1>12, <1>13, Zenon DEF Ended
  <2> QED BY <1>1, <1>2, <1>8, <1>10, <1>14, <2>1, Zenon DEF Ended
<1>19. Mirrored'
  BY <1>1, <1>2, Zenon DEF Mirrored, AccountsSame
<1>20. ASSUME fail = {}, Paired PROVE Paired'
  <2>1. PICK q \in Live(access) : Same(q, s)
    BY <1>5, <1>20, Zenon DEF Paired
  <2>2. q \in access /\ ~q.revoked /\ q \in same
    BY <1>2, <1>7, <2>1, Zenon DEF Live, Same
  <2>3. ok /\ done /\ "refresh" \notin fail
    BY <1>20, <2>2, Zenon DEF done, Revokes
  <2>4. Live(access') = Live(access) \ same
    BY <1>8, <2>3, Zenon
  <2>5. \A x \in Live(access) : x.token # t => x \in Live(access')
    BY <1>7, <2>4, Zenon DEF Live
  <2>6. \A x \in Live(refresh') : x \in Live(refresh) /\ ~(x.user = s.user /\ x.device = s.device)
    BY <1>10, <2>3, Chosen DEF Live
  <2>7. \A x \in Live(sessions) : x.token = t => x = s
    BY <1>1, <1>2, <1>5, Zenon DEF Once, LiveOnce
  <2>8. \A x \in Live(sessions') : \E y \in Live(access') : Same(y, x)
    BY <1>9, <1>12, <1>20, <2>5, Zenon DEF Paired, Same
  <2>9. \A y \in Live(access') : \E x \in Live(sessions') : Same(y, x)
    BY <1>8, <1>9, <1>12, <1>13, <1>20, <2>3 DEF Paired, Same
  <2>10. \A x \in Live(access') \cup Live(refresh') : <<x.user, x.device>> \in devices'
    BY <1>2, <1>8, <1>10, <1>20, Zenon DEF Paired
  <2>11. \A x \in Live(refresh') : \E y \in Live(sessions') : y.user = x.user /\ y.device = x.device
    BY <1>9, <1>12, <1>20, <2>6, <2>7, Zenon DEF Paired
  <2> QED BY <2>8, <2>9, <2>10, <2>11, Zenon DEF Paired
<1>21. TypeOK'
  BY <1>1, <1>2, <1>3, <1>5, <1>8, <1>9, <1>10, <1>11, Zenon DEF TypeOK
<1>22. Kept
  BY <1>8, <1>10, Zenon DEF Kept
<1> QED BY <1>1, <1>3, <1>16, <1>17, <1>18, <1>19, <1>20, <1>21, <1>22, Zenon DEF IInv, Faultless

(* The rows of a user are those of the user's devices.                     *)
LEMMA UserRows ==
    ASSUME NEW table \in SUBSET Credentials, NEW s
    PROVE  Live(table) \ OfUser(table, s) =
               {r \in Live(table) : <<r.user, r.device>> \notin {s.user} \X Devices}
<1>1. \A r \in table : r.device \in Devices
  BY DEF Credentials
<1>2. \A r \in table : r \in OfUser(table, s) <=> <<r.user, r.device>> \in {s.user} \X Devices
  BY <1>1, Chosen
<1> QED BY <1>2, Zenon DEF Live

(* POST /logout/all.                                                       *)
LEMMA LogoutAllStep ==
    ASSUME IInv, NEW t, NEW fail, Counted(fail), LogoutAll(t, fail)
    PROVE  IInv' /\ Kept
<1>1. TypeOK /\ Numbered /\ Once /\ Unspent /\ Mirrored /\ Homed /\ Ended /\ Faultless
  BY Zenon DEF IInv
<1>2. PICK s \in sessions :
         /\ ~s.revoked /\ Commits(fail)
         /\ access' = Revoke("access" \notin fail, access, OfUser(access, s))
         /\ refresh' = Revoke("refresh" \notin fail, refresh, OfUser(refresh, s))
         /\ sessions' = Revoke(\/ Revokes("access" \notin fail, OfUser(access, s))
                               \/ Revokes("refresh" \notin fail, OfUser(refresh, s)), sessions, OfUser(sessions, s))
         /\ UNCHANGED <<stored, devices, logins, users, cached, answers, past, issued>>
  BY Zenon DEF LogoutAll, Authenticated, Valid
<1> DEFINE done == \/ Revokes("access" \notin fail, OfUser(access, s))
                   \/ Revokes("refresh" \notin fail, OfUser(refresh, s))
<1>3. faults' \in 0 .. MaxFaults /\ (faults' = 0 => faults = 0 /\ fail = {})
  BY <1>1, <1>2, Counting, Zenon
<1>4. access \in SUBSET Credentials /\ sessions \in SUBSET Credentials /\ refresh \in SUBSET Credentials
  BY <1>1, Zenon DEF TypeOK
<1>5. UNCHANGED <<stored, devices, logins, users, cached, loggedOut, closed, exchanged, past, issued>>
  BY <1>2, Zenon DEF answers
<1>6. /\ access' \in SUBSET Credentials /\ Live(access') \subseteq Live(access)
      /\ "access" \notin fail => Live(access') = Live(access) \ OfUser(access, s)
      /\ \A q \in access : q.revoked => q \in access'
  <2>1. RevokedTo("access" \notin fail, access, OfUser(access, s), access')
    BY <1>2, <1>4, Chosen, Revoking, Zenon
  <2> QED BY <2>1, Zenon DEF RevokedTo
<1>7. /\ refresh' \in SUBSET Credentials /\ Live(refresh') \subseteq Live(refresh)
      /\ "refresh" \notin fail => Live(refresh') = Live(refresh) \ OfUser(refresh, s)
      /\ \A q \in refresh : q.revoked => q \in refresh'
  <2>1. RevokedTo("refresh" \notin fail, refresh, OfUser(refresh, s), refresh')
    BY <1>2, <1>4, Chosen, Revoking, Zenon
  <2> QED BY <2>1, Zenon DEF RevokedTo
<1>8. /\ sessions' \in SUBSET Credentials /\ Live(sessions') \subseteq Live(sessions)
      /\ done => Live(sessions') = Live(sessions) \ OfUser(sessions, s)
  <2>1. RevokedTo(done, sessions, OfUser(sessions, s), sessions')
    BY <1>2, <1>4, Chosen, Revoking, Zenon
  <2> QED BY <2>1, Zenon DEF RevokedTo
<1>9. AccountsKept
  BY <1>5, Zenon DEF AccountsKept
<1>10. Numbered' /\ Once' /\ Unspent'
  <2>1. \A x \in loggedOut' : x[2] <= issued
    BY <1>1, <1>5, Zenon DEF Numbered
  <2> QED BY <1>1, <1>5, <1>6, <1>7, <1>8, <2>1, Shrinking, Zenon
<1>11. Homed' /\ Ended'
  BY <1>1, <1>5, <1>6, <1>7, <1>8, <1>9, StillEnded, Zenon
<1>12. Mirrored'
  BY <1>1, <1>5, Zenon DEF Mirrored, AccountsSame
<1>13. ASSUME fail = {}, Paired PROVE Paired'
  <2>1. s \in Live(sessions)
    BY <1>2, Zenon DEF Live
  <2>2. PICK q \in Live(access) : Same(q, s)
    BY <1>13, <2>1, Zenon DEF Paired
  <2>3. q \in OfUser(access, s) /\ ~q.revoked
    BY <2>2, Chosen, Zenon DEF Live, Same
  <2>4. done
    BY <1>13, <2>3, Zenon DEF Revokes
  <2>5. \A e \in devices : e \in devices'
    BY <1>5, Zenon
  <2> DEFINE H == {s.user} \X Devices
  <2>6. /\ Live(access') = {r \in Live(access) : <<r.user, r.device>> \notin H}
        /\ Live(sessions') = {r \in Live(sessions) : <<r.user, r.device>> \notin H}
        /\ Live(refresh') = {r \in Live(refresh) : <<r.user, r.device>> \notin H}
    BY <1>4, <1>6, <1>7, <1>8, <1>13, <2>4, UserRows, Zenon
  <2> HIDE DEF H
  <2> QED BY <1>13, <2>5, <2>6, PairedCut, Zenon
<1>14. TypeOK'
  BY <1>1, <1>3, <1>5, <1>6, <1>7, <1>8, Zenon DEF TypeOK
<1>15. Kept
  BY <1>6, <1>7, Zenon DEF Kept
<1> QED BY <1>1, <1>3, <1>10, <1>11, <1>12, <1>13, <1>14, <1>15, Zenon DEF IInv, Faultless

(* POST /account/deactivate marks the account, whether or not it can end   *)
(* all of its credentials.                                                 *)
LEMMA MarkAccount ==
    ASSUME TypeOK, Mirrored, NEW u \in Users, users[u] # NoUser, NEW fail,
           \/ /\ users' = [users EXCEPT ![u].deactivated = TRUE]
              /\ stored' = [stored EXCEPT ![u].deactivated = TRUE]
           \/ /\ users' = [users EXCEPT ![u].deactivated = TRUE, ![u].pw = Closed]
              /\ stored' = [stored EXCEPT ![u].deactivated = TRUE,
                                          ![u].pw = IF "password" \in fail THEN @ ELSE Closed]
    PROVE  /\ users' \in [Users -> Accounts \cup {NoUser}]
           /\ stored' \in [Users -> Accounts \cup {NoUser}]
           /\ users'[u] # NoUser /\ users'[u].deactivated /\ AccountsSame' /\ AccountsKept
<1>1. /\ users \in [Users -> Accounts \cup {NoUser}] /\ stored \in [Users -> Accounts \cup {NoUser}]
      /\ SameAccount(users[u], stored[u])
  BY Zenon DEF TypeOK, Mirrored, AccountsSame
<1>2. users[u] \in Accounts /\ stored[u] \in Accounts
  <2>1. stored[u] # NoUser
    BY <1>1, Zenon DEF SameAccount
  <2> QED BY <1>1, <2>1
<1>3. users[u].locked = stored[u].locked /\ users[u].suspended = stored[u].suspended
  BY <1>1, Zenon DEF SameAccount
<1>4. \E a, b \in Accounts :
         /\ users' = [users EXCEPT ![u] = a] /\ stored' = [stored EXCEPT ![u] = b]
         /\ a.locked = b.locked /\ a.suspended = b.suspended
         /\ a.deactivated = TRUE /\ b.deactivated = TRUE
  <2>1. CASE /\ users' = [users EXCEPT ![u].deactivated = TRUE]
             /\ stored' = [stored EXCEPT ![u].deactivated = TRUE]
    <3> DEFINE a == [users[u] EXCEPT !.deactivated = TRUE]
               b == [stored[u] EXCEPT !.deactivated = TRUE]
    <3>1. users' = [users EXCEPT ![u] = a] /\ stored' = [stored EXCEPT ![u] = b]
      BY <1>1, <2>1
    <3>2. /\ a \in Accounts /\ b \in Accounts /\ a.locked = users[u].locked /\ a.suspended = users[u].suspended
          /\ b.locked = stored[u].locked /\ b.suspended = stored[u].suspended
          /\ a.deactivated = TRUE /\ b.deactivated = TRUE
      BY <1>2, Zenon DEF Accounts
    <3> HIDE DEF a, b
    <3> QED BY <1>3, <3>1, <3>2, Zenon
  <2>2. CASE /\ users' = [users EXCEPT ![u].deactivated = TRUE, ![u].pw = Closed]
             /\ stored' = [stored EXCEPT ![u].deactivated = TRUE,
                                         ![u].pw = IF "password" \in fail THEN @ ELSE Closed]
    <3> DEFINE a == [users[u] EXCEPT !.deactivated = TRUE, !.pw = Closed]
               b == [stored[u] EXCEPT !.deactivated = TRUE,
                                      !.pw = IF "password" \in fail THEN stored[u].pw ELSE Closed]
    <3>1. users' = [users EXCEPT ![u] = a] /\ stored' = [stored EXCEPT ![u] = b]
      BY <1>1, <1>2, <2>2, Zenon DEF Accounts
    <3>2. /\ a \in Accounts /\ b \in Accounts /\ a.locked = users[u].locked /\ a.suspended = users[u].suspended
          /\ b.locked = stored[u].locked /\ b.suspended = stored[u].suspended
          /\ a.deactivated = TRUE /\ b.deactivated = TRUE
      BY <1>2, Zenon DEF Accounts
    <3> HIDE DEF a, b
    <3> QED BY <1>3, <3>1, <3>2, Zenon
  <2> QED BY <2>1, <2>2, Zenon
<1>5. PICK a \in Accounts, b \in Accounts :
         /\ users' = [users EXCEPT ![u] = a] /\ stored' = [stored EXCEPT ![u] = b]
         /\ a.locked = b.locked /\ a.suspended = b.suspended
         /\ a.deactivated = TRUE /\ b.deactivated = TRUE
  BY <1>4, Zenon
<1>6. a # NoUser /\ b # NoUser /\ a.deactivated
  BY <1>5, Absence, Zenon
<1>7. SameAccount(a, b)
  BY <1>5, <1>6, Zenon DEF SameAccount
<1> QED BY <1>5, <1>6, <1>7, AccountStep, Zenon

(* POST /account/deactivate.                                               *)
LEMMA DeactivateStep ==
    ASSUME IInv, NEW t, NEW fail, Counted(fail), Deactivate(t, fail)
    PROVE  IInv' /\ Kept
<1>1. TypeOK /\ Numbered /\ Once /\ Unspent /\ Mirrored /\ Homed /\ Ended /\ Faultless
  BY Zenon DEF IInv
<1> DEFINE Remain(s) == \E r \in access' \cup refresh' : r.user = s.user /\ ~r.revoked
           Ends(s) ==
             /\ access' = Revoke("access" \notin fail, access, OfUser(access, s))
             /\ refresh' = Revoke("refresh" \notin fail, refresh, OfUser(refresh, s))
           Marks(s) ==
             IF Remain(s)
             THEN /\ users' = [users EXCEPT ![s.user].deactivated = TRUE]
                  /\ stored' = [stored EXCEPT ![s.user].deactivated = TRUE]
                  /\ UNCHANGED <<sessions, closed>>
             ELSE /\ sessions' = Revoke(TRUE, sessions, OfUser(sessions, s))
                  /\ users' = [users EXCEPT ![s.user].deactivated = TRUE, ![s.user].pw = Closed]
                  /\ stored' = [stored EXCEPT ![s.user].deactivated = TRUE,
                                              ![s.user].pw = IF "password" \in fail THEN @ ELSE Closed]
                  /\ closed' = closed \cup {s.user}
<1>2. PICK s \in sessions :
         /\ ~s.revoked /\ Commits(fail)
         /\ UNCHANGED <<devices, logins, cached, loggedOut, exchanged, past, issued>>
         /\ \/ "flag" \in fail /\ UNCHANGED <<stored, access, refresh, users, sessions, closed>>
            \/ Ends(s) /\ Marks(s)
  BY Zenon DEF Deactivate, Authenticated, Valid
<1>3. faults' \in 0 .. MaxFaults /\ (faults' = 0 => faults = 0 /\ fail = {})
  BY <1>1, <1>2, Counting, Zenon
<1>4. CASE "flag" \in fail /\ UNCHANGED <<stored, access, refresh, users, sessions, closed>>
  <2>1. UNCHANGED <<users, stored, devices, cached, access, refresh, logins, sessions, issued, answers>>
    BY <1>2, <1>4, Zenon DEF answers
  <2>2. AccountsKept
    BY <2>1, Zenon DEF AccountsKept
  <2>3. Numbered' /\ Once' /\ Unspent' /\ Homed' /\ Ended' /\ (Paired => Paired') /\ Kept
    BY <1>1, <2>1, <2>2, Resting, Zenon
  <2>4. Mirrored'
    BY <1>1, <2>1, Zenon DEF Mirrored, AccountsSame
  <2>5. TypeOK'
    BY <1>1, <1>2, <1>3, <2>1, Zenon DEF TypeOK, answers
  <2> QED BY <1>1, <1>3, <2>3, <2>4, <2>5, Zenon DEF IInv, Faultless
<1>5. CASE Ends(s) /\ Marks(s)
  <2>1. access \in SUBSET Credentials /\ sessions \in SUBSET Credentials /\ refresh \in SUBSET Credentials
    BY <1>1, Zenon DEF TypeOK
  <2>2. s \in Live(sessions) /\ s.user \in Users /\ users[s.user] # NoUser
    <3>1. s \in Live(sessions)
      BY <1>2, Zenon DEF Live
    <3> QED BY <1>1, <3>1, Typed, Zenon DEF Homed
  <2>3. /\ access' \in SUBSET Credentials /\ Live(access') \subseteq Live(access)
        /\ "access" \notin fail => Live(access') = Live(access) \ OfUser(access, s)
        /\ \A q \in access : q.revoked => q \in access'
    <3>1. RevokedTo("access" \notin fail, access, OfUser(access, s), access')
      BY <1>5, <2>1, Chosen, Revoking, Zenon
    <3> QED BY <3>1, Zenon DEF RevokedTo
  <2>4. /\ refresh' \in SUBSET Credentials /\ Live(refresh') \subseteq Live(refresh)
        /\ "refresh" \notin fail => Live(refresh') = Live(refresh) \ OfUser(refresh, s)
        /\ \A q \in refresh : q.revoked => q \in refresh'
    <3>1. RevokedTo("refresh" \notin fail, refresh, OfUser(refresh, s), refresh')
      BY <1>5, <2>1, Chosen, Revoking, Zenon
    <3> QED BY <3>1, Zenon DEF RevokedTo
  <2>5. Kept
    BY <2>3, <2>4, Zenon DEF Kept
  <2>6. /\ users' \in [Users -> Accounts \cup {NoUser}] /\ stored' \in [Users -> Accounts \cup {NoUser}]
        /\ users'[s.user] # NoUser /\ users'[s.user].deactivated /\ AccountsSame' /\ AccountsKept
    <3>1. \/ /\ users' = [users EXCEPT ![s.user].deactivated = TRUE]
             /\ stored' = [stored EXCEPT ![s.user].deactivated = TRUE]
          \/ /\ users' = [users EXCEPT ![s.user].deactivated = TRUE, ![s.user].pw = Closed]
             /\ stored' = [stored EXCEPT ![s.user].deactivated = TRUE,
                                         ![s.user].pw = IF "password" \in fail THEN @ ELSE Closed]
      BY <1>5, Zenon
    <3> QED BY <1>1, <2>2, <3>1, MarkAccount, Zenon
  <2>7. /\ sessions' \in SUBSET Credentials /\ Live(sessions') \subseteq Live(sessions)
        /\ \/ Remain(s) /\ sessions' = sessions /\ closed' = closed
           \/ /\ ~Remain(s) /\ closed' = closed \cup {s.user}
              /\ Live(sessions') = Live(sessions) \ OfUser(sessions, s)
    <3>1. CASE Remain(s)
      BY <1>5, <2>1, <3>1, Zenon
    <3>2. CASE ~Remain(s)
      <4>1. sessions' = Revoke(TRUE, sessions, OfUser(sessions, s)) /\ closed' = closed \cup {s.user}
        BY <1>5, <3>2, Zenon
      <4>2. /\ sessions' \in SUBSET Credentials /\ Live(sessions') \subseteq Live(sessions)
            /\ Live(sessions') = Live(sessions) \ OfUser(sessions, s)
        <5>1. RevokedTo(TRUE, sessions, OfUser(sessions, s), sessions')
          BY <2>1, <4>1, Chosen, Revoking, Zenon
        <5> QED BY <5>1, Zenon DEF RevokedTo
      <4> QED BY <3>2, <4>1, <4>2, Zenon
    <3> QED BY <3>1, <3>2, Zenon
  <2>8. Remain(s) <=> \E r \in Live(access') \cup Live(refresh') : r.user = s.user
    BY Zenon DEF Live
  <2> HIDE DEF Remain, Ends, Marks
  <2>9. Numbered' /\ Once' /\ Unspent'
    <3>1. \A x \in loggedOut' : x[2] <= issued
      BY <1>1, <1>2, Zenon DEF Numbered
    <3> QED BY <1>1, <1>2, <2>3, <2>4, <2>7, <3>1, Shrinking, Zenon
  <2>10. Homed'
    BY <1>1, <2>3, <2>6, <2>7, Typed, Zenon DEF Homed, AccountsKept
  <2>11. Ended'
    <3>1. \A x \in Live(access') \cup Live(sessions') : x.token \notin loggedOut'
      BY <1>1, <1>2, <2>3, <2>7, Zenon DEF Ended
    <3>2. \A w \in closed : w \in Users /\ users[w] # NoUser /\ users[w].deactivated
      BY <1>1, Zenon DEF TypeOK, Ended
    <3>3. \A w \in closed' : users'[w] # NoUser /\ users'[w].deactivated
      BY <2>6, <2>7, <3>2, Zenon DEF AccountsKept
    <3>4. \A x \in Live(access') \cup Live(sessions') \cup Live(refresh') : x.user \notin closed
      BY <1>1, <2>3, <2>4, <2>7, Zenon DEF Ended
    <3>5. \A x \in Live(sessions) : x \in OfUser(sessions, s) <=> x.user = s.user
      BY Chosen DEF Live
    <3>6. ~Remain(s) => \A x \in Live(access') \cup Live(sessions') \cup Live(refresh') : x.user # s.user
      BY <2>7, <2>8, <3>5, Zenon
    <3> QED BY <2>7, <3>1, <3>3, <3>4, <3>6, Zenon DEF Ended
  <2>12. Mirrored'
    BY <1>1, <1>2, <2>6, Zenon DEF Mirrored
  <2>13. ASSUME fail = {}, Paired PROVE Paired'
    <3>1. /\ Live(access') = Live(access) \ OfUser(access, s)
          /\ Live(refresh') = Live(refresh) \ OfUser(refresh, s)
      BY <2>3, <2>4, <2>13, Zenon
    <3>2. ~Remain(s)
      BY <2>8, <3>1, Chosen, Zenon DEF Live
    <3>3. Live(sessions') = Live(sessions) \ OfUser(sessions, s)
      BY <2>7, <3>2, Zenon
    <3>4. \A e \in devices : e \in devices'
      BY <1>2, Zenon
    <3> DEFINE H == {s.user} \X Devices
    <3>5. /\ Live(access') = {r \in Live(access) : <<r.user, r.device>> \notin H}
          /\ Live(sessions') = {r \in Live(sessions) : <<r.user, r.device>> \notin H}
          /\ Live(refresh') = {r \in Live(refresh) : <<r.user, r.device>> \notin H}
      BY <2>1, <3>1, <3>3, UserRows, ZenonT(30)
    <3> HIDE DEF H
    <3> QED BY <2>13, <3>4, <3>5, PairedCut, Zenon
  <2>14. TypeOK'
    BY <1>1, <1>2, <1>3, <2>2, <2>3, <2>4, <2>6, <2>7, Zenon DEF TypeOK
  <2> QED BY <1>1, <1>3, <2>5, <2>9, <2>10, <2>11, <2>12, <2>13, <2>14, Zenon DEF IInv, Faultless
<1> QED BY <1>2, <1>4, <1>5, Zenon

(* DELETE /devices/{deviceId} and POST /delete_devices.                    *)
LEMMA DeleteStep ==
    ASSUME IInv, NEW t, NEW ds, NEW fail, Counted(fail), DeleteDevices(t, ds, fail)
    PROVE  IInv' /\ Kept
<1>1. TypeOK /\ Numbered /\ Once /\ Unspent /\ Mirrored /\ Homed /\ Ended /\ Faultless
  BY Zenon DEF IInv
<1> DEFINE Gone(s) == {d \in ds : <<s.user, d>> \in devices /\ <<"delete", d>> \notin fail}
           Named(table, kind, s) ==
               {r \in OfUser(table, s) : r.device \in Gone(s) /\ <<kind, r.device>> \notin fail}
<1>2. PICK s \in sessions :
         /\ Commits(fail)
         /\ devices' = {e \in devices : e[1] # s.user \/ e[2] \notin Gone(s)}
         /\ cached' = {e \in cached : e[1] # s.user \/ e[2] \notin Gone(s)}
         /\ access' = Revoke(TRUE, access, Named(access, "access", s))
         /\ refresh' = Revoke(TRUE, refresh, Named(refresh, "refresh", s))
         /\ sessions' = Revoke(TRUE, sessions, Named(sessions, "session", s))
         /\ UNCHANGED <<stored, logins, users, answers, past, issued>>
  BY Zenon DEF DeleteDevices
<1>3. faults' \in 0 .. MaxFaults /\ (faults' = 0 => faults = 0 /\ fail = {})
  BY <1>1, <1>2, Counting, Zenon
<1>4. access \in SUBSET Credentials /\ sessions \in SUBSET Credentials /\ refresh \in SUBSET Credentials
  BY <1>1, Zenon DEF TypeOK
<1>5. UNCHANGED <<stored, logins, users, loggedOut, closed, exchanged, past, issued>>
  BY <1>2, Zenon DEF answers
<1>6. \A table, kind : /\ Named(table, kind, s) \in SUBSET table
                       /\ \A r \in table : r \in Named(table, kind, s) <=>
                              r.user = s.user /\ r.device \in Gone(s) /\ <<kind, r.device>> \notin fail
  BY Zenon DEF OfUser
<1> HIDE DEF Named, Gone
<1>7. /\ access' \in SUBSET Credentials /\ Live(access') = Live(access) \ Named(access, "access", s)
      /\ \A q \in access : q.revoked => q \in access'
  <2>1. RevokedTo(TRUE, access, Named(access, "access", s), access')
    BY <1>2, <1>4, <1>6, Revoking, Zenon
  <2> QED BY <2>1, Zenon DEF RevokedTo
<1>8. /\ refresh' \in SUBSET Credentials /\ Live(refresh') = Live(refresh) \ Named(refresh, "refresh", s)
      /\ \A q \in refresh : q.revoked => q \in refresh'
  <2>1. RevokedTo(TRUE, refresh, Named(refresh, "refresh", s), refresh')
    BY <1>2, <1>4, <1>6, Revoking, Zenon
  <2> QED BY <2>1, Zenon DEF RevokedTo
<1>9. sessions' \in SUBSET Credentials /\ Live(sessions') = Live(sessions) \ Named(sessions, "session", s)
  <2>1. RevokedTo(TRUE, sessions, Named(sessions, "session", s), sessions')
    BY <1>2, <1>4, <1>6, Revoking, Zenon
  <2> QED BY <2>1, Zenon DEF RevokedTo
<1>10. /\ Live(access') \subseteq Live(access) /\ Live(sessions') \subseteq Live(sessions)
       /\ Live(refresh') \subseteq Live(refresh)
  BY <1>7, <1>8, <1>9, Zenon
<1>11. AccountsKept
  BY <1>5, Zenon DEF AccountsKept
<1>12. Numbered' /\ Once' /\ Unspent'
  <2>1. \A x \in loggedOut' : x[2] <= issued
    BY <1>1, <1>5, Zenon DEF Numbered
  <2> QED BY <1>1, <1>5, <1>10, <2>1, Shrinking, Zenon
<1>13. Homed' /\ Ended'
  BY <1>1, <1>5, <1>10, <1>11, StillEnded, Zenon
<1>14. Mirrored'
  BY <1>1, <1>2, <1>5, Zenon DEF Mirrored, AccountsSame
<1>15. ASSUME fail = {}, Paired PROVE Paired'
  <2> DEFINE H == {s.user} \X Gone(s)
  <2>1. \A table \in SUBSET Credentials : \A kind :
           Live(table) \ Named(table, kind, s) = {r \in Live(table) : <<r.user, r.device>> \notin H}
    <3> SUFFICES ASSUME NEW table \in SUBSET Credentials, NEW kind, NEW r \in table
                 PROVE  r \in Named(table, kind, s) <=> <<r.user, r.device>> \in H
      BY Zenon DEF Live
    <3> QED BY <1>6, <1>15, Zenon
  <2>2. \A e \in devices : e \notin H => e \in devices'
    <3>1. \A e \in devices : e = <<e[1], e[2]>>
      BY <1>1 DEF TypeOK
    <3> QED BY <1>2, <3>1
  <2> HIDE DEF H
  <2> QED BY <1>4, <1>7, <1>8, <1>9, <1>15, <2>1, <2>2, PairedCut, Zenon
<1>16. TypeOK'
  <2>1. devices' \subseteq devices /\ cached' \subseteq cached
    BY <1>2, Zenon
  <2> QED BY <1>1, <1>3, <1>5, <1>7, <1>8, <1>9, <2>1, Zenon DEF TypeOK
<1>17. Kept
  BY <1>7, <1>8, Zenon DEF Kept
<1> QED BY <1>1, <1>3, <1>12, <1>13, <1>14, <1>15, <1>16, <1>17, Zenon DEF IInv, Faultless

(* POST /account/password.                                                 *)
LEMMA PasswordStep ==
    ASSUME IInv, NEW t, NEW p \in Passwords, NEW logoutDevices \in BOOLEAN,
           NEW fail, Counted(fail), ChangePassword(t, p, logoutDevices, fail)
    PROVE  IInv' /\ Kept
<1>1. TypeOK /\ Numbered /\ Once /\ Unspent /\ Mirrored /\ Homed /\ Ended /\ Faultless
  BY Zenon DEF IInv
<1> DEFINE done == "password" \notin fail
           Others(table, s) == OfUser(table, s) \ OfDevice(table, s)
<1>2. PICK s \in sessions :
         /\ ~s.revoked /\ Commits(fail)
         /\ stored' = IF done THEN [stored EXCEPT ![s.user].pw = p] ELSE stored
         /\ users' = IF done THEN [users EXCEPT ![s.user].pw = p] ELSE users
         /\ access' = Revoke(done /\ logoutDevices /\ "access" \notin fail, access, Others(access, s))
         /\ refresh' = Revoke(done /\ logoutDevices /\ "refresh" \notin fail, refresh, Others(refresh, s))
         /\ sessions' = Revoke(done /\ logoutDevices, sessions, Others(sessions, s))
         /\ UNCHANGED <<devices, logins, cached, answers, past, issued>>
  BY Zenon DEF ChangePassword, Authenticated, Valid, RevokeOthers
<1>3. faults' \in 0 .. MaxFaults /\ (faults' = 0 => faults = 0 /\ fail = {})
  BY <1>1, <1>2, Counting, Zenon
<1>4. access \in SUBSET Credentials /\ sessions \in SUBSET Credentials /\ refresh \in SUBSET Credentials
  BY <1>1, Zenon DEF TypeOK
<1>5. UNCHANGED <<devices, logins, cached, loggedOut, closed, exchanged, past, issued>>
  BY <1>2, Zenon DEF answers
<1>6. \A table : /\ Others(table, s) \in SUBSET table
                 /\ \A r \in table : r \in Others(table, s) <=> r.user = s.user /\ r.device # s.device
  BY Zenon DEF OfUser, OfDevice
<1> HIDE DEF Others
<1>7. /\ access' \in SUBSET Credentials /\ Live(access') \subseteq Live(access)
      /\ (done /\ logoutDevices /\ "access" \notin fail) => Live(access') = Live(access) \ Others(access, s)
      /\ ~(done /\ logoutDevices /\ "access" \notin fail) => access' = access
      /\ \A q \in access : q.revoked => q \in access'
  <2>1. RevokedTo(done /\ logoutDevices /\ "access" \notin fail, access, Others(access, s), access')
    BY <1>2, <1>4, <1>6, Revoking, Zenon
  <2> QED BY <2>1, Zenon DEF RevokedTo
<1>8. /\ refresh' \in SUBSET Credentials /\ Live(refresh') \subseteq Live(refresh)
      /\ (done /\ logoutDevices /\ "refresh" \notin fail) => Live(refresh') = Live(refresh) \ Others(refresh, s)
      /\ ~(done /\ logoutDevices /\ "refresh" \notin fail) => refresh' = refresh
      /\ \A q \in refresh : q.revoked => q \in refresh'
  <2>1. RevokedTo(done /\ logoutDevices /\ "refresh" \notin fail, refresh, Others(refresh, s), refresh')
    BY <1>2, <1>4, <1>6, Revoking, Zenon
  <2> QED BY <2>1, Zenon DEF RevokedTo
<1>9. /\ sessions' \in SUBSET Credentials /\ Live(sessions') \subseteq Live(sessions)
      /\ (done /\ logoutDevices) => Live(sessions') = Live(sessions) \ Others(sessions, s)
      /\ ~(done /\ logoutDevices) => sessions' = sessions
  <2>1. RevokedTo(done /\ logoutDevices, sessions, Others(sessions, s), sessions')
    BY <1>2, <1>4, <1>6, Revoking, Zenon
  <2> QED BY <2>1, Zenon DEF RevokedTo
<1>10. /\ users' \in [Users -> Accounts \cup {NoUser}] /\ stored' \in [Users -> Accounts \cup {NoUser}]
       /\ AccountsSame' /\ AccountsKept
  <2>1. CASE ~done
    BY <1>1, <1>2, <2>1, Zenon DEF TypeOK, Mirrored, AccountsSame, AccountsKept
  <2>2. CASE done
    <3>1. s.user \in Users /\ users[s.user] # NoUser
      <4>1. s \in Live(sessions)
        BY <1>2, Zenon DEF Live
      <4> QED BY <1>1, <4>1, Typed, Zenon DEF Homed
    <3>2. /\ users \in [Users -> Accounts \cup {NoUser}] /\ stored \in [Users -> Accounts \cup {NoUser}]
          /\ SameAccount(users[s.user], stored[s.user])
      BY <1>1, <3>1, Zenon DEF TypeOK, Mirrored, AccountsSame
    <3>3. stored[s.user] # NoUser
      BY <3>1, <3>2, Zenon DEF SameAccount
    <3>4. users[s.user] \in Accounts /\ stored[s.user] \in Accounts
      BY <3>1, <3>2, <3>3, Zenon
    <3> DEFINE a == [users[s.user] EXCEPT !.pw = p]
               b == [stored[s.user] EXCEPT !.pw = p]
    <3>5. /\ a \in Accounts /\ a.pw = p /\ a.locked = users[s.user].locked
          /\ a.suspended = users[s.user].suspended /\ a.deactivated = users[s.user].deactivated
      BY <3>4 DEF Accounts
    <3>6. /\ b \in Accounts /\ b.pw = p /\ b.locked = stored[s.user].locked
          /\ b.suspended = stored[s.user].suspended /\ b.deactivated = stored[s.user].deactivated
      BY <3>4 DEF Accounts
    <3>7. users' = [users EXCEPT ![s.user] = a] /\ stored' = [stored EXCEPT ![s.user] = b]
      BY <1>2, <2>2, <3>2
    <3> HIDE DEF a, b
    <3>8. a # NoUser /\ b # NoUser
      BY <3>5, <3>6, Absence, Zenon
    <3>9. SameAccount(a, b)
      BY <3>1, <3>2, <3>5, <3>6, <3>8, Zenon DEF SameAccount
    <3>10. users[s.user].deactivated => a.deactivated
      BY <3>5, Zenon
    <3> QED BY <1>1, <3>1, <3>5, <3>6, <3>7, <3>9, <3>10, AccountStep, Zenon
  <2> QED BY <2>1, <2>2, Zenon
<1>11. Numbered' /\ Once' /\ Unspent'
  <2>1. \A x \in loggedOut' : x[2] <= issued
    BY <1>1, <1>5, Zenon DEF Numbered
  <2> QED BY <1>1, <1>5, <1>7, <1>8, <1>9, <2>1, Shrinking, Zenon
<1>12. Homed' /\ Ended'
  BY <1>1, <1>5, <1>7, <1>8, <1>9, <1>10, StillEnded, Zenon
<1>13. Mirrored'
  BY <1>1, <1>5, <1>10, Zenon DEF Mirrored
<1>14. ASSUME fail = {}, Paired PROVE Paired'
  <2>1. done /\ "access" \notin fail /\ "refresh" \notin fail
    BY <1>14, Zenon
  <2>2. CASE ~logoutDevices
    <3>1. access' = access /\ refresh' = refresh /\ sessions' = sessions
      BY <1>7, <1>8, <1>9, <2>2, Zenon
    <3> QED BY <1>5, <1>14, <3>1, Zenon DEF Paired
  <2>3. CASE logoutDevices
    <3> DEFINE H == {s.user} \X (Devices \ {s.device})
    <3>1. \A table \in SUBSET Credentials :
             Live(table) \ Others(table, s) = {r \in Live(table) : <<r.user, r.device>> \notin H}
      <4> SUFFICES ASSUME NEW table \in SUBSET Credentials, NEW r \in table
                   PROVE  r \in Others(table, s) <=> <<r.user, r.device>> \in H
        BY Zenon DEF Live
      <4>1. r.device \in Devices
        BY DEF Credentials
      <4> QED BY <1>6, <4>1, Zenon
    <3>2. \A e \in devices : e \in devices'
      BY <1>5, Zenon
    <3> HIDE DEF H
    <3> QED BY <1>4, <1>7, <1>8, <1>9, <1>14, <2>1, <2>3, <3>1, <3>2, PairedCut, Zenon
  <2> QED BY <2>2, <2>3, Zenon
<1>15. TypeOK'
  BY <1>1, <1>3, <1>5, <1>7, <1>8, <1>9, <1>10, Zenon DEF TypeOK
<1>16. Kept
  BY <1>7, <1>8, Zenon DEF Kept
<1> QED BY <1>1, <1>3, <1>11, <1>12, <1>13, <1>14, <1>15, <1>16, Zenon DEF IInv, Faultless

(* PUT /admin/lock/{userId} and PUT /admin/suspend/{userId}.               *)
LEMMA AccountStateStep ==
    ASSUME IInv, NEW u \in Users, NEW locked \in BOOLEAN, NEW suspended \in BOOLEAN,
           NEW fail, Counted(fail), SetAccountState(u, locked, suspended, fail)
    PROVE  IInv' /\ Kept
<1>1. TypeOK /\ Numbered /\ Once /\ Unspent /\ Mirrored /\ Homed /\ Ended /\ Faultless
  BY Zenon DEF IInv
<1>2. /\ users[u] # NoUser /\ Commits(fail)
      /\ UNCHANGED <<devices, access, refresh, logins, cached, sessions, answers, past, issued>>
      /\ \/ UNCHANGED <<stored, users>>
         \/ /\ stored' = [stored EXCEPT ![u].locked = locked, ![u].suspended = suspended]
            /\ users' = [users EXCEPT ![u].locked = locked, ![u].suspended = suspended]
  BY Zenon DEF SetAccountState
<1>3. faults' \in 0 .. MaxFaults /\ (faults' = 0 => faults = 0 /\ fail = {})
  BY <1>1, <1>2, Counting, Zenon
<1>4. /\ users' \in [Users -> Accounts \cup {NoUser}] /\ stored' \in [Users -> Accounts \cup {NoUser}]
      /\ AccountsSame' /\ AccountsKept
  <2>1. CASE UNCHANGED <<stored, users>>
    BY <1>1, <2>1, Zenon DEF TypeOK, Mirrored, AccountsSame, AccountsKept
  <2>2. CASE /\ stored' = [stored EXCEPT ![u].locked = locked, ![u].suspended = suspended]
             /\ users' = [users EXCEPT ![u].locked = locked, ![u].suspended = suspended]
    <3>1. /\ users \in [Users -> Accounts \cup {NoUser}] /\ stored \in [Users -> Accounts \cup {NoUser}]
          /\ SameAccount(users[u], stored[u])
      BY <1>1, Zenon DEF TypeOK, Mirrored, AccountsSame
    <3>2. stored[u] # NoUser
      BY <1>2, <3>1, Zenon DEF SameAccount
    <3>3. users[u] \in Accounts /\ stored[u] \in Accounts
      BY <1>2, <3>1, <3>2, Zenon
    <3> DEFINE a == [users[u] EXCEPT !.locked = locked, !.suspended = suspended]
               b == [stored[u] EXCEPT !.locked = locked, !.suspended = suspended]
    <3>4. /\ a \in Accounts /\ a.pw = users[u].pw /\ a.locked = locked
          /\ a.suspended = suspended /\ a.deactivated = users[u].deactivated
      BY <3>3, Zenon DEF Accounts
    <3>5. /\ b \in Accounts /\ b.pw = stored[u].pw /\ b.locked = locked
          /\ b.suspended = suspended /\ b.deactivated = stored[u].deactivated
      BY <3>3, Zenon DEF Accounts
    <3>6. users' = [users EXCEPT ![u] = a] /\ stored' = [stored EXCEPT ![u] = b]
      BY <2>2, <3>1, <3>3, Zenon DEF Accounts
    <3> HIDE DEF a, b
    <3>7. a # NoUser /\ b # NoUser
      BY <3>4, <3>5, Absence, Zenon
    <3>8. SameAccount(a, b)
      BY <1>2, <3>1, <3>4, <3>5, <3>7, Zenon DEF SameAccount
    <3>9. users[u].deactivated => a.deactivated
      BY <3>4, Zenon
    <3> QED BY <1>1, <3>4, <3>5, <3>6, <3>8, <3>9, AccountStep, Zenon
  <2> QED BY <1>2, <2>1, <2>2, Zenon
<1>5. Numbered' /\ Once' /\ Unspent' /\ Homed' /\ Ended' /\ (Paired => Paired') /\ Kept
  BY <1>1, <1>2, <1>4, Resting, Zenon
<1>6. Mirrored'
  BY <1>1, <1>2, <1>4, Zenon DEF Mirrored
<1>7. TypeOK'
  BY <1>1, <1>2, <1>3, <1>4, Zenon DEF TypeOK, answers
<1> QED BY <1>1, <1>3, <1>5, <1>6, <1>7, Zenon DEF IInv, Faultless

-----------------------------------------------------------------------------
(* Time and restarts.                                                      *)

(* The clock passes the expiry of a token.                                 *)
LEMMA ExpireStep ==
    ASSUME IInv, NEW t \in Tokens, Expire(t)
    PROVE  IInv' /\ Kept
<1>1. TypeOK /\ Numbered /\ Once /\ Unspent /\ Mirrored /\ Homed /\ Ended /\ Faultless
  BY Zenon DEF IInv
<1>2. /\ past' = past \cup {t} /\ faults' = faults
      /\ UNCHANGED <<users, stored, devices, cached, access, refresh, logins, sessions, issued, answers>>
  BY Zenon DEF Expire, rows, memory
<1>3. AccountsKept
  BY <1>2, Zenon DEF AccountsKept
<1>4. Numbered' /\ Once' /\ Unspent' /\ Homed' /\ Ended' /\ (Paired => Paired') /\ Kept
  BY <1>1, <1>2, <1>3, Resting, Zenon
<1>5. Mirrored'
  BY <1>1, <1>2, Zenon DEF Mirrored, AccountsSame
<1>6. TypeOK'
  BY <1>1, <1>2, Zenon DEF TypeOK, answers
<1> QED BY <1>1, <1>2, <1>4, <1>5, <1>6, Zenon DEF IInv, Faultless

(* hydrate_local_database(): the sessions are copies of the rows.          *)
LEMMA RestartStep ==
    ASSUME IInv, Restart
    PROVE  IInv' /\ Kept
<1> DEFINE copy(r) == [r EXCEPT !.finite = FALSE]
<1>1. TypeOK /\ Numbered /\ Once /\ Unspent /\ Mirrored /\ Homed /\ Ended /\ Faultless
  BY Zenon DEF IInv
<1>2. /\ users' = stored /\ cached' = devices
      /\ \A x : x \in sessions' <=> \E r \in access : x = copy(r)
      /\ UNCHANGED <<stored, devices, access, refresh, logins, loggedOut, closed, exchanged, past, issued, faults>>
  BY Zenon DEF Restart, rows, answers
<1>3. access \in SUBSET Credentials /\ stored \in [Users -> Accounts \cup {NoUser}] /\ closed \subseteq Users
  BY <1>1, Zenon DEF TypeOK
<1>4. \A r \in Credentials : /\ copy(r) \in Credentials /\ copy(r).revoked = r.revoked
                             /\ copy(r).user = r.user /\ copy(r).device = r.device
                             /\ copy(r).token = r.token /\ copy(r).ver = r.ver
  BY Zenon DEF Credentials
<1> HIDE DEF copy
<1>5. \A r \in access : Same(r, copy(r)) /\ Same(copy(r), r) /\ copy(r).revoked = r.revoked
  BY <1>3, <1>4, Zenon DEF Same
<1>6. /\ \A x \in Live(sessions') : \E r \in Live(access) : x = copy(r)
      /\ \A r \in Live(access) : copy(r) \in Live(sessions')
  BY <1>2, <1>5, Zenon DEF Live
<1>7. \A r \in Live(access) : r \in access
  BY Zenon DEF Live
<1>8. \A u \in Users : /\ users[u] # NoUser => stored[u] # NoUser
                       /\ users[u] # NoUser => (users[u].deactivated => stored[u].deactivated)
  BY <1>1, Zenon DEF Mirrored, AccountsSame, SameAccount
<1>9. Numbered'
  BY <1>1, <1>2, <1>5, <1>6, <1>7 DEF Numbered, Same
<1>10. Once'
  <2>1. LiveOnce(sessions')
    BY <1>1, <1>5, <1>6, <1>7 DEF Once, LiveOnce, Same
  <2> QED BY <1>1, <1>2, <2>1, Zenon DEF Once, LiveOnce
<1>11. Unspent'
  BY <1>1, <1>2, Zenon DEF Unspent, SingleUse
<1>12. Mirrored'
  BY <1>2, Zenon DEF Mirrored, AccountsSame, SameAccount
<1>13. Homed'
  <2>1. \A r \in Live(access) : r.user \in Users /\ users[r.user] # NoUser
    BY <1>1, Typed, Zenon DEF Homed
  <2>2. \A r \in Live(access) : stored[r.user] # NoUser
    BY <1>8, <2>1, Zenon
  <2>3. \A x \in Live(sessions') : stored[x.user] # NoUser
    <3> SUFFICES ASSUME NEW x \in Live(sessions') PROVE stored[x.user] # NoUser
      BY Zenon
    <3>1. PICK r \in Live(access) : x = copy(r)
      BY <1>6, Zenon
    <3>2. x.user = r.user
      BY <1>5, <1>7, <3>1, Zenon DEF Same
    <3> QED BY <2>2, <3>2, Zenon
  <2> QED BY <1>2, <2>2, <2>3, Zenon DEF Homed, Live
<1>14. Ended'
  <2>1. \A u \in closed : stored[u] # NoUser /\ stored[u].deactivated
    <3>1. \A u \in closed : u \in Users /\ users[u] # NoUser /\ users[u].deactivated
      BY <1>1, <1>3, Zenon DEF Ended
    <3> QED BY <1>8, <3>1
  <2>2. \A x \in Live(sessions') : x.token \notin loggedOut /\ x.user \notin closed
    <3> SUFFICES ASSUME NEW x \in Live(sessions') PROVE x.token \notin loggedOut /\ x.user \notin closed
      BY Zenon
    <3>1. PICK r \in Live(access) : x = copy(r)
      BY <1>6, Zenon
    <3>2. x.user = r.user /\ x.token = r.token
      BY <1>5, <1>7, <3>1, Zenon DEF Same
    <3> QED BY <1>1, <3>2, Zenon DEF Ended
  <2> QED BY <1>1, <1>2, <2>1, <2>2, Zenon DEF Ended
<1>15. Paired => Paired'
  <2> SUFFICES ASSUME Paired PROVE Paired'
    BY Zenon
  <2>1. \A x \in Live(sessions') : \E r \in Live(access') : Same(r, x)
    BY <1>2, <1>5, <1>6, <1>7
  <2>2. \A r \in Live(access') : \E x \in Live(sessions') : Same(r, x)
    BY <1>2, <1>5, <1>6, <1>7, Zenon
  <2>3. \A x \in Live(refresh') : \E y \in Live(sessions') : y.user = x.user /\ y.device = x.device
    <3> SUFFICES ASSUME NEW x \in Live(refresh)
                 PROVE  \E y \in Live(sessions') : y.user = x.user /\ y.device = x.device
      BY <1>2, Zenon
    <3>1. PICK y \in Live(sessions) : y.user = x.user /\ y.device = x.device
      BY Zenon DEF Paired
    <3>2. PICK r \in Live(access) : Same(r, y)
      BY Zenon DEF Paired
    <3> QED BY <1>5, <1>6, <1>7, <3>1, <3>2, ZenonT(30) DEF Same
  <2> QED BY <1>2, <2>1, <2>2, <2>3, Zenon DEF Paired
<1>16. TypeOK'
  <2>1. sessions' \subseteq Credentials
    BY <1>2, <1>3, <1>4, Zenon
  <2>2. users' \in [Users -> Accounts \cup {NoUser}]
    BY <1>2, <1>3, Zenon
  <2> QED BY <1>1, <1>2, <2>1, <2>2, Zenon DEF TypeOK
<1>17. Kept
  BY <1>2, Zenon DEF Kept
<1> QED BY <1>1, <1>2, <1>9, <1>10, <1>11, <1>12, <1>13, <1>14, <1>15, <1>16, <1>17, Zenon DEF IInv, Faultless

-----------------------------------------------------------------------------
(* The theorem.                                                            *)

(* The server starts empty, or with a session of the older hash.           *)
LEMMA InitIInv == Init => IInv
<1> SUFFICES ASSUME Init PROVE IInv
  BY Zenon
<1>1. /\ users = stored /\ cached = devices /\ sessions = access /\ refresh = {} /\ logins = {} /\ past = {}
      /\ faults = 0 /\ loggedOut = {} /\ closed = {} /\ exchanged = [t \in Tokens |-> 0]
  BY Zenon DEF Init
<1> DEFINE Start ==
             /\ stored \in [Users -> Accounts \cup {NoUser}] /\ devices \subseteq Users \X Devices
             /\ access \subseteq Credentials /\ issued \in 0 .. MaxGrants
             /\ \A r \in access : /\ r.token[2] <= issued /\ stored[r.user] # NoUser
                                  /\ <<r.user, r.device>> \in devices
             /\ \A r, s \in access : r = s
<1>2. Start
  <2>1. CASE stored = [u \in Users |-> NoUser] /\ devices = {} /\ access = {} /\ issued = 0
    BY <2>1, Bounds
  <2>2. ASSUME NEW u \in Users, NEW d \in Devices, NEW p \in Passwords,
               stored = [w \in Users |-> IF w = u THEN NewAccount(p) ELSE NoUser],
               devices = {<<u, d>>},
               access = {[user |-> u, device |-> d, token |-> <<"access", 1>>, ver |-> "v3",
                          revoked |-> FALSE, finite |-> FALSE]},
               issued = 1
        PROVE  Start
    <3> DEFINE row == [user |-> u, device |-> d, token |-> <<"access", 1>>, ver |-> "v3",
                       revoked |-> FALSE, finite |-> FALSE]
    <3>1. NewAccount(p) \in Accounts
      BY DEF NewAccount, Accounts
    <3>2. NewAccount(p) # NoUser
      BY <3>1, Absence, Zenon
    <3>3. 1 \in Grants /\ issued \in 0 .. MaxGrants
      BY <2>2, Bounds DEF Grants
    <3>4. <<"access", 1>> \in Tokens
      BY <3>3, TokenFacts, Zenon
    <3>5. row \in Credentials /\ row.user = u /\ row.device = d /\ row.token[2] = 1
      BY <3>4 DEF Credentials
    <3>6. stored \in [Users -> Accounts \cup {NoUser}] /\ stored[u] = NewAccount(p)
      BY <2>2, <3>1
    <3>7. row.token[2] <= issued
      BY <2>2, <3>5
    <3>8. access = {row} /\ <<u, d>> \in Users \X Devices
      BY <2>2, Zenon
    <3> HIDE DEF row
    <3>9. \A r \in access : /\ r.token[2] <= issued /\ stored[r.user] # NoUser
                            /\ <<r.user, r.device>> \in devices
      BY <2>2, <3>2, <3>5, <3>6, <3>7, <3>8, Zenon
    <3>10. devices \subseteq Users \X Devices /\ access \subseteq Credentials /\ \A r, s \in access : r = s
      BY <2>2, <3>5, <3>8, Zenon
    <3> QED BY <3>3, <3>6, <3>9, <3>10, Zenon
  <2> QED BY <2>1, <2>2, Zenon DEF Init
<1>3. TypeOK
  <2>1. exchanged \in [Tokens -> Nat] /\ faults \in 0 .. MaxFaults
    BY <1>1, Bounds
  <2> QED BY <1>1, <1>2, <2>1, Zenon DEF TypeOK
<1>4. Live(refresh) = {}
  BY <1>1, Zenon DEF Live
<1>5. Numbered
  BY <1>1, <1>2, <1>4, Zenon DEF Numbered, Live
<1>6. Once
  BY <1>1, <1>2, <1>4, Zenon DEF Once, LiveOnce, Live
<1>7. Unspent
  <2>1. \A t \in Tokens : exchanged[t] = 0 /\ exchanged[t] <= 1
    BY <1>1
  <2> QED BY <1>1, <1>4, <2>1, Zenon DEF Unspent, SingleUse
<1>8. Mirrored
  BY <1>1, Zenon DEF Mirrored, AccountsSame, SameAccount
<1>9. Homed
  BY <1>1, <1>2, Zenon DEF Homed, Live
<1>10. Ended
  BY <1>1, Zenon DEF Ended
<1>11. Paired
  <2>1. \A r \in Live(access) : Same(r, r)
    BY Zenon DEF Same
  <2> QED BY <1>1, <1>2, <1>4, <2>1, Zenon DEF Paired, Live
<1> QED BY <1>3, <1>5, <1>6, <1>7, <1>8, <1>9, <1>10, <1>11, Zenon DEF IInv, Faultless

(* The invariant is what CredentialsEnd asks of every state.               *)
LEMMA IInvSound == IInv => TypeOK /\ EndedStaysEnded /\ SingleUse /\ MemoryMatchesRows
<1> SUFFICES ASSUME IInv PROVE TypeOK /\ EndedStaysEnded /\ SingleUse /\ MemoryMatchesRows
  BY Zenon
<1>1. TypeOK /\ Numbered /\ Once /\ Unspent /\ Mirrored /\ Homed /\ Ended /\ Faultless
  BY Zenon DEF IInv
<1>2. /\ users \in [Users -> Accounts \cup {NoUser}] /\ stored \in [Users -> Accounts \cup {NoUser}]
      /\ closed \subseteq Users
  BY <1>1, Zenon DEF TypeOK
<1>3. \A u \in Users : SameAccount(users[u], stored[u])
  BY <1>1, Zenon DEF Mirrored, AccountsSame
<1>4. EndedStaysEnded
  <2>1. \A t \in loggedOut : \A r \in access \cup sessions : r.token = t => r.revoked
    BY <1>1, Zenon DEF Ended, Live
  <2>2. \A u \in closed : \A r \in access \cup refresh \cup sessions : r.user = u => r.revoked
    BY <1>1, Zenon DEF Ended, Live
  <2>3. \A u \in closed : users[u].deactivated /\ stored[u].deactivated
    BY <1>1, <1>2, <1>3, Zenon DEF Ended, SameAccount
  <2> QED BY <2>1, <2>2, <2>3, Zenon DEF EndedStaysEnded
<1>5. AccountsMirrored
  <2> SUFFICES ASSUME NEW u \in Users
               PROVE  \/ users[u] = stored[u]
                      \/ users[u].deactivated /\ [users[u] EXCEPT !.pw = stored[u].pw] = stored[u]
    BY <1>1, Zenon DEF AccountsMirrored, Mirrored
  <2>1. CASE users[u] = NoUser
    BY <1>3, <2>1, Zenon DEF SameAccount
  <2>2. CASE users[u] # NoUser
    <3>1. /\ stored[u] # NoUser /\ users[u].locked = stored[u].locked /\ users[u].suspended = stored[u].suspended
          /\ users[u].deactivated = stored[u].deactivated
          /\ users[u].pw = stored[u].pw \/ users[u].deactivated
      BY <1>3, <2>2, Zenon DEF SameAccount
    <3>2. users[u] \in Accounts /\ stored[u] \in Accounts
      BY <1>2, <2>2, <3>1, Zenon
    <3>3. [users[u] EXCEPT !.pw = stored[u].pw] = stored[u]
      BY <3>1, <3>2 DEF Accounts
    <3>4. users[u].pw = stored[u].pw => users[u] = stored[u]
      BY <3>1, <3>2 DEF Accounts
    <3> QED BY <3>1, <3>3, <3>4, Zenon
  <2> QED BY <2>1, <2>2, Zenon
<1>6. Paired => CredentialsMirrored
  <2> SUFFICES ASSUME Paired PROVE CredentialsMirrored
    BY Zenon
  <2>1. \A x : x \in Unrevoked(sessions) <=> x \in Unrevoked(access)
    <3>1. \A x : x \in Unrevoked(sessions) <=> \E s \in Live(sessions) : x = <<s.user, s.device, s.token, s.ver>>
      BY Zenon DEF Unrevoked, Live
    <3>2. \A x : x \in Unrevoked(access) <=> \E s \in Live(access) : x = <<s.user, s.device, s.token, s.ver>>
      BY Zenon DEF Unrevoked, Live
    <3> QED BY <3>1, <3>2 DEF Paired, Same
  <2>2. \A r \in access \cup refresh : ~r.revoked => <<r.user, r.device>> \in devices
    BY Zenon DEF Paired, Live
  <2>3. \A r \in refresh : ~r.revoked => \E s \in OfDevice(sessions, r) : ~s.revoked
    BY Zenon DEF Paired, Live, OfDevice, OfUser
  <2> QED BY <2>1, <2>2, <2>3, Zenon DEF CredentialsMirrored
<1> QED BY <1>1, <1>4, <1>5, <1>6, Zenon DEF Unspent, MemoryMatchesRows, Faultless

INSTANCE FiniteSetTheorems

(* The commits of a handler are few, and so are those that fail.           *)
LEMMA FailuresCounted ==
    ASSUME NEW S, IsFiniteSet(S), NEW fail \in Failing(S)
    PROVE  Counted(fail)
<1>1. fail \in SUBSET S /\ faults + Cardinality(fail) <= MaxFaults
  BY Zenon DEF Failing
<1>2. IsFiniteSet(fail)
  BY <1>1, FS_Subset, Zenon
<1>3. Cardinality(fail) \in Nat /\ (Cardinality(fail) = 0 => fail = {})
  BY <1>2, FS_CardinalityType, FS_EmptySet, Zenon
<1> QED BY <1>1, <1>3, Zenon DEF Counted

(* Four commits are finitely many.                                         *)
LEMMA FewCommits ==
    \A a, b, c, d : /\ IsFiniteSet({a}) /\ IsFiniteSet({a, b})
                    /\ IsFiniteSet({a, b, c}) /\ IsFiniteSet({a, b, c, d})
<1> TAKE a, b, c, d
<1>1. IsFiniteSet({a})
  BY FS_Singleton, Zenon
<1>2. IsFiniteSet({a, b})
  <2>1. IsFiniteSet({a} \cup {b})
    BY <1>1, FS_AddElement, Zenon
  <2>2. {a} \cup {b} = {a, b}
    BY Zenon
  <2> QED BY <2>1, <2>2, Zenon
<1>3. IsFiniteSet({a, b, c})
  <2>1. IsFiniteSet({a, b} \cup {c})
    BY <1>2, FS_AddElement, Zenon
  <2>2. {a, b} \cup {c} = {a, b, c}
    BY Zenon
  <2> QED BY <2>1, <2>2, Zenon
<1>4. IsFiniteSet({a, b, c, d})
  <2>1. IsFiniteSet({a, b, c} \cup {d})
    BY <1>3, FS_AddElement, Zenon
  <2>2. {a, b, c} \cup {d} = {a, b, c, d}
    BY Zenon
  <2> QED BY <2>1, <2>2, Zenon
<1> QED BY <1>1, <1>2, <1>3, <1>4, Zenon

(* Each handler makes finitely many.                                       *)
LEMMA CommitSets ==
    /\ IsFiniteSet({"user", "session"}) /\ IsFiniteSet({"session", "refresh"}) /\ IsFiniteSet({"session"})
    /\ IsFiniteSet({"insert"}) /\ IsFiniteSet({"consume", "session", "refresh"})
    /\ IsFiniteSet({"spend", "access", "newAccess", "newRefresh"}) /\ IsFiniteSet({"revoke", "insert"})
    /\ IsFiniteSet({"access", "refresh"}) /\ IsFiniteSet({"flag", "access", "refresh", "password"})
    /\ IsFiniteSet({"password", "access", "refresh"}) /\ IsFiniteSet({"update"})
    /\ \A ds \in SUBSET Devices : IsFiniteSet({"delete", "access", "refresh"} \X ds)
<1>1. \A ds \in SUBSET Devices : IsFiniteSet({"delete", "access", "refresh"} \X ds)
  BY Clients, FewCommits, FS_Subset, FS_Product, Zenon
<1> QED BY <1>1, FewCommits, Zenon

(* Every handler, the clock and a restart keep the invariant.              *)
LEMMA NextIInv ==
    ASSUME IInv, Next
    PROVE  IInv' /\ Kept
<1>1. CASE \E u \in Users, p \in Passwords, d \in Devices, quiet \in BOOLEAN,
              fail \in Failing({"user", "session"}) : Register(u, p, d, quiet, fail)
  BY <1>1, CommitSets, FailuresCounted, RegisterStep, Zenon
<1>2. CASE \E u \in Users, p \in Passwords, d \in Devices, ttl \in BOOLEAN,
              fail \in Failing({"session", "refresh"}) : PasswordLogin(u, p, d, ttl, fail)
  BY <1>2, CommitSets, FailuresCounted, LoginDone, Zenon DEF PasswordLogin
<1>3. CASE \E u \in Users, d \in Devices, fail \in Failing({"session"}) : AppserviceLogin(u, d, fail)
  BY <1>3, CommitSets, FailuresCounted, LoginDone, Zenon DEF AppserviceLogin
<1>4. CASE \E u \in Users, fail \in Failing({"insert"}) : MintLoginToken(u, fail)
  BY <1>4, CommitSets, FailuresCounted, MintStep, Zenon
<1>5. CASE \E t \in TokensOf("login"), d \in Devices, ttl \in BOOLEAN,
              fail \in Failing({"consume", "session", "refresh"}) : TokenLogin(t, d, ttl, fail)
  BY <1>5, CommitSets, FailuresCounted, TokenLoginStep, Zenon
<1>6. CASE \E t \in TokensOf("refresh"),
              fail \in Failing({"spend", "access", "newAccess", "newRefresh"}) : Refresh(t, fail)
  BY <1>6, CommitSets, FailuresCounted, RefreshStep, Zenon
<1>7. CASE \E t \in TokensOf("access"), fail \in Failing({"revoke", "insert"}) : Authenticate(t, fail)
  BY <1>7, CommitSets, FailuresCounted, AuthenticateStep, Zenon
<1>8. CASE \E t \in TokensOf("access"), fail \in Failing({"access", "refresh"}) : Logout(t, fail)
  BY <1>8, CommitSets, FailuresCounted, LogoutStep, Zenon
<1>9. CASE \E t \in TokensOf("access"), fail \in Failing({"access", "refresh"}) : LogoutAll(t, fail)
  BY <1>9, CommitSets, FailuresCounted, LogoutAllStep, Zenon
<1>10. CASE \E t \in TokensOf("access"),
               fail \in Failing({"flag", "access", "refresh", "password"}) : Deactivate(t, fail)
  BY <1>10, CommitSets, FailuresCounted, DeactivateStep, Zenon
<1>11. CASE \E t \in TokensOf("access"), ds \in SUBSET Devices \ {{}} :
               \E fail \in Failing({"delete", "access", "refresh"} \X ds) : DeleteDevices(t, ds, fail)
  BY <1>11, CommitSets, FailuresCounted, DeleteStep, Zenon
<1>12. CASE \E t \in TokensOf("access"), p \in Passwords, logoutDevices \in BOOLEAN,
               fail \in Failing({"password", "access", "refresh"}) : ChangePassword(t, p, logoutDevices, fail)
  BY <1>12, CommitSets, FailuresCounted, PasswordStep, Zenon
<1>13. CASE \E u \in Users, locked, suspended \in BOOLEAN, fail \in Failing({"update"}) :
               SetAccountState(u, locked, suspended, fail)
  BY <1>13, CommitSets, FailuresCounted, AccountStateStep, Zenon
<1>14. CASE \E t \in Tokens : Expire(t)
  BY <1>14, ExpireStep, Zenon
<1>15. CASE Restart
  BY <1>15, RestartStep, Zenon
<1> QED BY <1>1, <1>2, <1>3, <1>4, <1>5, <1>6, <1>7, <1>8, <1>9, <1>10, <1>11, <1>12, <1>13, <1>14, <1>15, ZenonT(30)
        DEF Next

(* So does a step that changes nothing here.                               *)
LEMMA StepIInv == IInv /\ [Next]_vars => IInv' /\ [Kept]_vars
<1> SUFFICES ASSUME IInv, [Next]_vars PROVE IInv' /\ [Kept]_vars
  BY Zenon
<1>1. CASE Next
  BY <1>1, NextIInv, Zenon
<1>2. CASE UNCHANGED vars
  <2>1. UNCHANGED <<users, stored, devices, cached, access, refresh, logins, sessions, past, issued, faults,
                    loggedOut, closed, exchanged>>
    BY <1>2, Zenon DEF vars, rows, memory, answers
  <2>2. IInv'
    BY <2>1, Zenon DEF IInv, TypeOK, Numbered, Once, LiveOnce, Unspent, SingleUse, Mirrored, AccountsSame, Homed,
                       Ended, Faultless, Paired
  <2> QED BY <1>2, <2>2, Zenon
<1> QED BY <1>1, <1>2, Zenon

-----------------------------------------------------------------------------
(* What works, and what a step owes OnlyRestartRevives.                    *)
Revived ==
    \A t \in TokensOf("access") :
        ~Works(t) /\ Works(t)' => t[2] > issued \/ (Restart /\ (t \in past \/ faults > 0))

(* The sessions that are not revoked were so before, or are new.           *)
NoneBack == \A s \in Live(sessions') : s \in Live(sessions) \/ s.token[2] = issued + 1

(* Such a step, in which no expiry is undone, revives nothing.             *)
LEMMA NoneBackSuffices ==
    ASSUME TypeOK, NoneBack, past \subseteq past'
    PROVE  Revived
<1> SUFFICES ASSUME NEW t \in TokensOf("access"), ~Works(t), Works(t)'
             PROVE  t[2] > issued
  BY Zenon DEF Revived
<1>1. PICK s \in sessions' : s.token = t /\ ~s.revoked /\ ~(s.finite /\ s.token \in past')
  BY Zenon DEF Works, Valid, Expired
<1>2. s \in Live(sessions) \/ s.token[2] = issued + 1
  BY <1>1, Zenon DEF NoneBack, Live
<1>3. s \notin Live(sessions)
  BY <1>1, Zenon DEF Works, Valid, Expired, Live
<1>4. issued \in Nat
  BY Bounds DEF TypeOK
<1> QED BY <1>1, <1>2, <1>3, <1>4

(* To revoke sessions, or to leave them alone, brings none back.           *)
LEMMA RevokingNoneBack ==
    ASSUME TypeOK, NEW ok, NEW match \in SUBSET sessions,
           sessions' = Revoke(ok, sessions, match) \/ sessions' = sessions
    PROVE  NoneBack
<1>1. sessions \in SUBSET Credentials
  BY Zenon DEF TypeOK
<1>2. Live(Revoke(ok, sessions, match)) \subseteq Live(sessions)
  BY <1>1, Revoking, Zenon DEF RevokedTo
<1> QED BY <1>2, Zenon DEF NoneBack

(* Nor does a session under a new token.                                   *)
LEMMA GrantingNoneBack ==
    ASSUME NEW u, NEW d, NEW ttl, NEW old, Live(old) \subseteq Live(sessions),
           sessions' = old \cup {Credential("access", u, d, ttl)}
    PROVE  NoneBack
<1>1. Credential("access", u, d, ttl).token[2] = issued + 1
  BY Zenon DEF Credential
<1> QED BY <1>1, Zenon DEF NoneBack, Live

(* The handlers that log in.                                               *)
LEMMA LoginsReviveNothing ==
    ASSUME NEW u, NEW d, NEW ttl, GrantSession(u, d, ttl) \/ UNCHANGED sessions
    PROVE  NoneBack
<1>1. ASSUME GrantSession(u, d, ttl)
      PROVE  NoneBack
  BY <1>1, GrantingNoneBack, Zenon DEF GrantSession
<1>2. ASSUME UNCHANGED sessions
      PROVE  NoneBack
  BY <1>2, Zenon DEF NoneBack
<1> QED BY <1>1, <1>2, Zenon

(* The exchange of a refresh token.                                        *)
LEMMA RefreshRevivesNothing ==
    ASSUME TypeOK, NEW t, NEW fail, Refresh(t, fail)
    PROVE  NoneBack
<1>1. PICK r \in refresh :
         \/ sessions' = sessions
         \/ sessions' = Revoke(TRUE, sessions, OfDevice(sessions, r))
         \/ sessions' = Revoke(TRUE, sessions, OfDevice(sessions, r))
                            \cup {Credential("access", r.user, r.device, TRUE)}
  BY Zenon DEF Refresh
<1>2. OfDevice(sessions, r) \in SUBSET sessions
  BY Chosen, Zenon
<1>3. sessions \in SUBSET Credentials
  BY Zenon DEF TypeOK
<1>4. Live(Revoke(TRUE, sessions, OfDevice(sessions, r))) \subseteq Live(sessions)
  BY <1>2, <1>3, Revoking, Zenon DEF RevokedTo
<1> QED BY <1>1, <1>2, <1>4, RevokingNoneBack, GrantingNoneBack, Zenon

(* The handlers that revoke.                                               *)
LEMMA EndingsReviveNothing ==
    ASSUME TypeOK, NEW t, NEW fail,
           \/ Logout(t, fail) \/ LogoutAll(t, fail) \/ Deactivate(t, fail)
           \/ \E ds : DeleteDevices(t, ds, fail)
           \/ \E p, logoutDevices : ChangePassword(t, p, logoutDevices, fail)
    PROVE  NoneBack
<1>1. CASE Logout(t, fail)
  <2>1. {r \in sessions : r.token = t} \in SUBSET sessions
    BY Zenon
  <2> QED BY <1>1, <2>1, RevokingNoneBack, Zenon DEF Logout
<1>2. CASE LogoutAll(t, fail)
  <2>1. PICK s \in sessions : sessions' = Revoke(TRUE, sessions, OfUser(sessions, s)) \/ sessions' = sessions
    BY <1>2, Zenon DEF LogoutAll, Revoke
  <2>2. OfUser(sessions, s) \in SUBSET sessions
    BY Chosen, Zenon
  <2> QED BY <2>1, <2>2, RevokingNoneBack, Zenon
<1>3. CASE Deactivate(t, fail)
  <2>1. PICK s : sessions' = Revoke(TRUE, sessions, OfUser(sessions, s)) \/ sessions' = sessions
    BY <1>3, Zenon DEF Deactivate
  <2>2. OfUser(sessions, s) \in SUBSET sessions
    BY Chosen, Zenon
  <2> QED BY <2>1, <2>2, RevokingNoneBack, Zenon
<1>4. CASE \E ds : DeleteDevices(t, ds, fail)
  <2>1. PICK match : match \in SUBSET sessions /\ sessions' = Revoke(TRUE, sessions, match)
    <3>1. PICK ds : DeleteDevices(t, ds, fail)
      BY <1>4, Zenon
    <3>2. PICK s \in sessions :
             LET gone == {d \in ds : <<s.user, d>> \in devices /\ <<"delete", d>> \notin fail}
                 Named(table, kind) == {r \in OfUser(table, s) : r.device \in gone /\ <<kind, r.device>> \notin fail}
             IN  sessions' = Revoke(TRUE, sessions, Named(sessions, "session"))
      BY <3>1, Zenon DEF DeleteDevices
    <3>3. OfUser(sessions, s) \in SUBSET sessions
      BY Chosen, Zenon
    <3> DEFINE match == {r \in OfUser(sessions, s) :
                            /\ r.device \in {d \in ds : <<s.user, d>> \in devices /\ <<"delete", d>> \notin fail}
                            /\ <<"session", r.device>> \notin fail}
    <3>4. match \in SUBSET sessions
      BY <3>3, Zenon
    <3> QED BY <3>2, <3>4, Zenon
  <2> QED BY <2>1, RevokingNoneBack, Zenon
<1>5. CASE \E p, logoutDevices : ChangePassword(t, p, logoutDevices, fail)
  <2>1. \E s, ok : sessions' = Revoke(ok, sessions, OfUser(sessions, s) \ OfDevice(sessions, s))
    BY <1>5, Zenon DEF ChangePassword, RevokeOthers
  <2>2. \A s : OfUser(sessions, s) \ OfDevice(sessions, s) \in SUBSET sessions
    BY Chosen, Zenon
  <2> QED BY <2>1, <2>2, RevokingNoneBack, Zenon
<1> QED BY <1>1, <1>2, <1>3, <1>4, <1>5, Zenon

(* A session moved to the new hash worked before.                          *)
LEMMA AuthenticateRevivesNothing ==
    ASSUME TypeOK, NEW t, NEW fail, Authenticate(t, fail)
    PROVE  Revived
<1>1. PICK s \in sessions : /\ s.token = t /\ Valid(s) /\ past' = past
                            /\ sessions' = (sessions \ {s}) \cup {[s EXCEPT !.ver = "v4"]}
  BY Zenon DEF Authenticate
<1>2. [s EXCEPT !.ver = "v4"].token = s.token
  BY <1>1 DEF TypeOK, Credentials
<1>3. \A r \in sessions' : Works(r.token) \/ r \in sessions
  BY <1>1, <1>2, Zenon DEF Works
<1> QED BY <1>1, <1>3, Zenon DEF Revived, Works, Valid, Expired

(* While no commit has failed, a restart finds in the rows the sessions    *)
(* there were, so what it revives had expired.                             *)
LEMMA RestartRevivesTheExpired ==
    ASSUME TypeOK, Faultless, Restart
    PROVE  Revived
<1> SUFFICES ASSUME NEW t \in TokensOf("access"), ~Works(t), Works(t)', faults = 0
             PROVE  t \in past
  <2>1. faults = 0 \/ faults > 0
    BY Bounds DEF TypeOK
  <2> QED BY <2>1, Zenon DEF Revived
<1>1. PICK s \in sessions' : s.token = t /\ ~s.revoked
  BY Zenon DEF Works, Valid
<1>2. PICK r \in access : s = [r EXCEPT !.finite = FALSE]
  BY <1>1, Zenon DEF Restart
<1>3. r \in Credentials
  BY Zenon DEF TypeOK
<1>4. s.token = r.token /\ s.revoked = r.revoked
  BY <1>2, <1>3 DEF Credentials
<1>5. ~r.revoked
  BY <1>1, <1>4
<1>6. r \in Live(access) /\ r.token = t
  BY <1>1, <1>4, <1>5, Zenon DEF Live
<1>7. Paired
  BY Zenon DEF Faultless
<1>8. PICK old \in Live(sessions) : old.token = t
  BY <1>6, <1>7, Zenon DEF Paired, Same
<1> QED BY <1>8, Zenon DEF Works, Valid, Expired, Live

(* No step revives a token but as OnlyRestartRevives allows.               *)
LEMMA StepRevives ==
    ASSUME IInv, [Next]_vars
    PROVE  [Revived]_vars
<1>0. TypeOK /\ Faultless
  BY Zenon DEF IInv
<1>1. CASE \E u \in Users, p \in Passwords, d \in Devices, quiet \in BOOLEAN,
              fail \in Failing({"user", "session"}) : Register(u, p, d, quiet, fail)
  <2>1. past' = past /\ \E u, d : GrantSession(u, d, FALSE) \/ UNCHANGED sessions
    BY <1>1, Zenon DEF Register, answers, memory
  <2> QED BY <1>0, <2>1, LoginsReviveNothing, NoneBackSuffices, Zenon
<1>2. CASE \/ \E u, p, d, ttl, fail : PasswordLogin(u, p, d, ttl, fail)
           \/ \E u, d, fail : AppserviceLogin(u, d, fail)
           \/ \E t, d, ttl, fail : TokenLogin(t, d, ttl, fail)
  <2> DEFINE Granted == past' = past /\ \E u, d, ttl : GrantSession(u, d, ttl) \/ UNCHANGED sessions
  <2>2. ASSUME NEW u, NEW d, NEW ttl, NEW fail, Login(u, d, ttl, fail)
        PROVE  GrantSession(u, d, ttl) \/ UNCHANGED sessions
    BY <2>2, Zenon DEF Login
  <2>3. ASSUME NEW u, NEW p, NEW d, NEW ttl, NEW fail, PasswordLogin(u, p, d, ttl, fail)
        PROVE  Granted
    BY <2>2, <2>3, Zenon DEF PasswordLogin
  <2>4. ASSUME NEW u, NEW d, NEW fail, AppserviceLogin(u, d, fail)
        PROVE  Granted
    BY <2>2, <2>4, Zenon DEF AppserviceLogin
  <2>5. ASSUME NEW t, NEW d, NEW ttl, NEW fail, TokenLogin(t, d, ttl, fail)
        PROVE  Granted
    BY <2>2, <2>5, Zenon DEF TokenLogin
  <2>1. Granted
    BY <1>2, <2>3, <2>4, <2>5, Zenon
  <2> QED BY <1>0, <2>1, LoginsReviveNothing, NoneBackSuffices, Zenon
<1>3. CASE \/ \E u, fail : MintLoginToken(u, fail)
           \/ \E u, locked, suspended, fail : SetAccountState(u, locked, suspended, fail)
           \/ \E t \in Tokens : Expire(t)
  <2>1. past \subseteq past' /\ UNCHANGED sessions
    BY <1>3, Zenon DEF MintLoginToken, SetAccountState, Expire, memory
  <2>2. NoneBack
    BY <2>1, Zenon DEF NoneBack
  <2> QED BY <1>0, <2>1, <2>2, NoneBackSuffices, Zenon
<1>4. CASE \E t, fail : Refresh(t, fail)
  <2>1. past' = past
    BY <1>4, Zenon DEF Refresh
  <2> QED BY <1>0, <1>4, <2>1, RefreshRevivesNothing, NoneBackSuffices, Zenon
<1>5. CASE \E t, fail : Authenticate(t, fail)
  BY <1>0, <1>5, AuthenticateRevivesNothing, Zenon
<1>6. CASE \E t, fail : \/ Logout(t, fail) \/ LogoutAll(t, fail) \/ Deactivate(t, fail)
                        \/ \E ds : DeleteDevices(t, ds, fail)
                        \/ \E p, logoutDevices : ChangePassword(t, p, logoutDevices, fail)
  <2>2. ASSUME NEW t, NEW fail, Logout(t, fail) PROVE past' = past
    BY <2>2, Zenon DEF Logout
  <2>3. ASSUME NEW t, NEW fail, LogoutAll(t, fail) PROVE past' = past
    BY <2>3, Zenon DEF LogoutAll
  <2>4. ASSUME NEW t, NEW fail, Deactivate(t, fail) PROVE past' = past
    BY <2>4, Zenon DEF Deactivate
  <2>5. ASSUME NEW t, NEW ds, NEW fail, DeleteDevices(t, ds, fail) PROVE past' = past
    BY <2>5, Zenon DEF DeleteDevices
  <2>6. ASSUME NEW t, NEW p, NEW all, NEW fail, ChangePassword(t, p, all, fail) PROVE past' = past
    BY <2>6, Zenon DEF ChangePassword
  <2>1. past' = past
    BY <1>6, <2>2, <2>3, <2>4, <2>5, <2>6, Zenon
  <2> QED BY <1>0, <1>6, <2>1, EndingsReviveNothing, NoneBackSuffices, Zenon
<1>7. CASE Restart
  BY <1>0, <1>7, RestartRevivesTheExpired, Zenon
<1>8. CASE UNCHANGED vars
  BY <1>8, Zenon
<1> QED BY <1>1, <1>2, <1>3, <1>4, <1>5, <1>6, <1>7, <1>8, ZenonT(30) DEF Next

(* A credential that a logout, a deletion, a password change or a          *)
(* deactivation ended stays ended, in memory and in the rows, a single-use *)
(* token is honoured once, memory and rows agree on accounts and devices,  *)
(* on revoked tokens until a commit fails, and only a restart brings a     *)
(* token back that had stopped working: for any users and devices,         *)
(* whatever commits fail and whenever the server restarts.                 *)
THEOREM CredentialsCorrect == Spec => CredentialsEnd
<1>1. IInv /\ [Next]_vars => IInv'
  BY StepIInv, Zenon
<1>2. IInv /\ [Next]_vars => [Kept]_vars
  BY StepIInv, Zenon
<1>3. [Kept]_vars => [\A r \in access \cup refresh : r.revoked => r \in access' \cup refresh']_vars
  BY Zenon DEF Kept
<1>4. IInv /\ [Next]_vars => [Revived]_vars
  BY StepRevives, Zenon
<1>5. [Revived]_vars => [\A t \in TokensOf("access") :
          ~Works(t) /\ Works(t)' => t[2] > issued \/ (Restart /\ (t \in past \/ faults > 0))]_vars
  BY Zenon DEF Revived
<1> QED BY InitIInv, IInvSound, <1>1, <1>2, <1>3, <1>4, <1>5, PTL
        DEF Spec, CredentialsEnd, RevocationIsOneWay, OnlyRestartRevives
=============================================================================
