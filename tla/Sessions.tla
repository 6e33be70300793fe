------------------------------ MODULE Sessions ------------------------------
(***************************************************************************)
(* Accounts and their credentials: auth_service.cpp, the request handlers  *)
(* of client_server.cpp that call it, and the rows of persistent_store.cpp *)
(* behind it.                                                              *)
(*                                                                         *)
(* Every handler runs with runtime.mutex held from its first read to its   *)
(* last write, so a handler is one step.  What interleaves is the requests *)
(* themselves, the passing of time, failing database writes and restarts.  *)
(* A handler makes several commits, and each may fail by itself: fail is   *)
(* the set of the commits of a step that do.  A crash in the middle of a   *)
(* handler is a step whose last commits fail, followed by Restart.         *)
(***************************************************************************)
EXTENDS Integers, FiniteSets

CONSTANTS
    Users,      \* the user ids clients name
    Devices,    \* the device ids clients name
    Passwords,  \* the passwords clients use
    Closed,     \* the hash "!deactivated", which no password matches
    NoUser,     \* no users row
    MaxLogins,  \* bound on the handlers that issue tokens, POST /refresh
    MaxGrants,  \* apart, and with it
    MaxExpired, \* bound on the tokens that expire
    MaxFaults   \* bound on the commits that fail

VARIABLES
    users,      \* LocalDatabase::users
    stored,     \* PersistentStore::users, which the database mirrors
    devices,    \* PersistentStore::devices
    cached,     \* ClientServerRuntime::devices
    access,     \* PersistentStore::access_tokens
    refresh,    \* PersistentStore::refresh_tokens
    logins,     \* PersistentStore::login_tokens
    sessions,   \* LocalDatabase::sessions
    past,       \* the tokens whose expires_at has passed
    issued,     \* how many handlers have issued tokens
    faults,     \* the number of commits that have failed
    loggedOut,  \* the access tokens POST /logout has answered 200 for
    closed,     \* the users POST /account/deactivate has answered 200 for
    exchanged   \* how often each single-use token has been honoured

rows == <<stored, devices, access, refresh, logins>>
memory == <<users, cached, sessions>>
answers == <<loggedOut, closed, exchanged>>
vars == <<rows, memory, answers, past, issued, faults>>

(* issue_token() never returns a token twice.  A handler issues at most    *)
(* one token of each kind: a token is the kind and the handler's number.   *)
Grants == 1 .. MaxGrants
TokensOf(kind) == {kind} \X Grants
Tokens == TokensOf("access") \cup TokensOf("refresh") \cup TokensOf("login")

Accounts ==
    [pw : Passwords \cup {Closed}, locked : BOOLEAN, suspended : BOOLEAN, deactivated : BOOLEAN]

(* A row of access_tokens or refresh_tokens, or a LocalSession: ver is the *)
(* version of the token's hash, finite says that expires_at has a value.   *)
Credentials ==
    [user : Users, device : Devices, token : Tokens, ver : {"v3", "v4"},
     revoked : BOOLEAN, finite : BOOLEAN]

LoginTokens == [user : Users, token : Tokens, used : BOOLEAN]

(* The bounds count logins, tokens and failed commits, a client has        *)
(* finitely many devices, and no account is taken for the absence of one.  *)
ASSUME Bounds == MaxLogins \in Nat /\ MaxGrants \in Nat \ {0} /\ MaxLogins <= MaxGrants /\ MaxFaults \in Nat
ASSUME Clients == IsFiniteSet(Devices)
ASSUME Absence == NoUser \notin Accounts

NewAccount(p) == [pw |-> p, locked |-> FALSE, suspended |-> FALSE, deactivated |-> FALSE]

(* An empty server, or one with an account that an earlier release signed  *)
(* in under a v3 hash.                                                     *)
Init ==
    /\ \/ /\ stored = [u \in Users |-> NoUser]
          /\ devices = {}
          /\ access = {}
          /\ issued = 0
       \/ \E u \in Users, d \in Devices, p \in Passwords :
             /\ stored = [w \in Users |-> IF w = u THEN NewAccount(p) ELSE NoUser]
             /\ devices = {<<u, d>>}
             /\ access = {[user |-> u, device |-> d, token |-> <<"access", 1>>, ver |-> "v3",
                           revoked |-> FALSE, finite |-> FALSE]}
             /\ issued = 1
    /\ users = stored
    /\ cached = devices
    /\ sessions = access
    /\ refresh = {}
    /\ logins = {}
    /\ past = {}
    /\ faults = 0
    /\ loggedOut = {}
    /\ closed = {}
    /\ exchanged = [t \in Tokens |-> 0]

-----------------------------------------------------------------------------
(* The commits of a step that may fail, given how many have failed so far. *)
Failing(commits) == {fail \in SUBSET commits : faults + Cardinality(fail) <= MaxFaults}

(* record_and_persist() and commit_persistent_transaction(): the commits   *)
(* in fail leave database and mirror as they were.                         *)
Commits(fail) == faults' = faults + Cardinality(fail)

(* is_expired(), and the test of find_session() and of the refresh lookup. *)
Expired(r) == r.finite /\ r.token \in past

(* Mutant: the revoked flag is not read.                                   *)
ValidUnlessExpired(r) == ~Expired(r)

Valid(r) == ~r.revoked /\ ~Expired(r)

(* The revoke_*() functions: one UPDATE over the rows that match, and      *)
(* nothing when it fails.  Revokes() is that they report a count above 0.  *)
Revoke(ok, table, match) ==
    IF ok THEN (table \ match) \cup {[r EXCEPT !.revoked = TRUE] : r \in match} ELSE table
Revokes(ok, match) == ok /\ \E r \in match : ~r.revoked

(* The WHERE clauses of those UPDATEs.                                     *)
OfUser(table, s) == {r \in table : r.user = s.user}
OfDevice(table, s) == {r \in OfUser(table, s) : r.device = s.device}
WithHash(table, t, ver) == {r \in table : r.token = t /\ r.ver = ver}

(* revoke_refresh_tokens_for_device() at the end of logout.                *)
EndRefresh(ok, s) == Revoke(ok, refresh, OfDevice(refresh, s))

(* The tokens of the user's other devices.                                 *)
RevokeOthers(ok, table, s) == Revoke(ok, table, OfUser(table, s) \ OfDevice(table, s))

Credential(kind, u, d, ttl) ==
    [user |-> u, device |-> d, token |-> <<kind, issued + 1>>, ver |-> "v4", revoked |-> FALSE, finite |-> ttl]

(* The calls of issue_token() of one handler.                              *)
IssueTokens(bound) ==
    /\ issued < bound
    /\ issued' = issued + 1

(* The account gate of complete_login() and login_local_user_by_id(): the  *)
(* state handed to login_policy() is suspended when both flags are set.    *)
LoginAllowed(account) ==
    /\ account # NoUser
    /\ ~account.deactivated
    /\ ~account.locked \/ account.suspended

(* The rest of a login: the device, unless there is one, and the access    *)
(* token in one transaction, then the session and the device cache.        *)
GrantSession(u, d, ttl) ==
    LET row == Credential("access", u, d, ttl)
    IN  /\ devices' = devices \cup {<<u, d>>}
        /\ access' = access \cup {row}
        /\ sessions' = sessions \cup {row}
        /\ cached' = cached \cup {<<u, d>>}

-----------------------------------------------------------------------------
(* POST /register, for a client and for an application service: make_user, *)
(* then a login on the new account, unless inhibit_login is set or the id  *)
(* is locked out by failed logins (quiet).  A login that fails costs the   *)
(* session, not the account.                                               *)
Register(u, p, d, quiet, fail) ==
    /\ users[u] = NoUser
    /\ stored[u] = NoUser
    /\ Commits(fail)
    /\ IF "user" \in fail
       THEN UNCHANGED <<rows, memory, issued>>
       ELSE /\ stored' = [stored EXCEPT ![u] = NewAccount(p)]
            /\ users' = [users EXCEPT ![u] = NewAccount(p)]
            /\ IF quiet \/ "session" \in fail
               THEN UNCHANGED <<devices, access, sessions, cached, issued>>
               ELSE GrantSession(u, d, FALSE) /\ IssueTokens(MaxLogins)
            /\ UNCHANGED <<refresh, logins>>
    /\ UNCHANGED <<answers, past>>

(* What POST /login does once the client has proved who it is: the session *)
(* and, when the client asked for one, a refresh token.  A refresh token   *)
(* that cannot be stored is a 500 and leaves the session in place.         *)
Login(u, d, ttl, fail) ==
    IF ~LoginAllowed(users[u]) \/ "session" \in fail
    THEN UNCHANGED <<devices, access, refresh, sessions, cached, issued>>
    ELSE /\ GrantSession(u, d, ttl)
         /\ IssueTokens(MaxLogins)
         /\ refresh' = IF ttl /\ "refresh" \notin fail
                       THEN refresh \cup {Credential("refresh", u, d, TRUE)}
                       ELSE refresh

(* POST /login with m.login.password, once the throttle lets it through    *)
(* and the password is right, and with m.login.application_service, which  *)
(* never issues a refresh token.                                           *)
PasswordLogin(u, p, d, ttl, fail) ==
    /\ users[u] # NoUser
    /\ users[u].pw = p
    /\ Commits(fail)
    /\ Login(u, d, ttl, fail)
    /\ UNCHANGED <<stored, users, logins, answers, past>>

AppserviceLogin(u, d, fail) ==
    /\ users[u] # NoUser
    /\ Commits(fail)
    /\ Login(u, d, FALSE, fail)
    /\ UNCHANGED <<stored, users, logins, answers, past>>

(* complete_sso_login(), called by the operator's SSO adapter.             *)
MintLoginToken(u, fail) ==
    /\ users[u] # NoUser
    /\ IssueTokens(MaxLogins)
    /\ Commits(fail)
    /\ logins' = IF fail = {} THEN logins \cup {[user |-> u, token |-> <<"login", issued + 1>>, used |-> FALSE]}
                              ELSE logins
    /\ UNCHANGED <<stored, devices, access, refresh, memory, answers, past>>

(* POST /login with m.login.token: consume_login_token() marks the row     *)
(* used in the database before it hands back the user.                     *)
TokenLogin(t, d, ttl, fail) ==
    \E r \in logins :
        /\ r.token = t
        /\ ~r.used
        /\ t \notin past
        /\ Commits(fail)
        /\ IF "consume" \in fail
           THEN UNCHANGED <<logins, exchanged, devices, access, refresh, sessions, cached, issued>>
           ELSE /\ logins' = (logins \ {r}) \cup {[r EXCEPT !.used = TRUE]}
                /\ exchanged' = [exchanged EXCEPT ![t] = @ + 1]
                /\ Login(r.user, d, ttl, fail)
        /\ UNCHANGED <<stored, users, loggedOut, closed, past>>

(* POST /refresh.  The old refresh token must be revoked for the exchange  *)
(* to go on; revoking the device's access tokens may fail unnoticed; the   *)
(* two new tokens are two commits, and the session is only made after both.*)
Refresh(t, fail) ==
    \E r \in refresh :
        LET newAccess == Credential("access", r.user, r.device, TRUE)
            newRefresh == Credential("refresh", r.user, r.device, TRUE)
            revoked == Revoke("access" \notin fail, access, OfDevice(access, r))
            spent == Revoke(TRUE, refresh, {r})
        IN  /\ r.token = t
            /\ Valid(r)
            /\ users[r.user] # NoUser
            /\ ~users[r.user].deactivated
            /\ ~users[r.user].locked
            /\ <<r.user, r.device>> \in devices
            /\ Commits(fail)
            /\ IF "spend" \in fail
               THEN UNCHANGED <<access, refresh, sessions, cached, issued, exchanged>>
               ELSE /\ IssueTokens(MaxGrants)
                    /\ exchanged' = [exchanged EXCEPT ![t] = @ + 1]
                    /\ access' = IF "newAccess" \in fail THEN revoked ELSE revoked \cup {newAccess}
                    /\ refresh' = IF fail \cap {"newAccess", "newRefresh"} = {} THEN spent \cup {newRefresh}
                                                                               ELSE spent
                    /\ LET old == Revoke(TRUE, sessions, OfDevice(sessions, r))
                       IN  IF fail \cap {"newAccess", "newRefresh"} = {}
                           THEN /\ sessions' = old \cup {newAccess}
                                /\ cached' = cached \cup {<<r.user, r.device>>}
                           ELSE /\ sessions' = old
                                /\ UNCHANGED cached
            /\ UNCHANGED <<stored, devices, logins, users, loggedOut, closed, past>>

-----------------------------------------------------------------------------
(* authenticated_user(): the token finds its session, and a session under  *)
(* a v3 hash is moved to v4: first in memory, then the old row is revoked, *)
(* then the new one inserted.                                              *)
Authenticate(t, fail) ==
    \E s \in sessions :
        LET legacy == WithHash(access, t, "v3")
            moved == [s EXCEPT !.ver = "v4"]
            revokes == Revokes("revoke" \notin fail, legacy)
        IN  /\ s.token = t
            /\ s.ver = "v3"
            /\ Valid(s)
            /\ Commits(fail)
            /\ sessions' = (sessions \ {s}) \cup {moved}
            /\ access' = Revoke("revoke" \notin fail, access, legacy)
                         \cup (IF revokes /\ "insert" \notin fail THEN {moved} ELSE {})
            /\ UNCHANGED <<stored, devices, refresh, logins, users, cached, answers, past, issued>>

(* The session of a request behind the access-token gate, which has been   *)
(* through Authenticate.                                                   *)
Authenticated(s, t) == s \in sessions /\ s.token = t /\ s.ver = "v4" /\ Valid(s)

(* POST /logout.  It looks the session up by itself and asks neither for   *)
(* the gate nor for an unexpired token.                                    *)
Logout(t, fail) ==
    \E s \in sessions :
        LET same == WithHash(access, t, s.ver)
            done == Revokes("access" \notin fail, same)
        IN  /\ s.token = t
            /\ ~s.revoked
            /\ Commits(fail)
            /\ sessions' = Revoke(TRUE, sessions, {r \in sessions : r.token = t})
            /\ access' = Revoke("access" \notin fail, access, same)
            /\ refresh' = EndRefresh(done /\ "refresh" \notin fail, s)
            /\ loggedOut' = IF done THEN loggedOut \cup {t} ELSE loggedOut
            /\ UNCHANGED <<stored, devices, logins, users, cached, closed, exchanged, past, issued>>

(* POST /logout/all, which a locked account may use too.                   *)
LogoutAll(t, fail) ==
    \E s \in sessions :
        LET done == \/ Revokes("access" \notin fail, OfUser(access, s))
                    \/ Revokes("refresh" \notin fail, OfUser(refresh, s))
        IN  /\ Authenticated(s, t)
            /\ Commits(fail)
            /\ access' = Revoke("access" \notin fail, access, OfUser(access, s))
            /\ refresh' = Revoke("refresh" \notin fail, refresh, OfUser(refresh, s))
            /\ sessions' = Revoke(done, sessions, OfUser(sessions, s))
            /\ UNCHANGED <<stored, devices, logins, users, cached, answers, past, issued>>

(* POST /account/deactivate with the right password.  Whether the account  *)
(* is reported closed is decided by the rows, not by what the two UPDATEs  *)
(* reported.                                                               *)
Deactivate(t, fail) ==
    \E s \in sessions :
        LET remain == \E r \in access' \cup refresh' : r.user = s.user /\ ~r.revoked
        IN  /\ Authenticated(s, t)
            /\ ~users[s.user].locked
            /\ users[s.user].pw # Closed
            /\ Commits(fail)
            /\ IF "flag" \in fail
               THEN UNCHANGED <<stored, access, refresh, users, sessions, closed>>
               ELSE /\ access' = Revoke("access" \notin fail, access, OfUser(access, s))
                    /\ refresh' = Revoke("refresh" \notin fail, refresh, OfUser(refresh, s))
                    /\ IF remain
                       THEN /\ users' = [users EXCEPT ![s.user].deactivated = TRUE]
                            /\ stored' = [stored EXCEPT ![s.user].deactivated = TRUE]
                            /\ UNCHANGED <<sessions, closed>>
                       ELSE /\ sessions' = Revoke(TRUE, sessions, OfUser(sessions, s))
                            /\ users' = [users EXCEPT ![s.user].deactivated = TRUE, ![s.user].pw = Closed]
                            /\ stored' = [stored EXCEPT ![s.user].deactivated = TRUE,
                                                        ![s.user].pw = IF "password" \in fail THEN @ ELSE Closed]
                            /\ closed' = closed \cup {s.user}
            /\ UNCHANGED <<devices, logins, cached, loggedOut, exchanged, past, issued>>

(* DELETE /devices/{deviceId} and POST /delete_devices with the right      *)
(* password: delete_local_device() for each, skipping the ones it reports  *)
(* as not found, a failed DELETE included.                                 *)
DeleteDevices(t, ds, fail) ==
    \E s \in sessions :
        LET gone == {d \in ds : <<s.user, d>> \in devices /\ <<"delete", d>> \notin fail}
            Named(table, kind) == {r \in OfUser(table, s) : r.device \in gone /\ <<kind, r.device>> \notin fail}
        IN  /\ Authenticated(s, t)
            /\ ~users[s.user].locked
            /\ users[s.user].pw # Closed
            /\ Commits(fail)
            /\ devices' = {e \in devices : e[1] # s.user \/ e[2] \notin gone}
            /\ cached' = {e \in cached : e[1] # s.user \/ e[2] \notin gone}
            /\ access' = Revoke(TRUE, access, Named(access, "access"))
            /\ refresh' = Revoke(TRUE, refresh, Named(refresh, "refresh"))
            /\ sessions' = Revoke(TRUE, sessions, Named(sessions, "session"))
            /\ UNCHANGED <<stored, logins, users, answers, past, issued>>

(* POST /account/password with the right password.                         *)
ChangePassword(t, p, logoutDevices, fail) ==
    \E s \in sessions :
        LET done == "password" \notin fail
        IN  /\ Authenticated(s, t)
            /\ ~users[s.user].locked
            /\ ~users[s.user].suspended
            /\ users[s.user].pw # Closed
            /\ Commits(fail)
            /\ stored' = IF done THEN [stored EXCEPT ![s.user].pw = p] ELSE stored
            /\ users' = IF done THEN [users EXCEPT ![s.user].pw = p] ELSE users
            /\ access' = RevokeOthers(done /\ logoutDevices /\ "access" \notin fail, access, s)
            /\ refresh' = RevokeOthers(done /\ logoutDevices /\ "refresh" \notin fail, refresh, s)
            /\ sessions' = RevokeOthers(done /\ logoutDevices, sessions, s)
            /\ UNCHANGED <<devices, logins, cached, answers, past, issued>>

(* PUT /admin/lock/{userId} and PUT /admin/suspend/{userId}.               *)
SetAccountState(u, locked, suspended, fail) ==
    /\ users[u] # NoUser
    /\ locked = users[u].locked \/ suspended = users[u].suspended
    /\ Commits(fail)
    /\ IF fail = {}
       THEN /\ stored' = [stored EXCEPT ![u].locked = locked, ![u].suspended = suspended]
            /\ users' = [users EXCEPT ![u].locked = locked, ![u].suspended = suspended]
       ELSE UNCHANGED <<stored, users>>
    /\ UNCHANGED <<devices, access, refresh, logins, cached, sessions, answers, past, issued>>

-----------------------------------------------------------------------------
(* The expires_at of a token that is still good passes.                    *)
Expire(t) ==
    /\ t \notin past
    /\ Cardinality(past) < MaxExpired
    /\ \/ \E r \in access \cup refresh \cup sessions : r.token = t /\ r.finite /\ ~r.revoked
       \/ \E r \in logins : r.token = t /\ ~r.used
    /\ past' = past \cup {t}
    /\ UNCHANGED <<rows, memory, answers, issued, faults>>

(* The process stops and starts again: hydrate_local_database() rebuilds   *)
(* users and sessions from the rows, without the sessions' expires_at, and *)
(* start_client_server() the device cache.                                 *)
Restart ==
    /\ users' = stored
    /\ sessions' = {[r EXCEPT !.finite = FALSE] : r \in access}
    /\ cached' = devices
    /\ UNCHANGED <<rows, answers, past, issued, faults>>

Next ==
    \/ \E u \in Users, p \in Passwords, d \in Devices, quiet \in BOOLEAN,
          fail \in Failing({"user", "session"}) : Register(u, p, d, quiet, fail)
    \/ \E u \in Users, p \in Passwords, d \in Devices, ttl \in BOOLEAN,
          fail \in Failing({"session", "refresh"}) : PasswordLogin(u, p, d, ttl, fail)
    \/ \E u \in Users, d \in Devices, fail \in Failing({"session"}) : AppserviceLogin(u, d, fail)
    \/ \E u \in Users, fail \in Failing({"insert"}) : MintLoginToken(u, fail)
    \/ \E t \in TokensOf("login"), d \in Devices, ttl \in BOOLEAN,
          fail \in Failing({"consume", "session", "refresh"}) : TokenLogin(t, d, ttl, fail)
    \/ \E t \in TokensOf("refresh"), fail \in Failing({"spend", "access", "newAccess", "newRefresh"}) : Refresh(t, fail)
    \/ \E t \in TokensOf("access"), fail \in Failing({"revoke", "insert"}) : Authenticate(t, fail)
    \/ \E t \in TokensOf("access"), fail \in Failing({"access", "refresh"}) : Logout(t, fail)
    \/ \E t \in TokensOf("access"), fail \in Failing({"access", "refresh"}) : LogoutAll(t, fail)
    \/ \E t \in TokensOf("access"), fail \in Failing({"flag", "access", "refresh", "password"}) : Deactivate(t, fail)
    \/ \E t \in TokensOf("access"), ds \in SUBSET Devices \ {{}} :
          \E fail \in Failing({"delete", "access", "refresh"} \X ds) : DeleteDevices(t, ds, fail)
    \/ \E t \in TokensOf("access"), p \in Passwords, logoutDevices \in BOOLEAN,
          fail \in Failing({"password", "access", "refresh"}) : ChangePassword(t, p, logoutDevices, fail)
    \/ \E u \in Users, locked, suspended \in BOOLEAN, fail \in Failing({"update"}) :
          SetAccountState(u, locked, suspended, fail)
    \/ \E t \in Tokens : Expire(t)
    \/ Restart

Spec == Init /\ [][Next]_vars

-----------------------------------------------------------------------------
TypeOK ==
    /\ users \in [Users -> Accounts \cup {NoUser}]
    /\ stored \in [Users -> Accounts \cup {NoUser}]
    /\ devices \subseteq Users \X Devices
    /\ cached \subseteq Users \X Devices
    /\ access \subseteq Credentials
    /\ refresh \subseteq Credentials
    /\ logins \subseteq LoginTokens
    /\ sessions \subseteq Credentials
    /\ past \subseteq Tokens
    /\ issued \in 0 .. MaxGrants
    /\ faults \in 0 .. MaxFaults
    /\ loggedOut \subseteq Tokens
    /\ closed \subseteq Users
    /\ exchanged \in [Tokens -> Nat]

(* No handler, however its commits fail, clears the revoked flag of a row  *)
(* or drops a revoked row: "no code path should be able to un-revoke a     *)
(* credential" (persistent_store.cpp:917).                                 *)
RevocationIsOneWay ==
    [][\A r \in access \cup refresh : r.revoked => r \in access' \cup refresh']_vars

(* Once POST /logout has answered 200 the token is dead in memory and in   *)
(* the rows a restart reads, under either version of its hash; once POST   *)
(* /account/deactivate has, the account has no credential left and gets    *)
(* none: whatever fails or restarts afterwards.                            *)
EndedStaysEnded ==
    /\ \A t \in loggedOut : \A r \in access \cup sessions : r.token = t => r.revoked
    /\ \A u \in closed :
          /\ users[u].deactivated
          /\ stored[u].deactivated
          /\ \A r \in access \cup refresh \cup sessions : r.user = u => r.revoked

(* A refresh token and an SSO login token are honoured once, across        *)
(* restarts and failed commits.                                            *)
SingleUse == \A t \in Tokens : exchanged[t] <= 1

AccountsMirrored ==
    /\ cached = devices
    /\ \A u \in Users :
          \/ users[u] = stored[u]
          \/ users[u].deactivated /\ [users[u] EXCEPT !.pw = stored[u].pw] = stored[u]

(* Which tokens a table has not revoked, expired or not: expires_at stays  *)
(* behind in the rows when a restart rebuilds the sessions.                *)
Unrevoked(table) == {<<r.user, r.device, r.token, r.ver>> : r \in {c \in table : ~c.revoked}}

CredentialsMirrored ==
    /\ Unrevoked(sessions) = Unrevoked(access)
    /\ \A r \in access \cup refresh : ~r.revoked => <<r.user, r.device>> \in devices
    /\ \A r \in refresh : ~r.revoked => \E s \in OfDevice(sessions, r) : ~s.revoked

(* LocalDatabase::users and the users rows say the same of every account,  *)
(* and so do the two device lists, whatever fails; the password of a       *)
(* deactivated account is the one thing that may differ, because its last  *)
(* UPDATE is not checked.  While no commit has failed, memory and rows     *)
(* also agree on which access tokens are revoked, each of the others and   *)
(* each refresh token belongs to a device that exists, and no refresh      *)
(* token outlives the sessions of its device (the comment in logout()).    *)
MemoryMatchesRows == AccountsMirrored /\ (faults = 0 => CredentialsMirrored)

(* The access tokens find_session() finds.                                 *)
Works(t) == \E s \in sessions : s.token = t /\ Valid(s)

(* An access token that has stopped working, by any of the handlers or by  *)
(* expiring, works again only after a restart, and then only if it had     *)
(* expired (hydrate_local_database() leaves expires_at out) or a commit    *)
(* has failed.                                                             *)
OnlyRestartRevives ==
    [][\A t \in TokensOf("access") :
          ~Works(t) /\ Works(t)' => t[2] > issued \/ (Restart /\ (t \in past \/ faults > 0))]_vars

(* A credential that was ended stays ended, in memory and in the rows, a   *)
(* single-use token is honoured once, and no logout, deletion or password  *)
(* change revives what another one revoked, whatever commits fail.  Memory *)
(* and rows agree on accounts and devices, and until a commit fails on     *)
(* what is revoked.  Of expiry this says less: an expired token stays dead *)
(* only until the next restart.                                            *)
CredentialsEnd ==
    /\ [](TypeOK /\ EndedStaysEnded /\ SingleUse /\ MemoryMatchesRows)
    /\ RevocationIsOneWay
    /\ OnlyRestartRevives
=============================================================================
