------------------------------ MODULE Accounts ------------------------------
(***************************************************************************)
(* User accounts, refresh sessions and access tokens of the Control Plane: *)
(* routes/auth.py, routes/users.py, auth_service.py, user_service.py.      *)
(*                                                                         *)
(* The routes are synchronous, so FastAPI runs them in a thread pool and   *)
(* their transactions overlap (READ COMMITTED).  A request is split where  *)
(* another one can come between: the rows it has read, then its flush and  *)
(* commit, which one step stands for because the rows stay locked between  *)
(* the two.  A refused request changes nothing and appears only where the  *)
(* code wrote something before it refused; an expired token is one that    *)
(* is refused, so nothing is gained by telling when that happens.          *)
(***************************************************************************)
EXTENDS Naturals, FiniteSets

CONSTANTS
    Users,          \* accounts, told apart by their email
    MaxSessions,    \* bound on the refresh_sessions rows
    MaxShared,      \* the same bound once every account exists
    Requests,       \* requests in flight at a time
    RoleChoices,    \* role lists an Administrator may send
    MaxChanges      \* bound on the password changes of an account

ASSUME AccountConstants ==
    /\ {MaxSessions, MaxShared, MaxChanges} \subseteq Nat
    /\ RoleChoices \subseteq SUBSET {"Administrator", "Operator", "Viewer"}
    /\ {"Administrator"} \in RoleChoices
    /\ Users # {}

VARIABLES
    users,      \* users and user_roles rows
    sessions,   \* refresh_sessions rows
    access,     \* access tokens handed out
    request     \* per request: what it has read so far

vars == <<users, sessions, access, request>>

----------------------------------------------------------------------------

RolePermissions ==
    [Administrator |-> {"*"},
     Operator      |-> {"view", "deploy", "scale", "restart", "stop", "rollback"},
     Viewer        |-> {"view"}]

HasPermission(roles, permission) ==
    \E r \in roles : RolePermissions[r] \cap {"*", permission} # {}

SessionIds == 1..MaxSessions

NoUser == [exists |-> FALSE]

NoSession == [exists |-> FALSE]

Idle == [op |-> "idle"]

Passwords == 0..MaxChanges

RoleSets == SUBSET UNION RoleChoices

UserRows == [exists : {TRUE}, active : BOOLEAN, roles : RoleSets, password : Passwords]

\* root, proof, late and forked are history, read by no action: the login the
\* session descends from, the password that login presented, and whether some
\* request in between overlapped a password change or a second refresh.
SessionRows ==
    [exists : {TRUE}, user : Users, revoked : BOOLEAN,
     root : SessionIds, proof : Passwords, late : BOOLEAN, forked : BOOLEAN]

AccessTokens == [user : Users, roles : RoleSets]

RequestStates ==
    {Idle}
    \cup [op : {"login"}, user : Users, roles : RoleSets, proof : Passwords]
    \cup [op : {"refresh"}, token : SessionIds, seen : {"live", "revoked"}, asOf : Passwords]
    \cup [op : {"rotate"}, token : SessionIds, seen : {"live", "revoked"},
          roles : RoleSets, asOf : Passwords]
    \cup [op : {"change_password"}, actor : Users]
    \cup [op : {"revoke_sessions"}, actor : Users, rows : SUBSET SessionIds]
    \cup [op : {"create_user", "set_roles"}, actor : Users, target : Users,
          roles : RoleSets]
    \cup [op : {"delete_roles", "replace_roles"}, actor : Users, target : Users,
          roles : RoleSets, deleted : RoleSets]
    \cup [op : {"set_active"}, actor : Users, target : Users, was : BOOLEAN,
          active : BOOLEAN]

TypeOK ==
    /\ users \in [Users -> UserRows \cup {NoUser}]
    /\ sessions \in [SessionIds -> SessionRows \cup {NoSession}]
    /\ access \subseteq AccessTokens
    /\ request \in [Requests -> RequestStates]
    /\ \A i \in SessionIds : sessions[i].exists => users[sessions[i].user].exists
    /\ \A r \in Requests :
          /\ request[r].op \in {"refresh", "rotate"} => sessions[request[r].token].exists
          /\ request[r].op \in {"set_roles", "delete_roles", "replace_roles", "set_active"} =>
                users[request[r].target].exists
          /\ request[r].op = "login" => users[request[r].user].exists
          /\ request[r].op \in {"change_password", "revoke_sessions"} =>
                users[request[r].actor].exists
          /\ request[r].op = "revoke_sessions" =>
                \A i \in request[r].rows : sessions[i].exists

\* bootstrap_admin has created the first Administrator.
Init ==
    /\ \E u \in Users :
          users = [v \in Users |->
                     IF v = u THEN [exists |-> TRUE, active |-> TRUE,
                                    roles |-> {"Administrator"}, password |-> 0]
                     ELSE NoUser]
    /\ sessions = [i \in SessionIds |-> NoSession]
    /\ access = {}
    /\ request = [r \in Requests |-> Idle]

\* Rows are numbered in the order of their insertion.
Fresh(i) == ~sessions[i].exists /\ \A j \in 1..(i - 1) : sessions[j].exists

\* The requests that will insert a session row, unless the account is inactive.
Opening ==
    {r \in Requests :
        \/ request[r].op \in {"login", "rotate"}
        \/ request[r].op = "refresh" /\ request[r].seen = "live"}

\* Bound: a request that needs a row starts while there is one for it.
Room ==
    Cardinality({i \in SessionIds : sessions[i].exists}) + Cardinality(Opening) <
        IF \A u \in Users : users[u].exists THEN MaxShared ELSE MaxSessions

Live(i) == sessions[i].exists /\ ~sessions[i].revoked

Active(u) == users[u].exists /\ users[u].active

Administrator(u) == Active(u) /\ "Administrator" \in users[u].roles

HasAdministrator == \E u \in Users : Administrator(u)

\* get_db: what a request leaves behind, by whether its handler raised.
GetDb(raised, before, written) == IF raised THEN before ELSE written

LiveOf(u) == {i \in SessionIds : Live(i) /\ sessions[i].user = u}

\* _revoke_all_for_user
RevokeAll(u) ==
    [i \in SessionIds |->
        IF i \in LiveOf(u) THEN [sessions[i] EXCEPT !.revoked = TRUE] ELSE sessions[i]]

\* History: a request that read this password overlaps a change of it.
Overlapped(u, password) ==
    \/ password # users[u].password
    \/ \E r \in Requests : request[r].op = "revoke_sessions" /\ request[r].actor = u

Become(r, state) == request' = [request EXCEPT ![r] = state]

\* get_current_user: the roles are those of the token, the account is read.
CurrentUser(token) == token \in access /\ Active(token.user)

----------------------------------------------------------------------------
(* POST /auth/login                                                        *)

\* authenticate, get_role_names
Authenticate(r, u) ==
    /\ request[r] = Idle
    /\ Room
    /\ Active(u)
    /\ Become(r, [op |-> "login", user |-> u, roles |-> users[u].roles,
                  proof |-> users[u].password])
    /\ UNCHANGED <<users, sessions, access>>

\* create_refresh_session, commit, the cookies
Login(r, i) ==
    LET q == request[r]
    IN /\ q.op = "login"
       /\ Fresh(i)
       /\ sessions' = [sessions EXCEPT ![i] =
             [exists |-> TRUE, user |-> q.user, revoked |-> FALSE,
              root |-> i, proof |-> q.proof, late |-> Overlapped(q.user, q.proof),
              forked |-> FALSE]]
       /\ access' = access \cup {[user |-> q.user, roles |-> q.roles]}
       /\ Become(r, Idle)
       /\ UNCHANGED users

----------------------------------------------------------------------------
(* POST /auth/refresh: rotate_refresh_session                              *)

\* The row of the presented token is read.
Present(r, i) ==
    /\ request[r] = Idle
    /\ sessions[i].exists
    /\ sessions[i].revoked \/ Room
    /\ Become(r, [op |-> "refresh", token |-> i,
                  seen |-> IF sessions[i].revoked THEN "revoked" ELSE "live",
                  asOf |-> users[sessions[i].user].password])
    /\ UNCHANGED <<users, sessions, access>>

\* A revoked token: every session of the user is revoked, then AuthError
\* becomes HTTPException(401), which reaches get_db.
RefuseReused(r) ==
    LET q == request[r]
    IN /\ q.op = "refresh"
       /\ q.seen = "revoked"
       /\ sessions' = GetDb(TRUE, sessions, RevokeAll(sessions[q.token].user))
       /\ Become(r, Idle)
       /\ UNCHANGED <<users, access>>

\* Faulty variant: revoked_at is not looked at.
CheckUserOnly(r) ==
    LET q == request[r]
        u == sessions[q.token].user
    IN /\ q.op = "refresh"
       /\ Become(r, IF Active(u)
                    THEN [op |-> "rotate", token |-> q.token, seen |-> q.seen,
                          roles |-> users[u].roles, asOf |-> q.asOf]
                    ELSE Idle)
       /\ UNCHANGED <<users, sessions, access>>

\* The account is read; an inactive one is refused.
CheckUser(r) ==
    LET q == request[r]
        u == sessions[q.token].user
    IN /\ q.op = "refresh"
       /\ q.seen = "live"
       /\ Become(r, IF Active(u)
                    THEN [op |-> "rotate", token |-> q.token, seen |-> q.seen,
                          roles |-> users[u].roles, asOf |-> q.asOf]
                    ELSE Idle)
       /\ UNCHANGED <<users, sessions, access>>

\* The row is revoked, its successor inserted, the transaction committed.
Rotate(r, i) ==
    LET q == request[r]
        row == sessions[q.token]
    IN /\ q.op = "rotate"
       /\ Fresh(i)
       /\ sessions' = [sessions EXCEPT
             ![q.token].revoked = TRUE,
             ![i] = [exists |-> TRUE, user |-> row.user, revoked |-> FALSE,
                     root |-> row.root, proof |-> row.proof,
                     late |-> row.late \/ Overlapped(row.user, q.asOf),
                     forked |-> row.forked \/ (row.revoked /\ q.seen = "live")]]
       /\ access' = access \cup {[user |-> row.user, roles |-> q.roles]}
       /\ Become(r, Idle)
       /\ UNCHANGED users

----------------------------------------------------------------------------
(* POST /auth/logout and POST /auth/change-password                        *)

\* revoke_refresh_session; one step, because revoked_at is only ever set.
Logout(i) ==
    /\ Live(i)
    /\ sessions' = [sessions EXCEPT ![i].revoked = TRUE]
    /\ UNCHANGED <<users, access, request>>

\* The current password is verified against the row get_current_user loaded.
VerifyPassword(r, token) ==
    /\ request[r] = Idle
    /\ CurrentUser(token)
    /\ users[token.user].password < MaxChanges
    /\ Become(r, [op |-> "change_password", actor |-> token.user])
    /\ UNCHANGED <<users, sessions, access>>

\* Faulty variant: no session is selected.
SelectNothing(r) ==
    LET u == request[r].actor
    IN /\ request[r].op = "change_password"
       /\ Become(r, [op |-> "revoke_sessions", actor |-> u, rows |-> {}])
       /\ UNCHANGED <<users, sessions, access>>

\* _revoke_all_for_user selects the rows; the hash has been computed meanwhile.
SelectSessions(r) ==
    LET u == request[r].actor
    IN /\ request[r].op = "change_password"
       /\ Become(r, [op |-> "revoke_sessions", actor |-> u, rows |-> LiveOf(u)])
       /\ UNCHANGED <<users, sessions, access>>

\* The flush and the commit.  A session opened since the SELECT is not revoked.
ChangePassword(r) ==
    LET q == request[r]
    IN /\ q.op = "revoke_sessions"
       /\ users[q.actor].password < MaxChanges
       /\ users' = [users EXCEPT ![q.actor].password = @ + 1]
       /\ sessions' = [i \in SessionIds |->
             IF i \in q.rows THEN [sessions[i] EXCEPT !.revoked = TRUE] ELSE sessions[i]]
       /\ Become(r, Idle)
       /\ UNCHANGED access

----------------------------------------------------------------------------
(* /users, for callers with manage_users                                   *)

MayManageUsers(token) == CurrentUser(token) /\ HasPermission(token.roles, "manage_users")

\* create_user: the roles are valid and the email is free.
CheckEmail(r, token, u, roles) ==
    /\ request[r] = Idle
    /\ MayManageUsers(token)
    /\ roles # {}
    /\ ~users[u].exists
    /\ Become(r, [op |-> "create_user", actor |-> token.user, target |-> u, roles |-> roles])
    /\ UNCHANGED <<users, sessions, access>>

\* The unique index on email refuses the second of two.
CreateUser(r) ==
    LET q == request[r]
    IN /\ q.op = "create_user"
       /\ users' = GetDb(users[q.target].exists, users,
             [users EXCEPT ![q.target] = [exists |-> TRUE, active |-> TRUE,
                                          roles |-> q.roles, password |-> 0]])
       /\ Become(r, Idle)
       /\ UNCHANGED <<sessions, access>>

\* Faulty variant: an Administrator may drop their own role.
CheckRolesOnly(r, token, u, roles) ==
    /\ request[r] = Idle
    /\ MayManageUsers(token)
    /\ users[u].exists
    /\ roles # {}
    /\ Become(r, [op |-> "set_roles", actor |-> token.user, target |-> u, roles |-> roles])
    /\ UNCHANGED <<users, sessions, access>>

\* set_user_roles: nobody drops their own Administrator role.
CheckRoles(r, token, u, roles) ==
    /\ request[r] = Idle
    /\ MayManageUsers(token)
    /\ users[u].exists
    /\ u = token.user => "Administrator" \in roles
    /\ roles # {}
    /\ Become(r, [op |-> "set_roles", actor |-> token.user, target |-> u, roles |-> roles])
    /\ UNCHANGED <<users, sessions, access>>

\* _set_roles: the DELETE statement sees the rows committed so far.
SelectRoles(r) ==
    LET q == request[r]
    IN /\ q.op = "set_roles"
       /\ Become(r, [op |-> "delete_roles", actor |-> q.actor, target |-> q.target,
                     roles |-> q.roles, deleted |-> users[q.target].roles])
       /\ UNCHANGED <<users, sessions, access>>

\* The rows that other transactions have deleted and not committed yet.
LockedRoles(r) ==
    UNION {request[s].deleted : s \in {t \in Requests \ {r} :
              request[t].op = "replace_roles" /\ request[t].target = request[r].target}}

\* Faulty variant: the DELETE is committed on its own.
DeleteRolesAndCommit(r) ==
    LET q == request[r]
    IN /\ q.op = "delete_roles"
       /\ users' = [users EXCEPT ![q.target].roles = {}]
       /\ Become(r, [q EXCEPT !.op = "replace_roles"])
       /\ UNCHANGED <<sessions, access>>

\* It locks and deletes them; a row another transaction has deleted is waited for.
DeleteRoles(r) ==
    LET q == request[r]
    IN /\ q.op = "delete_roles"
       /\ q.deleted \cap LockedRoles(r) = {}
       /\ Become(r, [q EXCEPT !.op = "replace_roles"])
       /\ UNCHANGED <<users, sessions, access>>

\* The INSERTs and the commit.  Rows committed since the DELETE stay, and the
\* primary key of user_roles refuses a row that is one of them, unless
\* it waits for another DELETE to commit.  The rows deleted are gone for a DELETE
\* that was waiting for them.
SetRoles(r) ==
    LET q == request[r]
        kept == users[q.target].roles \ q.deleted
    IN /\ q.op = "replace_roles"
       /\ IF kept \cap q.roles # {}
          THEN Become(r, Idle) /\ UNCHANGED users
          ELSE /\ users' = [users EXCEPT ![q.target].roles = kept \cup q.roles]
               /\ request' = [s \in Requests |->
                     IF s = r THEN Idle
                     ELSE IF request[s].op = "delete_roles" /\ request[s].target = q.target
                          THEN [request[s] EXCEPT !.deleted = @ \ q.deleted]
                     ELSE request[s]]
       /\ UNCHANGED <<sessions, access>>

\* deactivate_user refuses the caller's own account, activate_user does not.
LoadUser(r, token, u, active) ==
    /\ request[r] = Idle
    /\ MayManageUsers(token)
    /\ ~active => u # token.user
    /\ users[u].exists
    /\ Become(r, [op |-> "set_active", actor |-> token.user, target |-> u,
                  was |-> users[u].active, active |-> active])
    /\ UNCHANGED <<users, sessions, access>>

\* set_user_active: no UPDATE when the row was loaded with that value.
SetActive(r) ==
    LET q == request[r]
    IN /\ q.op = "set_active"
       /\ users' = IF q.was = q.active THEN users
                   ELSE [users EXCEPT ![q.target].active = q.active]
       /\ Become(r, Idle)
       /\ UNCHANGED <<sessions, access>>

----------------------------------------------------------------------------

SignIn(r) ==
    \/ \E u \in Users : Authenticate(r, u)
    \/ \E i \in SessionIds : Login(r, i) \/ Present(r, i) \/ Rotate(r, i)
    \/ RefuseReused(r)
    \/ CheckUser(r)
    \/ \E token \in AccessTokens : VerifyPassword(r, token)
    \/ SelectSessions(r) \/ ChangePassword(r)

Manage(r) ==
    \/ \E token \in AccessTokens, u \in Users :
          \/ \E roles \in RoleChoices :
                CheckEmail(r, token, u, roles) \/ CheckRoles(r, token, u, roles)
          \/ \E active \in BOOLEAN : LoadUser(r, token, u, active)
    \/ CreateUser(r) \/ SelectRoles(r) \/ DeleteRoles(r) \/ SetRoles(r) \/ SetActive(r)

Next ==
    \/ \E r \in Requests : SignIn(r) \/ Manage(r)
    \/ \E i \in SessionIds : Logout(i)

Spec == Init /\ [][Next]_vars

----------------------------------------------------------------------------

\* However requests overlap, a user always has a role: _validate_role_names
\* refuses an empty list and _set_roles replaces the rows in one transaction.
EveryoneHasARole == \A u \in Users : users[u].exists => users[u].roles # {}

\* The deployment loses its last active Administrator only to a request whose
\* caller was no longer one when it committed: the two self-protection checks
\* of routes/users.py suffice for everyone else, overlapping requests included.
AdministratorKept ==
    [][HasAdministrator /\ ~HasAdministrator' =>
          \E r \in Requests : /\ request[r] # Idle /\ request'[r] = Idle
                              /\ ~Administrator(request[r].actor)]_vars

\* "Force re-login on every other session": a session that still works was
\* opened with the current password, unless a login or a refresh on its way
\* overlapped the change.
SessionsKnowPassword ==
    \A i \in SessionIds : Live(i) /\ ~sessions[i].late =>
        sessions[i].proof = users[sessions[i].user].password

\* Rotation leaves one working refresh token per login, unless two refreshes
\* of the same token overlapped.
OneTokenPerLogin ==
    \A i, j \in SessionIds :
        i # j /\ Live(i) /\ Live(j) /\ sessions[i].root = sessions[j].root =>
            sessions[i].forked \/ sessions[j].forked

\* "Presenting an already-revoked token ... revokes every active session for
\* that user" (docs/auth.md).
ReuseRevokesAll ==
    [][\A r \in Requests :
          request[r].op = "refresh" /\ request[r].seen = "revoked" /\ request'[r] = Idle =>
             \A i \in LiveOf(sessions[request[r].token].user) : sessions'[i].revoked]_vars
============================================================================
