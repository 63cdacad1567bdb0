--------------------------- MODULE AccountsProofs ---------------------------
(***************************************************************************)
(* Proofs about Accounts, for any number of accounts, sessions, overlapping*)
(* requests and password changes.                                          *)
(***************************************************************************)
EXTENDS Accounts, TLAPS

\* A request never carries an empty role list, and the two self-protection
\* checks of routes/users.py hold of it for as long as it is in flight.
RequestsAreChecked ==
    \A r \in Requests :
        /\ request[r].op \in {"create_user", "set_roles", "delete_roles", "replace_roles"} =>
              request[r].roles # {}
        /\ request[r].op \in {"set_roles", "delete_roles", "replace_roles"} =>
              (request[r].target = request[r].actor => "Administrator" \in request[r].roles)
        /\ request[r].op = "set_active" =>
              (~request[r].active => request[r].target # request[r].actor)

\* A refresh that found its token live: unless the token is late, the login it
\* descends from presented the password that was current then.
RefreshesKnowPassword ==
    \A r \in Requests :
        /\ request[r].op = "rotate" => request[r].seen = "live"
        /\ request[r].op \in {"refresh", "rotate"} =>
              (request[r].seen = "live" /\ ~sessions[request[r].token].late =>
                  sessions[request[r].token].proof = request[r].asOf)

\* A password change in flight has selected every session that works, but for
\* those opened since, which are late.
ChangesSelectSessions ==
    \A r \in Requests : request[r].op = "revoke_sessions" =>
        \A i \in LiveOf(request[r].actor) : i \in request[r].rows \/ sessions[i].late

\* A session descends from one that exists.
RootsExist == \A i \in SessionIds : sessions[i].exists => sessions[sessions[i].root].exists

AccountsInv ==
    /\ TypeOK
    /\ RequestsAreChecked
    /\ RefreshesKnowPassword
    /\ ChangesSelectSessions
    /\ RootsExist
    /\ EveryoneHasARole
    /\ SessionsKnowPassword
    /\ OneTokenPerLogin

\* The fields a request has, by what it is about to do.
LEMMA Kinds ==
  ASSUME NEW q \in RequestStates
  PROVE  /\ q.op = "login" =>
               q \in [op : {"login"}, user : Users, roles : RoleSets, proof : Passwords]
         /\ q.op = "refresh" =>
               q \in [op : {"refresh"}, token : SessionIds, seen : {"live", "revoked"},
                      asOf : Passwords]
         /\ q.op = "rotate" =>
               q \in [op : {"rotate"}, token : SessionIds, seen : {"live", "revoked"},
                      roles : RoleSets, asOf : Passwords]
         /\ q.op = "change_password" => q \in [op : {"change_password"}, actor : Users]
         /\ q.op = "revoke_sessions" =>
               q \in [op : {"revoke_sessions"}, actor : Users, rows : SUBSET SessionIds]
         /\ q.op \in {"create_user", "set_roles"} =>
               q \in [op : {"create_user", "set_roles"}, actor : Users, target : Users,
                      roles : RoleSets]
         /\ q.op \in {"delete_roles", "replace_roles"} =>
               q \in [op : {"delete_roles", "replace_roles"}, actor : Users, target : Users,
                      roles : RoleSets, deleted : RoleSets]
         /\ q.op = "set_active" =>
               q \in [op : {"set_active"}, actor : Users, target : Users, was : BOOLEAN,
                      active : BOOLEAN]
  BY DEF RequestStates, Idle

\* The rows that other rows and requests refer to exist.
References(f, g, q) ==
    /\ q.op \in {"refresh", "rotate"} => g[q.token].exists
    /\ q.op \in {"set_roles", "delete_roles", "replace_roles", "set_active"} =>
          f[q.target].exists
    /\ q.op = "login" => f[q.user].exists
    /\ q.op \in {"change_password", "revoke_sessions"} => f[q.actor].exists
    /\ q.op = "revoke_sessions" => \A i \in q.rows : g[i].exists

LEMMA Rows ==
  ASSUME TypeOK
  PROVE  /\ \A u \in Users : users[u].exists => users[u] \in UserRows
         /\ \A i \in SessionIds : sessions[i].exists =>
                sessions[i] \in SessionRows /\ users[sessions[i].user] \in UserRows
         /\ \A r \in Requests : request[r] \in RequestStates /\ References(users, sessions, request[r])
  <1>1. \A u \in Users : users[u].exists => users[u] \in UserRows
    BY DEF TypeOK, NoUser
  <1>2. \A i \in SessionIds : sessions[i].exists => sessions[i] \in SessionRows
    BY DEF TypeOK, NoSession
  <1>3. \A i \in SessionIds : sessions[i].exists => users[sessions[i].user] \in UserRows
    BY <1>1, <1>2 DEF TypeOK, SessionRows
  <1>4. \A r \in Requests : request[r] \in RequestStates /\ References(users, sessions, request[r])
    BY DEF TypeOK, References
  <1> QED
    BY <1>1, <1>2, <1>3, <1>4

\* A request that only reads.
LEMMA BecomeTypes ==
  ASSUME TypeOK, NEW r \in Requests, NEW q \in RequestStates, Become(r, q),
         References(users, sessions, q), UNCHANGED <<users, sessions, access>>
  PROVE  TypeOK'
  <1>1. request' \in [Requests -> RequestStates]
    BY DEF TypeOK, Become
  <1>2. \A s \in Requests : References(users, sessions, request'[s])
    <2>1. \A s \in Requests : request'[s] = IF s = r THEN q ELSE request[s]
      BY DEF TypeOK, Become
    <2> QED
      BY <2>1, Rows
  <1> QED
    BY <1>1, <1>2 DEF TypeOK, References

\* A request that commits and ends: no row vanishes, no session changes hands.
LEMMA CommitTypes ==
  ASSUME TypeOK,
         users' \in [Users -> UserRows \cup {NoUser}],
         sessions' \in [SessionIds -> SessionRows \cup {NoSession}],
         access' \subseteq AccessTokens,
         request' \in [Requests -> RequestStates],
         \A u \in Users : users[u].exists => users'[u].exists,
         \A i \in SessionIds :
            IF sessions[i].exists
            THEN sessions'[i].exists /\ sessions'[i].user = sessions[i].user
            ELSE sessions'[i].exists => users[sessions'[i].user].exists,
         \A s \in Requests : \/ request'[s] = Idle
                             \/ request'[s] = request[s]
                             \/ References(users, sessions, request'[s])
  PROVE  TypeOK'
  <1>1. \A i \in SessionIds : sessions'[i].exists => users'[sessions'[i].user].exists
    <2> SUFFICES ASSUME NEW i \in SessionIds, sessions'[i].exists
                 PROVE  users'[sessions'[i].user].exists
      OBVIOUS
    <2>0. sessions'[i] \in SessionRows
      BY DEF NoSession
    <2>1. sessions'[i].user \in Users
      BY <2>0 DEF SessionRows
    <2>2. users[sessions'[i].user].exists
      BY DEF TypeOK
    <2> QED
      BY <2>1, <2>2
  <1>2. \A s \in Requests : References(users', sessions', request'[s])
    <2> SUFFICES ASSUME NEW s \in Requests PROVE References(users', sessions', request'[s])
      OBVIOUS
    <2>1. request'[s] \in RequestStates
      OBVIOUS
    <2>2. References(users, sessions, request'[s])
      BY Rows DEF References, Idle
    <2> QED
      BY <2>1, <2>2, Kinds DEF References
  <1> QED
    BY <1>1, <1>2 DEF TypeOK, References

LEMMA SignInTypes ==
  ASSUME TypeOK, NEW r \in Requests, SignIn(r)
  PROVE  TypeOK'
  <1> USE AccountConstants
  <1>0. request[r] \in RequestStates
    BY DEF TypeOK
  <1>1. ASSUME NEW u \in Users, Authenticate(r, u) PROVE TypeOK'
    <2> DEFINE q == [op |-> "login", user |-> u, roles |-> users[u].roles,
                     proof |-> users[u].password]
    <2>1. users[u] \in UserRows
      BY <1>1, Rows DEF Authenticate, Active
    <2>2. q \in RequestStates /\ References(users, sessions, q)
      BY <2>1 DEF RequestStates, UserRows, References
    <2> QED
      BY <1>1, <2>2, BecomeTypes DEF Authenticate
  <1>2. ASSUME NEW i \in SessionIds, Login(r, i) PROVE TypeOK'
    <2>1. request[r] \in [op : {"login"}, user : Users, roles : RoleSets, proof : Passwords]
      BY <1>0, <1>2, Kinds DEF Login
    <2>2. users[request[r].user].exists
      BY <1>2, Rows DEF References, Login
    <2>3. sessions' \in [SessionIds -> SessionRows \cup {NoSession}]
      BY <1>2, <2>1 DEF Login, TypeOK, SessionRows, Overlapped
    <2>4. access' \subseteq AccessTokens
      BY <1>2, <2>1 DEF Login, TypeOK, AccessTokens
    <2>5. request' \in [Requests -> RequestStates] /\ UNCHANGED users
      BY <1>2 DEF Login, TypeOK, Become, RequestStates
    <2>6. \A j \in SessionIds :
            IF sessions[j].exists
            THEN sessions'[j].exists /\ sessions'[j].user = sessions[j].user
            ELSE sessions'[j].exists => users[sessions'[j].user].exists
      BY <1>2, <2>2 DEF Login, TypeOK, Fresh
    <2>7. \A s \in Requests : request'[s] = Idle \/ request'[s] = request[s]
      BY <1>2 DEF Login, TypeOK, Become
    <2> QED
      BY <2>3, <2>4, <2>5, <2>6, <2>7, CommitTypes DEF TypeOK
  <1>3. ASSUME NEW i \in SessionIds, Present(r, i) PROVE TypeOK'
    <2> DEFINE q == [op |-> "refresh", token |-> i,
                     seen |-> IF sessions[i].revoked THEN "revoked" ELSE "live",
                     asOf |-> users[sessions[i].user].password]
    <2>1. users[sessions[i].user] \in UserRows /\ sessions[i].exists
      BY <1>3, Rows DEF Present
    <2>2. q \in RequestStates /\ References(users, sessions, q)
      BY <2>1 DEF RequestStates, UserRows, References
    <2> QED
      BY <1>3, <2>2, BecomeTypes DEF Present
  <1>4. CASE RefuseReused(r)
    <2>1. UNCHANGED <<users, sessions, access>>
      BY <1>4 DEF RefuseReused, GetDb
    <2>2. Become(r, Idle)
      BY <1>4 DEF RefuseReused
    <2>3. Idle \in RequestStates /\ References(users, sessions, Idle)
      BY DEF RequestStates, References, Idle
    <2> QED
      BY <2>1, <2>2, <2>3, BecomeTypes
  <1>5. CASE CheckUser(r)
    <2> DEFINE u == sessions[request[r].token].user
               q == IF Active(u)
                    THEN [op |-> "rotate", token |-> request[r].token, seen |-> request[r].seen,
                          roles |-> users[u].roles, asOf |-> request[r].asOf]
                    ELSE Idle
    <2>1. /\ request[r] \in [op : {"refresh"}, token : SessionIds, seen : {"live", "revoked"},
                             asOf : Passwords]
          /\ sessions[request[r].token].exists
      BY <1>0, <1>5, Kinds, Rows DEF CheckUser, References
    <2>2. users[u] \in UserRows
      BY <2>1, Rows
    <2>3. q \in RequestStates /\ References(users, sessions, q)
      BY <2>1, <2>2 DEF RequestStates, UserRows, References, Idle
    <2> QED
      BY <1>5, <2>3, BecomeTypes DEF CheckUser
  <1>6. ASSUME NEW i \in SessionIds, Rotate(r, i) PROVE TypeOK'
    <2>1. /\ request[r] \in [op : {"rotate"}, token : SessionIds, seen : {"live", "revoked"},
                             roles : RoleSets, asOf : Passwords]
          /\ sessions[request[r].token].exists
      BY <1>0, <1>6, Kinds, Rows DEF Rotate, References
    <2>2. sessions[request[r].token] \in SessionRows
      BY <2>1, Rows
    <2>3. sessions' \in [SessionIds -> SessionRows \cup {NoSession}]
      BY <1>6, <2>1, <2>2 DEF Rotate, TypeOK, SessionRows, Overlapped
    <2>4. access' \subseteq AccessTokens
      BY <1>6, <2>1, <2>2 DEF Rotate, TypeOK, AccessTokens, SessionRows
    <2>5. request' \in [Requests -> RequestStates] /\ UNCHANGED users
      BY <1>6 DEF Rotate, TypeOK, Become, RequestStates
    <2>6. \A j \in SessionIds :
            IF sessions[j].exists
            THEN sessions'[j].exists /\ sessions'[j].user = sessions[j].user
            ELSE sessions'[j].exists => users[sessions'[j].user].exists
      BY <1>6, <2>1, <2>2 DEF Rotate, TypeOK, Fresh, SessionRows
    <2>7. \A s \in Requests : request'[s] = Idle \/ request'[s] = request[s]
      BY <1>6 DEF Rotate, TypeOK, Become
    <2> QED
      BY <2>3, <2>4, <2>5, <2>6, <2>7, CommitTypes DEF TypeOK
  <1>7. ASSUME NEW token \in AccessTokens, VerifyPassword(r, token) PROVE TypeOK'
    <2>1. token.user \in Users /\ users[token.user].exists
      BY <1>7 DEF VerifyPassword, CurrentUser, Active, AccessTokens
    <2>2. /\ [op |-> "change_password", actor |-> token.user] \in RequestStates
          /\ References(users, sessions, [op |-> "change_password", actor |-> token.user])
      BY <2>1 DEF RequestStates, References
    <2> QED
      BY <1>7, <2>2, BecomeTypes DEF VerifyPassword
  <1>8. CASE SelectSessions(r)
    <2> DEFINE q == [op |-> "revoke_sessions", actor |-> request[r].actor,
                     rows |-> LiveOf(request[r].actor)]
    <2>1. request[r] \in [op : {"change_password"}, actor : Users] /\ users[request[r].actor].exists
      BY <1>0, <1>8, Kinds, Rows DEF SelectSessions, References
    <2>2. q \in RequestStates /\ References(users, sessions, q)
      BY <2>1 DEF RequestStates, References, LiveOf, Live
    <2> QED
      BY <1>8, <2>2, BecomeTypes DEF SelectSessions
  <1>9. CASE ChangePassword(r)
    <2>1. /\ request[r] \in [op : {"revoke_sessions"}, actor : Users, rows : SUBSET SessionIds]
          /\ users[request[r].actor].exists
      BY <1>0, <1>9, Kinds, Rows DEF ChangePassword, References
    <2>2. users[request[r].actor] \in UserRows
      BY <2>1, Rows
    <2>3. /\ [users[request[r].actor] EXCEPT !.password = @ + 1] \in UserRows
          /\ [users[request[r].actor] EXCEPT !.password = @ + 1].exists
      <3>0. /\ users[request[r].actor].password \in Passwords
            /\ users[request[r].actor].password < MaxChanges
        BY <1>9, <2>2 DEF ChangePassword, UserRows
      <3>1. users[request[r].actor].password + 1 \in Passwords
        BY <3>0 DEF Passwords
      <3> QED
        BY <2>2, <3>1 DEF UserRows
    <2>4. users' = [users EXCEPT ![request[r].actor] =
                       [users[request[r].actor] EXCEPT !.password = @ + 1]]
      BY <1>9 DEF ChangePassword
    <2>5. users' \in [Users -> UserRows \cup {NoUser}]
      BY <2>1, <2>3, <2>4 DEF TypeOK
    <2>6. \A u \in Users : users[u].exists => users'[u].exists
      BY <2>1, <2>3, <2>4 DEF TypeOK
    <2>7. \A i \in request[r].rows : sessions[i] \in SessionRows
      BY <1>9, <2>1, Rows DEF ChangePassword, References
    <2>8. \A i \in request[r].rows :
              /\ [sessions[i] EXCEPT !.revoked = TRUE] \in SessionRows
              /\ [sessions[i] EXCEPT !.revoked = TRUE].exists
              /\ [sessions[i] EXCEPT !.revoked = TRUE].user = sessions[i].user
      <3> SUFFICES ASSUME NEW i \in request[r].rows
                   PROVE  /\ [sessions[i] EXCEPT !.revoked = TRUE] \in SessionRows
                          /\ [sessions[i] EXCEPT !.revoked = TRUE].exists
                          /\ [sessions[i] EXCEPT !.revoked = TRUE].user = sessions[i].user
        OBVIOUS
      <3>1. sessions[i] \in SessionRows
        BY <2>7
      <3> QED
        BY <3>1 DEF SessionRows
    <2>9. sessions' \in [SessionIds -> SessionRows \cup {NoSession}]
      BY <1>9, <2>8 DEF ChangePassword, TypeOK
    <2>10. \A i \in SessionIds :
            IF sessions[i].exists
            THEN sessions'[i].exists /\ sessions'[i].user = sessions[i].user
            ELSE sessions'[i].exists => users[sessions'[i].user].exists
      BY <1>9, <2>7, <2>8 DEF ChangePassword, SessionRows
    <2>11. request' \in [Requests -> RequestStates] /\ UNCHANGED access
      BY <1>9 DEF ChangePassword, TypeOK, Become, RequestStates
    <2>12. \A s \in Requests : request'[s] = Idle \/ request'[s] = request[s]
      BY <1>9 DEF ChangePassword, TypeOK, Become
    <2> QED
      BY <2>5, <2>6, <2>9, <2>10, <2>11, <2>12, CommitTypes DEF TypeOK
  <1> QED
    BY <1>1, <1>2, <1>3, <1>4, <1>5, <1>6, <1>7, <1>8, <1>9 DEF SignIn

LEMMA ManageTypes ==
  ASSUME TypeOK, NEW r \in Requests, Manage(r)
  PROVE  TypeOK'
  <1> USE AccountConstants
  <1>0. request[r] \in RequestStates
    BY DEF TypeOK
  <1>1. ASSUME NEW token \in AccessTokens, NEW u \in Users, NEW roles \in RoleChoices,
               CheckEmail(r, token, u, roles)
        PROVE  TypeOK'
    <2> DEFINE q == [op |-> "create_user", actor |-> token.user, target |-> u, roles |-> roles]
    <2>1. q \in RequestStates /\ References(users, sessions, q)
      BY DEF RequestStates, References, AccessTokens, RoleSets
    <2> QED
      BY <1>1, <2>1, BecomeTypes DEF CheckEmail
  <1>2. ASSUME NEW token \in AccessTokens, NEW u \in Users, NEW roles \in RoleChoices,
               CheckRoles(r, token, u, roles)
        PROVE  TypeOK'
    <2> DEFINE q == [op |-> "set_roles", actor |-> token.user, target |-> u, roles |-> roles]
    <2>1. q \in RequestStates /\ References(users, sessions, q)
      BY <1>2 DEF RequestStates, References, AccessTokens, RoleSets, CheckRoles
    <2> QED
      BY <1>2, <2>1, BecomeTypes DEF CheckRoles
  <1>3. ASSUME NEW token \in AccessTokens, NEW u \in Users, NEW active \in BOOLEAN,
               LoadUser(r, token, u, active)
        PROVE  TypeOK'
    <2> DEFINE q == [op |-> "set_active", actor |-> token.user, target |-> u,
                     was |-> users[u].active, active |-> active]
    <2>1. users[u] \in UserRows
      BY <1>3, Rows DEF LoadUser
    <2>2. q \in RequestStates /\ References(users, sessions, q)
      BY <1>3, <2>1 DEF RequestStates, References, AccessTokens, UserRows, LoadUser
    <2> QED
      BY <1>3, <2>2, BecomeTypes DEF LoadUser
  <1>4. CASE SelectRoles(r)
    <2> DEFINE q == [op |-> "delete_roles", actor |-> request[r].actor,
                     target |-> request[r].target, roles |-> request[r].roles,
                     deleted |-> users[request[r].target].roles]
    <2>1. /\ request[r] \in [op : {"create_user", "set_roles"}, actor : Users, target : Users,
                             roles : RoleSets]
          /\ users[request[r].target].exists
      BY <1>0, <1>4, Kinds, Rows DEF SelectRoles, References
    <2>2. users[request[r].target] \in UserRows
      BY <2>1, Rows
    <2>3. q \in RequestStates /\ References(users, sessions, q)
      BY <2>1, <2>2 DEF RequestStates, References, UserRows
    <2> QED
      BY <1>4, <2>3, BecomeTypes DEF SelectRoles
  <1>5. CASE DeleteRoles(r)
    <2> DEFINE q == [request[r] EXCEPT !.op = "replace_roles"]
    <2>1. /\ request[r] \in [op : {"delete_roles", "replace_roles"}, actor : Users,
                             target : Users, roles : RoleSets, deleted : RoleSets]
          /\ users[request[r].target].exists
      BY <1>0, <1>5, Kinds, Rows DEF DeleteRoles, References
    <2>2. q \in RequestStates /\ References(users, sessions, q)
      BY <2>1 DEF RequestStates, References
    <2> QED
      BY <1>5, <2>2, BecomeTypes DEF DeleteRoles
  <1>6. ASSUME CreateUser(r) \/ SetActive(r) \/ SetRoles(r),
               users' \in [Users -> UserRows \cup {NoUser}],
               \A u \in Users : users[u].exists => users'[u].exists
        PROVE  TypeOK'
    <2>1. UNCHANGED <<sessions, access>>
      BY <1>6 DEF CreateUser, SetActive, SetRoles
    <2>2. CASE Become(r, Idle)
      <3>1. request' \in [Requests -> RequestStates]
        BY <2>2 DEF Become, TypeOK, RequestStates
      <3>2. \A s \in Requests : request'[s] = Idle \/ request'[s] = request[s]
        BY <2>2 DEF Become, TypeOK
      <3> QED
        BY <1>6, <2>1, <3>1, <3>2, CommitTypes DEF TypeOK
    <2>3. CASE SetRoles(r) /\ ~Become(r, Idle)
      <3>1. ASSUME NEW s \in Requests,
                   request[s].op = "delete_roles" /\ request[s].target = request[r].target
            PROVE  LET q == [request[s] EXCEPT !.deleted = @ \ request[r].deleted]
                   IN  q \in RequestStates /\ References(users, sessions, q)
        <4>1. /\ request[s] \in [op : {"delete_roles", "replace_roles"}, actor : Users,
                                 target : Users, roles : RoleSets, deleted : RoleSets]
              /\ users[request[s].target].exists
          BY <3>1, Kinds, Rows DEF References
        <4> QED
          BY <3>1, <4>1 DEF RequestStates, References, RoleSets
      <3>2. request' = [s \in Requests |->
                     IF s = r THEN Idle
                     ELSE IF request[s].op = "delete_roles" /\ request[s].target = request[r].target
                          THEN [request[s] EXCEPT !.deleted = @ \ request[r].deleted]
                     ELSE request[s]]
        BY <2>3 DEF SetRoles
      <3>3. request' \in [Requests -> RequestStates]
        BY <3>1, <3>2, Rows DEF RequestStates
      <3>4. \A s \in Requests : \/ request'[s] = Idle
                                \/ request'[s] = request[s]
                                \/ References(users, sessions, request'[s])
        BY <3>1, <3>2
      <3> QED
        BY <1>6, <2>1, <3>3, <3>4, CommitTypes DEF TypeOK
    <2> QED
      BY <1>6, <2>2, <2>3 DEF CreateUser, SetActive
  <1>7. CASE CreateUser(r)
    <2>1. /\ request[r] \in [op : {"create_user", "set_roles"}, actor : Users, target : Users,
                             roles : RoleSets]
      BY <1>0, <1>7, Kinds DEF CreateUser
    <2>2. [exists |-> TRUE, active |-> TRUE, roles |-> request[r].roles, password |-> 0]
            \in UserRows
      BY <2>1 DEF UserRows, Passwords
    <2> QED
      BY <1>6, <1>7, <2>1, <2>2 DEF CreateUser, GetDb, TypeOK
  <1>8. CASE SetActive(r)
    <2>1. /\ request[r] \in [op : {"set_active"}, actor : Users, target : Users,
                             was : BOOLEAN, active : BOOLEAN]
          /\ users[request[r].target].exists
      BY <1>0, <1>8, Kinds, Rows DEF SetActive, References
    <2>2. users[request[r].target] \in UserRows
      BY <2>1, Rows
    <2>3. /\ [users[request[r].target] EXCEPT !.active = request[r].active] \in UserRows
          /\ [users[request[r].target] EXCEPT !.active = request[r].active].exists
      BY <2>1, <2>2 DEF UserRows
    <2> QED
      BY <1>6, <1>8, <2>1, <2>3 DEF SetActive, TypeOK
  <1>9. CASE SetRoles(r)
    <2> DEFINE new == (users[request[r].target].roles \ request[r].deleted) \cup request[r].roles
    <2>1. /\ request[r] \in [op : {"delete_roles", "replace_roles"}, actor : Users,
                             target : Users, roles : RoleSets, deleted : RoleSets]
          /\ users[request[r].target].exists
      BY <1>0, <1>9, Kinds, Rows DEF SetRoles, References
    <2>2. users[request[r].target] \in UserRows
      BY <2>1, Rows
    <2>3. new \in RoleSets
      BY <2>1, <2>2 DEF UserRows, RoleSets
    <2>4. /\ [users[request[r].target] EXCEPT !.roles = new] \in UserRows
          /\ [users[request[r].target] EXCEPT !.roles = new].exists
      BY <2>2, <2>3 DEF UserRows
    <2>5. UNCHANGED users \/ users' = [users EXCEPT ![request[r].target] =
                                         [users[request[r].target] EXCEPT !.roles = new]]
      BY <1>9 DEF SetRoles
    <2> QED
      <3> HIDE DEF new
      <3>0. request[r].target \in Users
        BY <2>1
      <3>1. /\ users' \in [Users -> UserRows \cup {NoUser}]
            /\ \A u \in Users : users[u].exists => users'[u].exists
        BY <2>4, <2>5, <3>0 DEF TypeOK
      <3> QED
        BY <1>6, <1>9, <3>1
  <1> QED
    BY <1>1, <1>2, <1>3, <1>4, <1>5, <1>7, <1>8, <1>9 DEF Manage

LEMMA TypeStep == TypeOK /\ [Next]_vars => TypeOK'
  <1> SUFFICES ASSUME TypeOK, [Next]_vars PROVE TypeOK'
    OBVIOUS
  <1>1. ASSUME NEW i \in SessionIds, Logout(i) PROVE TypeOK'
    <2>1. sessions[i] \in SessionRows
      BY <1>1, Rows DEF Logout, Live
    <2>2. /\ [sessions[i] EXCEPT !.revoked = TRUE] \in SessionRows
          /\ [sessions[i] EXCEPT !.revoked = TRUE].exists
          /\ [sessions[i] EXCEPT !.revoked = TRUE].user = sessions[i].user
      BY <2>1 DEF SessionRows
    <2>3. /\ sessions' \in [SessionIds -> SessionRows \cup {NoSession}]
          /\ UNCHANGED <<users, access, request>>
      BY <1>1, <2>2 DEF Logout, TypeOK
    <2>4. \A j \in SessionIds :
            IF sessions[j].exists
            THEN sessions'[j].exists /\ sessions'[j].user = sessions[j].user
            ELSE sessions'[j].exists => users[sessions'[j].user].exists
      BY <1>1, <2>1, <2>2 DEF Logout, Live, TypeOK
    <2> QED
      BY <2>3, <2>4, CommitTypes DEF TypeOK
  <1>2. CASE UNCHANGED vars
    BY <1>2 DEF vars, TypeOK
  <1> QED
    BY <1>1, <1>2, SignInTypes, ManageTypes DEF Next

LEMMA InitAccountsInv == Init => AccountsInv
  <1> SUFFICES ASSUME Init PROVE AccountsInv
    OBVIOUS
  <1> USE AccountConstants DEF Init, Idle, NoSession
  <1>1. PICK u \in Users :
            users = [v \in Users |->
                       IF v = u THEN [exists |-> TRUE, active |-> TRUE,
                                      roles |-> {"Administrator"}, password |-> 0]
                       ELSE NoUser]
    OBVIOUS
  <1>2. [exists |-> TRUE, active |-> TRUE, roles |-> {"Administrator"}, password |-> 0]
            \in UserRows
    BY DEF UserRows, RoleSets, Passwords
  <1>3. TypeOK
    BY <1>1, <1>2 DEF TypeOK, RequestStates
  <1> QED
    BY <1>1, <1>3 DEF AccountsInv, RequestsAreChecked, RefreshesKnowPassword,
       ChangesSelectSessions, RootsExist, EveryoneHasARole, SessionsKnowPassword,
       OneTokenPerLogin, Live, NoUser

----------------------------------------------------------------------------
(* What the two halves of the module leave alone.                          *)

LEMMA SignInFrame ==
  ASSUME TypeOK, NEW r \in Requests, SignIn(r)
  PROVE  /\ \A s \in Requests \ {r} : request'[s] = request[s]
         /\ request'[r].op \in {"idle", "login", "refresh", "rotate", "change_password",
                                "revoke_sessions"}
         /\ \A u \in Users : /\ users'[u].exists = users[u].exists
                             /\ users'[u].active = users[u].active
                             /\ users'[u].roles = users[u].roles
  <1>1. \A s \in Requests \ {r} : request'[s] = request[s]
    BY DEF TypeOK, SignIn, Authenticate, Login, Present, RefuseReused, CheckUser, Rotate,
       VerifyPassword, SelectSessions, ChangePassword, Become
  <1>2. request'[r].op \in {"idle", "login", "refresh", "rotate", "change_password",
                            "revoke_sessions"}
    <2>1. CASE CheckUser(r)
      BY <2>1 DEF TypeOK, CheckUser, Become, Idle
    <2>2. CASE (\E u \in Users : Authenticate(r, u)) \/ (\E i \in SessionIds : Present(r, i))
      BY <2>2 DEF TypeOK, Authenticate, Present, Become
    <2>3. CASE \/ RefuseReused(r) \/ ChangePassword(r)
               \/ \E i \in SessionIds : Login(r, i) \/ Rotate(r, i)
      <3>1. Become(r, Idle)
        BY <2>3 DEF RefuseReused, ChangePassword, Login, Rotate
      <3> QED
        BY <3>1 DEF Become, TypeOK, Idle
    <2>4. CASE SelectSessions(r) \/ \E token \in AccessTokens : VerifyPassword(r, token)
      BY <2>4 DEF TypeOK, SelectSessions, VerifyPassword, Become
    <2> QED
      BY <2>1, <2>2, <2>3, <2>4 DEF SignIn
  <1>3. ASSUME ChangePassword(r), NEW u \in Users
        PROVE  /\ users'[u].exists = users[u].exists
               /\ users'[u].active = users[u].active
               /\ users'[u].roles = users[u].roles
    <2>1. users[request[r].actor] \in UserRows
      BY <1>3, Kinds, Rows DEF ChangePassword, References
    <2> QED
      BY <1>3, <2>1 DEF ChangePassword, TypeOK, UserRows
  <1>4. UNCHANGED users \/ ChangePassword(r)
    BY DEF SignIn, Authenticate, Login, Present, RefuseReused, CheckUser, Rotate,
       VerifyPassword, SelectSessions
  <1> QED
    BY <1>1, <1>2, <1>3, <1>4

LEMMA ManageFrame ==
  ASSUME TypeOK, NEW r \in Requests, Manage(r)
  PROVE  /\ UNCHANGED sessions
         /\ \A s \in Requests \ {r} :
               \/ request'[s] = request[s]
               \/ /\ request[s].op = "delete_roles" /\ request'[s].op = "delete_roles"
                  /\ request'[s].actor = request[s].actor
                  /\ request'[s].target = request[s].target
                  /\ request'[s].roles = request[s].roles
         /\ request'[r].op \in {"idle", "create_user", "set_roles", "delete_roles",
                                "replace_roles", "set_active"}
         /\ \A u \in Users : users[u].exists => users'[u].password = users[u].password
  <1>1. UNCHANGED sessions
    BY DEF Manage, CheckEmail, CheckRoles, LoadUser, CreateUser, SelectRoles, DeleteRoles,
       SetRoles, SetActive
  <1>2. CASE SetRoles(r)
    <2>1. /\ request[r] \in [op : {"delete_roles", "replace_roles"}, actor : Users,
                             target : Users, roles : RoleSets, deleted : RoleSets]
          /\ users[request[r].target] \in UserRows
      BY <1>2, Kinds, Rows DEF SetRoles, References
    <2>2. \A u \in Users : users'[u].password = users[u].password
      BY <1>2, <2>1 DEF SetRoles, TypeOK, UserRows
    <2>3. request'[r].op = "idle"
      BY <1>2 DEF SetRoles, Become, TypeOK, Idle
    <2>4. ASSUME NEW s \in Requests \ {r}, request'[s] # request[s]
          PROVE  /\ request[s].op = "delete_roles" /\ request'[s].op = "delete_roles"
                 /\ request'[s].actor = request[s].actor
                 /\ request'[s].target = request[s].target
                 /\ request'[s].roles = request[s].roles
      <3>1. /\ request[s].op = "delete_roles"
            /\ request'[s] = [request[s] EXCEPT !.deleted = @ \ request[r].deleted]
        BY <1>2, <2>4 DEF SetRoles, Become, TypeOK
      <3>2. request[s] \in [op : {"delete_roles", "replace_roles"}, actor : Users,
                            target : Users, roles : RoleSets, deleted : RoleSets]
        BY <3>1, Kinds, Rows
      <3> QED
        BY <3>1, <3>2
    <2> QED
      BY <1>1, <2>2, <2>3, <2>4
  <1>3. CASE ~SetRoles(r)
    <2>1. \A s \in Requests \ {r} : request'[s] = request[s]
      BY <1>3 DEF TypeOK, Manage, CheckEmail, CheckRoles, LoadUser, CreateUser, SelectRoles,
         DeleteRoles, SetActive, Become
    <2>2. request'[r].op \in {"idle", "create_user", "set_roles", "delete_roles",
                              "replace_roles", "set_active"}
      <3>1. ASSUME DeleteRoles(r) PROVE request'[r].op = "replace_roles"
        <4>1. request[r] \in [op : {"delete_roles", "replace_roles"}, actor : Users,
                              target : Users, roles : RoleSets, deleted : RoleSets]
          BY <3>1, Kinds, Rows DEF DeleteRoles
        <4> QED
          BY <3>1, <4>1 DEF DeleteRoles, Become, TypeOK
      <3> QED
        BY <1>3, <3>1 DEF TypeOK, Manage, CheckEmail, CheckRoles, LoadUser, CreateUser,
           SelectRoles, SetActive, Become, Idle
    <2>3. \A u \in Users : users[u].exists => users'[u].password = users[u].password
      <3>1. CASE SetActive(r)
        <4>1. /\ request[r].target \in Users
              /\ users[request[r].target] \in UserRows
          BY <3>1, Kinds, Rows DEF SetActive, References
        <4> QED
          BY <3>1, <4>1 DEF SetActive, TypeOK, UserRows
      <3>2. CASE CreateUser(r)
        BY <3>2 DEF CreateUser, GetDb, TypeOK
      <3> QED
        BY <1>3, <3>1, <3>2 DEF Manage, CheckEmail, CheckRoles, LoadUser, SelectRoles,
           DeleteRoles
    <2> QED
      BY <1>1, <2>1, <2>2, <2>3
  <1> QED
    BY <1>2, <1>3

----------------------------------------------------------------------------
(* Roles.                                                                  *)

LEMMA RolesStep ==
  AccountsInv /\ [Next]_vars => RequestsAreChecked' /\ EveryoneHasARole'
  <1> SUFFICES ASSUME AccountsInv, [Next]_vars
               PROVE  RequestsAreChecked' /\ EveryoneHasARole'
    OBVIOUS
  <1>0. TypeOK
    BY DEF AccountsInv
  <1>1. ASSUME NEW r \in Requests, SignIn(r) PROVE RequestsAreChecked' /\ EveryoneHasARole'
    BY <1>0, <1>1, SignInFrame DEF AccountsInv, RequestsAreChecked, EveryoneHasARole
  <1>2. ASSUME NEW r \in Requests, Manage(r) PROVE RequestsAreChecked' /\ EveryoneHasARole'
    <2> DEFINE Checked(q) ==
          /\ q.op \in {"create_user", "set_roles", "delete_roles", "replace_roles"} =>
                q.roles # {}
          /\ q.op \in {"set_roles", "delete_roles", "replace_roles"} =>
                (q.target = q.actor => "Administrator" \in q.roles)
          /\ q.op = "set_active" => (~q.active => q.target # q.actor)
    <2>1. \A s \in Requests : Checked(request[s])
      BY DEF AccountsInv, RequestsAreChecked
    <2>2. \A s \in Requests \ {r} : Checked(request'[s])
      BY <1>0, <1>2, <2>1, ManageFrame
    <2>3. Checked(request'[r])
      <3>1. ASSUME NEW token \in AccessTokens, NEW u \in Users, NEW roles \in RoleChoices,
                   CheckEmail(r, token, u, roles) \/ CheckRoles(r, token, u, roles)
            PROVE  Checked(request'[r])
        BY <1>0, <3>1 DEF CheckEmail, CheckRoles, Become, TypeOK
      <3>2. ASSUME NEW token \in AccessTokens, NEW u \in Users, NEW active \in BOOLEAN,
                   LoadUser(r, token, u, active)
            PROVE  Checked(request'[r])
        BY <1>0, <3>2 DEF LoadUser, Become, TypeOK
      <3>3. CASE SelectRoles(r)
        BY <1>0, <2>1, <3>3 DEF SelectRoles, Become, TypeOK
      <3>4. CASE DeleteRoles(r)
        <4>1. request[r] \in [op : {"delete_roles", "replace_roles"}, actor : Users,
                              target : Users, roles : RoleSets, deleted : RoleSets]
          BY <1>0, <3>4, Kinds, Rows DEF DeleteRoles
        <4> QED
          BY <1>0, <2>1, <3>4, <4>1 DEF DeleteRoles, Become, TypeOK
      <3>5. CASE CreateUser(r) \/ SetRoles(r) \/ SetActive(r)
        BY <1>0, <3>5 DEF CreateUser, SetRoles, SetActive, Become, TypeOK, Idle
      <3> QED
        BY <1>2, <3>1, <3>2, <3>3, <3>4, <3>5 DEF Manage
    <2>4. EveryoneHasARole'
      <3>1. CASE CreateUser(r)
        BY <1>0, <2>1, <3>1 DEF CreateUser, GetDb, TypeOK, AccountsInv, EveryoneHasARole
      <3>2. CASE SetRoles(r)
        <4>1. /\ request[r].target \in Users /\ request[r].roles # {}
              /\ users[request[r].target] \in UserRows
          BY <1>0, <2>1, <3>2, Kinds, Rows DEF SetRoles, References
        <4> QED
          <5> DEFINE new == (users[request[r].target].roles \ request[r].deleted)
                              \cup request[r].roles
          <5>1. new # {} /\ [users[request[r].target] EXCEPT !.roles = new].roles = new
            BY <4>1 DEF UserRows
          <5>2. \/ UNCHANGED users
                \/ users' = [users EXCEPT ![request[r].target] =
                                [users[request[r].target] EXCEPT !.roles = new]]
            BY <3>2 DEF SetRoles
          <5> HIDE DEF new
          <5> QED
            BY <1>0, <4>1, <5>1, <5>2 DEF TypeOK, AccountsInv, EveryoneHasARole
      <3>3. CASE SetActive(r)
        <4>1. request[r].target \in Users /\ users[request[r].target] \in UserRows
          BY <1>0, <3>3, Kinds, Rows DEF SetActive, References
        <4> QED
          BY <1>0, <3>3, <4>1 DEF SetActive, TypeOK, UserRows, AccountsInv, EveryoneHasARole
      <3> QED
        BY <1>2, <3>1, <3>2, <3>3 DEF Manage, CheckEmail, CheckRoles, LoadUser, SelectRoles,
           DeleteRoles, AccountsInv, EveryoneHasARole
    <2> QED
      BY <2>2, <2>3, <2>4 DEF RequestsAreChecked
  <1>3. CASE UNCHANGED vars \/ \E i \in SessionIds : Logout(i)
    BY <1>3 DEF vars, Logout, AccountsInv, RequestsAreChecked, EveryoneHasARole
  <1> QED
    BY <1>1, <1>2, <1>3 DEF Next

----------------------------------------------------------------------------
(* Sessions.                                                               *)

SessionInv ==
    /\ RefreshesKnowPassword
    /\ ChangesSelectSessions
    /\ RootsExist
    /\ SessionsKnowPassword
    /\ OneTokenPerLogin

USE DEF Live, LiveOf

\* Nothing is written, and the request is of a kind SessionInv is not about, or
\* is seen to satisfy it.
LEMMA SessionRead ==
  ASSUME TypeOK, SessionInv, NEW r \in Requests, UNCHANGED sessions,
         \A u \in Users : users[u].exists => users'[u].password = users[u].password,
         \A s \in Requests \ {r} :
            \/ request'[s] = request[s]
            \/ request'[s].op \notin {"refresh", "rotate", "revoke_sessions"},
         /\ request'[r].op = "rotate" => request'[r].seen = "live"
         /\ request'[r].op \in {"refresh", "rotate"} =>
               (request'[r].seen = "live" /\ ~sessions[request'[r].token].late =>
                   sessions[request'[r].token].proof = request'[r].asOf)
         /\ request'[r].op = "revoke_sessions" =>
               \A i \in LiveOf(request'[r].actor) : i \in request'[r].rows \/ sessions[i].late
  PROVE  SessionInv'
  <1>1. RefreshesKnowPassword' /\ ChangesSelectSessions'
    BY DEF SessionInv, RefreshesKnowPassword, ChangesSelectSessions
  <1>2. RootsExist' /\ OneTokenPerLogin'
    BY DEF SessionInv, RootsExist, OneTokenPerLogin
  <1>3. SessionsKnowPassword'
    <2> SUFFICES ASSUME NEW i \in SessionIds, sessions[i].exists, ~sessions[i].revoked,
                        ~sessions[i].late
                 PROVE  sessions[i].proof = users'[sessions[i].user].password
      BY DEF SessionsKnowPassword
    <2>1. sessions[i].user \in Users /\ users[sessions[i].user].exists
      BY Rows DEF SessionRows, TypeOK
    <2> QED
      BY <2>1 DEF SessionInv, SessionsKnowPassword
  <1> QED
    BY <1>1, <1>2, <1>3 DEF SessionInv

LEMMA SessionManage ==
  ASSUME TypeOK, SessionInv, NEW r \in Requests, Manage(r)
  PROVE  SessionInv'
  BY ManageFrame, SessionRead

LEMMA RevokedRow ==
  ASSUME NEW row \in SessionRows, NEW new, new = [row EXCEPT !.revoked = TRUE]
  PROVE  /\ new \in SessionRows /\ new.exists = row.exists /\ new.user = row.user
         /\ new.root = row.root /\ new.proof = row.proof /\ new.late = row.late
         /\ new.forked = row.forked /\ new.revoked
  BY DEF SessionRows

\* A password change revokes what it selected; what it did not select is late.
LEMMA SessionChange ==
  ASSUME TypeOK, SessionInv, NEW r \in Requests, ChangePassword(r)
  PROVE  SessionInv'
  <1>1. /\ request[r] \in [op : {"revoke_sessions"}, actor : Users, rows : SUBSET SessionIds]
        /\ users[request[r].actor] \in UserRows
        /\ \A i \in request[r].rows : sessions[i] \in SessionRows
    BY Kinds, Rows DEF ChangePassword, References
  <1>2. /\ \A i \in SessionIds \ request[r].rows : sessions'[i] = sessions[i]
        /\ \A i \in request[r].rows : sessions'[i] = [sessions[i] EXCEPT !.revoked = TRUE]
    BY <1>1 DEF ChangePassword
  <1>3. \A i \in SessionIds :
            /\ sessions'[i].exists = sessions[i].exists
            /\ sessions'[i].exists =>
                  /\ sessions'[i].user = sessions[i].user
                  /\ sessions'[i].root = sessions[i].root
                  /\ sessions'[i].proof = sessions[i].proof
                  /\ sessions'[i].late = sessions[i].late
                  /\ sessions'[i].forked = sessions[i].forked
                  /\ ~sessions'[i].revoked => ~sessions[i].revoked /\ i \notin request[r].rows
    <2> SUFFICES ASSUME NEW i \in SessionIds
                 PROVE  /\ sessions'[i].exists = sessions[i].exists
                        /\ sessions'[i].exists =>
                              /\ sessions'[i].user = sessions[i].user
                              /\ sessions'[i].root = sessions[i].root
                              /\ sessions'[i].proof = sessions[i].proof
                              /\ sessions'[i].late = sessions[i].late
                              /\ sessions'[i].forked = sessions[i].forked
                              /\ ~sessions'[i].revoked =>
                                    ~sessions[i].revoked /\ i \notin request[r].rows
      OBVIOUS
    <2>1. CASE i \in request[r].rows
      <3>1. sessions[i] \in SessionRows /\ sessions'[i] = [sessions[i] EXCEPT !.revoked = TRUE]
        BY <1>1, <1>2, <2>1
      <3> QED
        BY <2>1, <3>1, RevokedRow
    <2>2. CASE i \notin request[r].rows
      BY <1>2, <2>2
    <2> QED
      BY <2>1, <2>2
  <1>4. /\ \A s \in Requests \ {r} : request'[s] = request[s]
        /\ request'[r] = Idle
    BY DEF ChangePassword, Become, TypeOK
  <1>5. \A u \in Users \ {request[r].actor} : users'[u] = users[u]
    BY DEF ChangePassword, TypeOK
  <1>6. RefreshesKnowPassword'
    <2> SUFFICES ASSUME NEW s \in Requests \ {r}, request[s].op \in {"refresh", "rotate"}
                 PROVE  /\ request[s].op = "rotate" => request[s].seen = "live"
                        /\ request[s].seen = "live" /\ ~sessions'[request[s].token].late =>
                              sessions'[request[s].token].proof = request[s].asOf
      BY <1>4 DEF RefreshesKnowPassword, Idle
    <2>1. request[s].token \in SessionIds /\ sessions[request[s].token].exists
      BY Kinds, Rows DEF References
    <2> QED
      BY <1>3, <2>1 DEF SessionInv, RefreshesKnowPassword
  <1>7. ChangesSelectSessions'
    BY <1>3, <1>4 DEF SessionInv, ChangesSelectSessions, Idle
  <1>8. RootsExist'
    <2>1. \A i \in SessionIds : sessions[i].exists => sessions[i].root \in SessionIds
      BY Rows DEF SessionRows
    <2> QED
      BY <1>3, <2>1 DEF SessionInv, RootsExist
  <1>9. OneTokenPerLogin'
    BY <1>3 DEF SessionInv, OneTokenPerLogin
  <1>10. SessionsKnowPassword'
    <2> SUFFICES ASSUME NEW i \in SessionIds, sessions'[i].exists, ~sessions'[i].revoked,
                        ~sessions'[i].late
                 PROVE  sessions'[i].proof = users'[sessions'[i].user].password
      BY DEF SessionsKnowPassword
    <2>1. /\ sessions[i].exists /\ ~sessions[i].revoked /\ ~sessions[i].late
          /\ i \notin request[r].rows
      BY <1>3
    <2>2. sessions[i].user # request[r].actor
      BY <1>1, <2>1 DEF SessionInv, ChangesSelectSessions
    <2>3. sessions[i].user \in Users
      BY <2>1, Rows DEF SessionRows
    <2> QED
      BY <1>3, <1>5, <2>1, <2>2, <2>3 DEF SessionInv, SessionsKnowPassword
  <1> QED
    BY <1>6, <1>7, <1>8, <1>9, <1>10 DEF SessionInv

\* A session row is added, its predecessor perhaps revoked.  The new row is late
\* if a password change is in flight, and forked if its login has another
\* session that works.
LEMMA SessionAdded ==
  ASSUME TypeOK, SessionInv, NEW r \in Requests, NEW i \in SessionIds,
         NEW row \in SessionRows, sessions'[i] = row, ~sessions[i].exists,
         UNCHANGED users, Become(r, Idle),
         \A j \in SessionIds \ {i} :
            /\ sessions'[j].exists = sessions[j].exists
            /\ sessions'[j].exists =>
                  /\ sessions'[j].user = sessions[j].user
                  /\ sessions'[j].root = sessions[j].root
                  /\ sessions'[j].proof = sessions[j].proof
                  /\ sessions'[j].late = sessions[j].late
                  /\ sessions'[j].forked = sessions[j].forked
                  /\ ~sessions'[j].revoked => ~sessions[j].revoked,
         ~row.late => /\ row.proof = users[row.user].password
                      /\ \A s \in Requests :
                            request[s].op = "revoke_sessions" => request[s].actor # row.user,
         row.root = i \/ sessions[row.root].exists,
         ~row.forked => \A j \in SessionIds \ {i} :
            sessions'[j].exists /\ ~sessions'[j].revoked =>
                sessions[j].root # row.root \/ sessions[j].forked
  PROVE  SessionInv'
  <1>1. /\ \A s \in Requests \ {r} : request'[s] = request[s]
        /\ request'[r] = Idle
    BY DEF Become, TypeOK
  <1>2. row.exists /\ row.root \in SessionIds
    BY DEF SessionRows
  <1>3. RefreshesKnowPassword'
    <2> SUFFICES ASSUME NEW s \in Requests \ {r}, request[s].op \in {"refresh", "rotate"}
                 PROVE  /\ request[s].op = "rotate" => request[s].seen = "live"
                        /\ request[s].seen = "live" /\ ~sessions'[request[s].token].late =>
                              sessions'[request[s].token].proof = request[s].asOf
      BY <1>1 DEF RefreshesKnowPassword, Idle
    <2>1. /\ request[s].token \in SessionIds \ {i} /\ sessions[request[s].token].exists
      BY Kinds, Rows DEF References
    <2> QED
      BY <2>1 DEF SessionInv, RefreshesKnowPassword
  <1>4. ChangesSelectSessions'
    <2> SUFFICES ASSUME NEW s \in Requests \ {r}, request[s].op = "revoke_sessions",
                        NEW j \in SessionIds, sessions'[j].exists, ~sessions'[j].revoked,
                        sessions'[j].user = request[s].actor
                 PROVE  j \in request[s].rows \/ sessions'[j].late
      BY <1>1 DEF ChangesSelectSessions, Idle
    <2>1. CASE j = i
      BY <2>1
    <2>2. CASE j # i
      BY <2>2 DEF SessionInv, ChangesSelectSessions
    <2> QED
      BY <2>1, <2>2
  <1>5. RootsExist'
    <2> SUFFICES ASSUME NEW j \in SessionIds, sessions'[j].exists
                 PROVE  sessions'[sessions'[j].root].exists
      BY DEF RootsExist
    <2>1. CASE j = i
      BY <1>2, <2>1
    <2>2. CASE j # i
      <3>1. sessions[j].exists /\ sessions'[j].root = sessions[j].root
        BY <2>2
      <3>2. sessions[j].root \in SessionIds
        BY <3>1, Rows DEF SessionRows
      <3> QED
        BY <1>2, <3>1, <3>2 DEF SessionInv, RootsExist
    <2> QED
      BY <2>1, <2>2
  <1>6. SessionsKnowPassword'
    <2> SUFFICES ASSUME NEW j \in SessionIds, sessions'[j].exists, ~sessions'[j].revoked,
                        ~sessions'[j].late
                 PROVE  sessions'[j].proof = users'[sessions'[j].user].password
      BY DEF SessionsKnowPassword
    <2>1. CASE j = i
      BY <2>1
    <2>2. CASE j # i
      BY <2>2 DEF SessionInv, SessionsKnowPassword
    <2> QED
      BY <2>1, <2>2
  <1>7. OneTokenPerLogin'
    <2> SUFFICES ASSUME NEW j \in SessionIds, NEW k \in SessionIds, j # k,
                        sessions'[j].exists, ~sessions'[j].revoked,
                        sessions'[k].exists, ~sessions'[k].revoked,
                        sessions'[j].root = sessions'[k].root,
                        ~sessions'[j].forked, ~sessions'[k].forked
                 PROVE  FALSE
      BY DEF OneTokenPerLogin
    <2>1. CASE j = i
      BY <2>1
    <2>2. CASE k = i
      BY <2>2
    <2>3. CASE j # i /\ k # i
      BY <2>3 DEF SessionInv, OneTokenPerLogin
    <2> QED
      BY <2>1, <2>2, <2>3
  <1> QED
    BY <1>3, <1>4, <1>5, <1>6, <1>7 DEF SessionInv

LEMMA SessionLogin ==
  ASSUME TypeOK, SessionInv, NEW r \in Requests, NEW i \in SessionIds, Login(r, i)
  PROVE  SessionInv'
  <1> DEFINE q == request[r]
             row == [exists |-> TRUE, user |-> q.user, revoked |-> FALSE,
                     root |-> i, proof |-> q.proof, late |-> Overlapped(q.user, q.proof),
                     forked |-> FALSE]
  <1>1. q \in [op : {"login"}, user : Users, roles : RoleSets, proof : Passwords]
    BY Kinds, Rows DEF Login
  <1>2. row \in SessionRows
    BY <1>1 DEF SessionRows, Overlapped
  <1>3. /\ sessions'[i] = row /\ ~sessions[i].exists
        /\ \A j \in SessionIds \ {i} : sessions'[j] = sessions[j]
        /\ UNCHANGED users /\ Become(r, Idle)
    BY DEF Login, Fresh, TypeOK
  <1>4. ~row.late => /\ row.proof = users[row.user].password
                     /\ \A s \in Requests :
                           request[s].op = "revoke_sessions" => request[s].actor # row.user
    BY DEF Overlapped
  <1>5. \A j \in SessionIds \ {i} : sessions[j].exists => sessions[j].root # i
    BY <1>3 DEF SessionInv, RootsExist
  <1>6. row.root = i
    OBVIOUS
  <1> HIDE DEF row
  <1> QED
    BY <1>2, <1>3, <1>4, <1>5, <1>6, SessionAdded

LEMMA SessionRotate ==
  ASSUME TypeOK, SessionInv, NEW r \in Requests, NEW i \in SessionIds, Rotate(r, i)
  PROVE  SessionInv'
  <1> DEFINE q == request[r]
             old == sessions[q.token]
             row == [exists |-> TRUE, user |-> old.user, revoked |-> FALSE,
                     root |-> old.root, proof |-> old.proof,
                     late |-> old.late \/ Overlapped(old.user, q.asOf),
                     forked |-> old.forked \/ (old.revoked /\ q.seen = "live")]
  <1>1. /\ q \in [op : {"rotate"}, token : SessionIds, seen : {"live", "revoked"},
                  roles : RoleSets, asOf : Passwords]
        /\ old \in SessionRows /\ old.exists
    BY Kinds, Rows DEF Rotate, References
  <1>2. row \in SessionRows
    BY <1>1 DEF SessionRows, Overlapped
  <1>3. ~sessions[i].exists /\ q.token # i /\ UNCHANGED users /\ Become(r, Idle)
    BY <1>1 DEF Rotate, Fresh
  <1>4. /\ sessions'[i] = row
        /\ sessions'[q.token] = [old EXCEPT !.revoked = TRUE]
        /\ \A j \in SessionIds \ {i, q.token} : sessions'[j] = sessions[j]
    BY <1>1, <1>3 DEF Rotate, TypeOK
  <1>5. q.seen = "live" /\ (~old.late => old.proof = q.asOf)
    BY <1>1 DEF SessionInv, RefreshesKnowPassword
  <1>6. ~row.late => /\ row.proof = users[row.user].password
                     /\ \A s \in Requests :
                           request[s].op = "revoke_sessions" => request[s].actor # row.user
    BY <1>5 DEF Overlapped
  <1>7. row.root = old.root /\ sessions[old.root].exists
    BY <1>1 DEF SessionInv, RootsExist
  <1>8. ASSUME ~row.forked, NEW j \in SessionIds \ {i}, sessions'[j].exists, ~sessions'[j].revoked
        PROVE  sessions[j].root # row.root \/ sessions[j].forked
    <2>1. j # q.token /\ sessions'[j] = sessions[j]
      BY <1>1, <1>4, <1>8, RevokedRow
    <2>2. ~old.revoked /\ ~old.forked
      BY <1>5, <1>8
    <2> QED
      BY <1>1, <1>8, <2>1, <2>2 DEF SessionInv, OneTokenPerLogin
  <1>9. \A j \in SessionIds \ {i} :
            /\ sessions'[j].exists = sessions[j].exists
            /\ sessions'[j].exists =>
                  /\ sessions'[j].user = sessions[j].user
                  /\ sessions'[j].root = sessions[j].root
                  /\ sessions'[j].proof = sessions[j].proof
                  /\ sessions'[j].late = sessions[j].late
                  /\ sessions'[j].forked = sessions[j].forked
                  /\ ~sessions'[j].revoked => ~sessions[j].revoked
    BY <1>1, <1>4, RevokedRow
  <1> HIDE DEF row, old
  <1> QED
    BY <1>2, <1>3, <1>4, <1>6, <1>7, <1>8, <1>9, SessionAdded

LEMMA SessionLogout ==
  ASSUME TypeOK, SessionInv, NEW i \in SessionIds, Logout(i)
  PROVE  SessionInv'
  <1>1. /\ sessions[i] \in SessionRows
        /\ sessions'[i] = [sessions[i] EXCEPT !.revoked = TRUE]
        /\ \A j \in SessionIds \ {i} : sessions'[j] = sessions[j]
        /\ UNCHANGED <<users, request>>
    BY Rows DEF Logout, TypeOK
  <1>2. \A j \in SessionIds :
            /\ sessions'[j].exists = sessions[j].exists
            /\ sessions'[j].exists =>
                  /\ sessions'[j].user = sessions[j].user
                  /\ sessions'[j].root = sessions[j].root
                  /\ sessions'[j].proof = sessions[j].proof
                  /\ sessions'[j].late = sessions[j].late
                  /\ sessions'[j].forked = sessions[j].forked
                  /\ ~sessions'[j].revoked => ~sessions[j].revoked
    BY <1>1, RevokedRow
  <1>3. RefreshesKnowPassword'
    <2>1. \A s \in Requests : request[s].op \in {"refresh", "rotate"} =>
              request[s].token \in SessionIds /\ sessions[request[s].token].exists
      BY Kinds, Rows DEF References
    <2> QED
      BY <1>1, <1>2, <2>1 DEF SessionInv, RefreshesKnowPassword
  <1>4. ChangesSelectSessions' /\ SessionsKnowPassword' /\ OneTokenPerLogin'
    BY <1>1, <1>2 DEF SessionInv, ChangesSelectSessions, SessionsKnowPassword, OneTokenPerLogin
  <1>5. RootsExist'
    <2>1. \A j \in SessionIds : sessions[j].exists => sessions[j].root \in SessionIds
      BY Rows DEF SessionRows
    <2> QED
      BY <1>2, <2>1 DEF SessionInv, RootsExist
  <1> QED
    BY <1>3, <1>4, <1>5 DEF SessionInv

LEMMA SessionStep == TypeOK /\ SessionInv /\ [Next]_vars => SessionInv'
  <1> SUFFICES ASSUME TypeOK, SessionInv, [Next]_vars PROVE SessionInv'
    OBVIOUS
  <1>1. ASSUME NEW r \in Requests, SignIn(r) PROVE SessionInv'
    <2>1. ASSUME UNCHANGED <<users, sessions>>,
                 request'[r].op \notin {"refresh", "rotate", "revoke_sessions"}
          PROVE  SessionInv'
      BY <1>1, <2>1, SignInFrame, SessionRead
    <2>2. ASSUME NEW u \in Users, Authenticate(r, u) PROVE SessionInv'
      BY <2>1, <2>2 DEF Authenticate, Become, TypeOK
    <2>3. ASSUME NEW token \in AccessTokens, VerifyPassword(r, token) PROVE SessionInv'
      BY <2>1, <2>3 DEF VerifyPassword, Become, TypeOK
    <2>4. CASE RefuseReused(r)
      BY <2>1, <2>4 DEF RefuseReused, GetDb, Become, TypeOK, Idle
    <2>5. ASSUME NEW i \in SessionIds, Present(r, i) PROVE SessionInv'
      <3>1. /\ request'[r].op = "refresh" /\ request'[r].token = i
            /\ request'[r].seen = "live" => ~sessions[i].revoked
            /\ request'[r].asOf = users[sessions[i].user].password
            /\ UNCHANGED <<users, sessions>>
        BY <2>5 DEF Present, Become, TypeOK
      <3>2. sessions[i].exists
        BY <2>5 DEF Present
      <3>3. request'[r].seen = "live" /\ ~sessions[i].late => sessions[i].proof = request'[r].asOf
        BY <3>1, <3>2 DEF SessionInv, SessionsKnowPassword
      <3> QED
        BY <1>1, <3>1, <3>3, SignInFrame, SessionRead
    <2>6. CASE CheckUser(r)
      <3>1. CASE request'[r] = Idle
        BY <2>1, <2>6, <3>1 DEF CheckUser, Idle
      <3>2. CASE request'[r] # Idle
        <4>1. /\ request'[r].op = "rotate" /\ request'[r].token = request[r].token
              /\ request'[r].seen = "live" /\ request[r].seen = "live"
              /\ request[r].op = "refresh"
              /\ request'[r].asOf = request[r].asOf /\ UNCHANGED <<users, sessions>>
          BY <2>6, <3>2 DEF CheckUser, Become, TypeOK
        <4> QED
          BY <1>1, <4>1, SignInFrame, SessionRead DEF SessionInv, RefreshesKnowPassword
      <3> QED
        BY <3>1, <3>2
    <2>7. CASE SelectSessions(r)
      <3>1. /\ request'[r].op = "revoke_sessions"
            /\ request'[r].rows = LiveOf(request'[r].actor)
            /\ UNCHANGED <<users, sessions>>
        BY <2>7 DEF SelectSessions, Become, TypeOK
      <3> QED
        BY <1>1, <3>1, SignInFrame, SessionRead
    <2> QED
      BY <1>1, <2>2, <2>3, <2>4, <2>5, <2>6, <2>7, SessionLogin, SessionRotate, SessionChange
      DEF SignIn
  <1>2. CASE UNCHANGED vars
    BY <1>2 DEF vars, SessionInv, RefreshesKnowPassword, ChangesSelectSessions, RootsExist,
       SessionsKnowPassword, OneTokenPerLogin
  <1> QED
    BY <1>1, <1>2, SessionManage, SessionLogout DEF Next

----------------------------------------------------------------------------

\* The inductive invariant holds of every behaviour of the account routes.
THEOREM Invariance == Spec => []AccountsInv
  <1>1. AccountsInv /\ [Next]_vars => AccountsInv'
    BY TypeStep, RolesStep, SessionStep DEF AccountsInv, SessionInv
  <1> QED
    BY <1>1, InitAccountsInv, PTL DEF Spec

\* set_user_roles never leaves a user without a role, however requests overlap.
THEOREM RolesRemain == Spec => []EveryoneHasARole
  BY Invariance, PTL DEF AccountsInv

\* After change_password a refresh token works only if it descends from a login
\* with the current password, or from a request that overlapped the change.
THEOREM PasswordIsKnown == Spec => []SessionsKnowPassword
  BY Invariance, PTL DEF AccountsInv

\* rotate_refresh_session leaves one working token per login, but for refreshes
\* of one token that overlapped.
THEOREM OneToken == Spec => []OneTokenPerLogin
  BY Invariance, PTL DEF AccountsInv

\* The checks of routes/users.py keep an active Administrator: only a request
\* whose caller was no longer one when it committed removes the last.
THEOREM LastAdministrator == Spec => AdministratorKept
  <1> DEFINE Excused == \E r \in Requests : /\ request[r] # Idle /\ request'[r] = Idle
                                            /\ ~Administrator(request[r].actor)
  <1>1. ASSUME AccountsInv, [Next]_vars, HasAdministrator, ~HasAdministrator'
        PROVE  Excused
    <2> USE DEF Administrator, Active
    <2>1. PICK a \in Users : Administrator(a)
      BY <1>1 DEF HasAdministrator
    <2>2. TypeOK
      BY <1>1 DEF AccountsInv
    <2>3. ~Administrator(a)'
      BY <1>1, <2>1 DEF HasAdministrator
    <2>4. PICK r \in Requests : SetRoles(r) \/ SetActive(r)
      <3>1. ASSUME NEW r \in Requests, SignIn(r) PROVE FALSE
        BY <2>1, <2>2, <2>3, <3>1, SignInFrame
      <3>2. ASSUME NEW r \in Requests, CreateUser(r) PROVE FALSE
        BY <2>1, <2>2, <2>3, <3>2 DEF CreateUser, GetDb, TypeOK
      <3>3. users' # users
        BY <2>1, <2>3
      <3> QED
        BY <1>1, <3>1, <3>2, <3>3
        DEF Next, vars, Logout, Manage, CheckEmail, CheckRoles, LoadUser, SelectRoles, DeleteRoles
    <2>5. request[r] # Idle /\ request'[r] = Idle
      BY <2>2, <2>4 DEF SetRoles, SetActive, Become, TypeOK, Idle
    <2>6. /\ request[r].actor \in Users /\ request[r].target \in Users
          /\ users[request[r].target] \in UserRows
      BY <2>2, <2>4, Kinds, Rows DEF SetRoles, SetActive, References
    <2>7. ASSUME NEW b \in Users, b = request[r].actor, Administrator(b) PROVE FALSE
      <3>1. ~Administrator(b)'
        BY <1>1 DEF HasAdministrator
      <3>2. request[r].target = b
        BY <2>2, <2>4, <2>6, <2>7, <3>1 DEF SetRoles, SetActive, TypeOK
      <3>3. CASE SetRoles(r)
        <4>1. "Administrator" \in request[r].roles
          BY <1>1, <2>7, <3>2, <3>3 DEF SetRoles, AccountsInv, RequestsAreChecked
        <4>2. UNCHANGED users \/ users'[b] = [users[b] EXCEPT !.roles =
                  (users[b].roles \ request[r].deleted) \cup request[r].roles]
          BY <2>2, <3>2, <3>3 DEF SetRoles, TypeOK
        <4> QED
          BY <2>6, <2>7, <3>1, <3>2, <4>1, <4>2 DEF UserRows
      <3>4. CASE SetActive(r)
        <4>1. request[r].active
          BY <1>1, <2>7, <3>2, <3>4 DEF SetActive, AccountsInv, RequestsAreChecked
        <4>2. UNCHANGED users \/ users'[b] = [users[b] EXCEPT !.active = request[r].active]
          BY <2>2, <3>2, <3>4 DEF SetActive, TypeOK
        <4> QED
          BY <2>6, <2>7, <3>1, <3>2, <4>1, <4>2 DEF UserRows
      <3> QED
        BY <2>4, <3>3, <3>4
    <2> QED
      BY <2>5, <2>6, <2>7
  <1>2. AccountsInv /\ [Next]_vars => [HasAdministrator /\ ~HasAdministrator' => Excused]_vars
    BY <1>1
  <1> QED
    BY <1>2, Invariance, PTL DEF Spec, AdministratorKept
=============================================================================
