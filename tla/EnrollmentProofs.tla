-------------------------- MODULE EnrollmentProofs --------------------------
(***************************************************************************)
(* Proofs about Enrollment, for any servers, any number of tokens,         *)
(* credentials, connections and overlapping requests.                      *)
(***************************************************************************)
EXTENDS Enrollment, FiniteSetTheorems, TLAPS

Enrolling == {r \in Requests : request[r].op \in {"read_token", "enroll"}}

\* Every enrollment under way has a credential left for it.
CredentialsLast == minted + Cardinality(Enrolling) <= MaxCredentials

\* An enrollment works on a token that exists, and an agent it found stays.
RequestsAreChecked ==
    \A r \in Requests :
        /\ request[r].op \in {"revoke_token", "read_token", "enroll"} =>
              tokens[request[r].token].exists
        /\ request[r].op = "enroll" /\ request[r].found =>
              agents[tokens[request[r].token].server].exists

\* A connection belongs to a server with an agent.
ConnsHaveAgent == \A c \in ConnIds : conns[c] # Unused => agents[conns[c].server].exists

\* What is registered for a server is a connection of its agent that was
\* accepted and has not run its finally block.
RegistryIsOwn ==
    \A s \in Servers : registry[s] # NoConn =>
        conns[registry[s]].state \in {"open", "lost"} /\ conns[registry[s]].server = s

EnrollInv ==
    /\ TypeOK
    /\ CredentialsLast
    /\ RequestsAreChecked
    /\ ConnsHaveAgent
    /\ RegistryIsOwn
    /\ RowsAreClosed
    /\ RevokedIsUnregistered
    /\ RegisteredIsShown

----------------------------------------------------------------------------
(* What rows, connections and requests look like.                          *)

LEMMA RequestKinds ==
  ASSUME NEW q \in RequestStates
  PROVE  /\ q.op = "create_server" => q \in [op : {"create_server"}, server : Servers]
         /\ q.op = "revoke_token" => q \in [op : {"revoke_token"}, token : TokenIds, free : BOOLEAN]
         /\ q.op = "read_token" =>
               q \in [op : {"read_token"}, token : TokenIds, used : BOOLEAN, revoked : BOOLEAN]
         /\ q.op = "enroll" =>
               q \in [op : {"enroll"}, token : TokenIds, found : BOOLEAN]
         /\ q.op = "closing" => q \in [op : {"closing"}, server : Servers]
  BY DEF RequestStates, Idle

LEMMA Rows ==
  ASSUME TypeOK
  PROVE  /\ \A t \in TokenIds : tokens[t].exists => tokens[t] \in TokenRows
         /\ \A s \in Servers : agents[s].exists => agents[s] \in AgentRows
         /\ \A c \in ConnIds : conns[c] # Unused =>
               conns[c] \in [state : {"accepting", "open", "lost", "ended"}, server : Servers,
                             credential : Credentials, loaded : {"CONNECTED", "DISCONNECTED"},
                             dead : BOOLEAN, late : BOOLEAN, hidden : BOOLEAN]
         /\ \A c \in ConnIds : conns[c].state # "unused" => conns[c] # Unused
         /\ \A r \in Requests : request[r] \in RequestStates
  BY DEF TypeOK, NoToken, NoAgent, ConnStates, Unused

\* NoConn and NoCredential are no ids.
LEMMA Ids == NoConn \notin ConnIds /\ NoCredential \notin Credentials
  BY EnrollmentConstants DEF NoConn, ConnIds, NoCredential, Credentials

----------------------------------------------------------------------------
(* Counting enrollments and open rows.                                     *)

LEMMA EnrollingCount ==
  ASSUME TypeOK, NEW r \in Requests, NEW v, request' = [request EXCEPT ![r] = v]
  PROVE  /\ Cardinality(Enrolling) \in Nat /\ Cardinality(Enrolling') \in Nat
         /\ v.op \notin {"read_token", "enroll"} =>
               /\ Cardinality(Enrolling') <= Cardinality(Enrolling)
               /\ request[r].op \in {"read_token", "enroll"} =>
                     Cardinality(Enrolling') = Cardinality(Enrolling) - 1
         /\ request[r].op \in {"read_token", "enroll"} =>
               Cardinality(Enrolling') <= Cardinality(Enrolling)
         /\ Cardinality(Enrolling') <= Cardinality(Enrolling) + 1
  <1>1. IsFiniteSet(Enrolling)
    <2>1. Enrolling \in SUBSET Requests
      BY DEF Enrolling
    <2> QED
      BY <2>1, EnrollmentConstants, FS_Subset
  <1>2. Cardinality(Enrolling) \in Nat
    BY <1>1, FS_CardinalityType
  <1>3. /\ request'[r] = v /\ \A s \in Requests \ {r} : request'[s] = request[s]
    BY DEF TypeOK
  <1>4. CASE v.op \notin {"read_token", "enroll"}
    <2>1. Enrolling' = Enrolling \ {r}
      BY <1>3, <1>4 DEF Enrolling
    <2>2. r \in Enrolling <=> request[r].op \in {"read_token", "enroll"}
      BY DEF Enrolling
    <2>3. Cardinality(Enrolling \ {r}) =
              IF r \in Enrolling THEN Cardinality(Enrolling) - 1 ELSE Cardinality(Enrolling)
      BY <1>1, FS_RemoveElement
    <2>4. IsFiniteSet(Enrolling \ {r})
      BY <1>1, FS_RemoveElement
    <2>5. Cardinality(Enrolling \ {r}) \in Nat
      BY <2>4, FS_CardinalityType
    <2> QED
      BY <1>2, <1>4, <2>1, <2>2, <2>3, <2>5
  <1>5. CASE v.op \in {"read_token", "enroll"}
    <2>1. Enrolling' = Enrolling \cup {r}
      BY <1>3, <1>5 DEF Enrolling
    <2>2. Cardinality(Enrolling \cup {r}) =
              IF r \in Enrolling THEN Cardinality(Enrolling) ELSE Cardinality(Enrolling) + 1
      BY <1>1, FS_AddElement
    <2>3. request[r].op \in {"read_token", "enroll"} => r \in Enrolling
      BY DEF Enrolling
    <2> QED
      BY <1>2, <1>5, <2>1, <2>2, <2>3
  <1> QED
    BY <1>4, <1>5

LEMMA RecordedFinite ==
  ASSUME NEW S \in SUBSET ConnIds
  PROVE  IsFiniteSet(S) /\ Cardinality(S) \in 0..MaxConnections
  <1>1. 1 \in Int /\ MaxConnections \in Int /\ MaxConnections \in Nat
    BY EnrollmentConstants
  <1>2. /\ IsFiniteSet(1..MaxConnections)
        /\ Cardinality(1..MaxConnections) =
              IF 1 > MaxConnections THEN 0 ELSE MaxConnections - 1 + 1
    BY <1>1, FS_Interval
  <1>3. Cardinality(1..MaxConnections) <= MaxConnections
    BY <1>1, <1>2
  <1>4. IsFiniteSet(S) /\ Cardinality(S) <= Cardinality(1..MaxConnections)
    BY ZenonT(30), <1>2, FS_Subset DEF ConnIds
  <1>5. Cardinality(S) \in Nat
    BY <1>4, FS_CardinalityType
  <1>6. PICK n : n = Cardinality(S)
    OBVIOUS
  <1>7. PICK m : m = Cardinality(1..MaxConnections)
    OBVIOUS
  <1>8. n \in Nat /\ n <= m /\ m <= MaxConnections
    BY <1>3, <1>4, <1>5, <1>6, <1>7
  <1>9. m \in Int
    BY <1>1, <1>2, <1>7
  <1> QED
    BY <1>1, <1>4, <1>6, <1>8, <1>9

----------------------------------------------------------------------------
(* Steps that leave connections and their registration alone.              *)

\* revoke_agent is between its commit and the end of close().
Closing(s) == \E r \in Requests : request[r] = [op |-> "closing", server |-> s]

Checked(q) ==
    /\ q.op \in {"revoke_token", "read_token", "enroll"} => tokens[q.token].exists
    /\ q.op = "enroll" /\ q.found => agents[tokens[q.token].server].exists

TokensKept ==
    \A t \in TokenIds : tokens[t].exists =>
        tokens'[t].exists /\ tokens'[t].server = tokens[t].server

AgentsKept == \A s \in Servers : agents[s].exists => agents'[s].exists

\* No agent loses its status or, but for a new one, its credential.
StatusKept ==
    \A s \in Servers : agents[s].exists =>
        /\ agents'[s].status = agents[s].status
        /\ agents'[s].credential = NoCredential => agents[s].credential = NoCredential

Calm ==
    /\ UNCHANGED <<conns, rows, registry>>
    /\ TypeOK' /\ CredentialsLast'
    /\ TokensKept /\ AgentsKept /\ StatusKept
    /\ \A s \in Servers : Closing(s) => Closing(s)'
    /\ \A r \in Requests : request'[r] = request[r] \/ Checked(request[r])'

LEMMA CheckedKept ==
  ASSUME EnrollInv, TokensKept, AgentsKept, NEW r \in Requests
  PROVE  \A q : q = request[r] => Checked(q)'
  <1> SUFFICES ASSUME NEW q, q = request[r]
               PROVE  Checked(q)'
    OBVIOUS
  <1>1. q \in RequestStates
    BY Rows DEF EnrollInv
  <1>2. Checked(q)
    BY DEF EnrollInv, RequestsAreChecked, Checked
  <1>3. ASSUME q.op \in {"revoke_token", "read_token", "enroll"}
        PROVE  /\ tokens'[q.token].exists
               /\ tokens'[q.token].server = tokens[q.token].server
               /\ tokens[q.token].server \in Servers
    <2>1. q.token \in TokenIds
      BY <1>1, <1>3, RequestKinds
    <2>2. tokens[q.token].exists
      BY <1>2, <1>3 DEF Checked
    <2>3. tokens[q.token] \in TokenRows
      BY <2>1, <2>2, Rows DEF EnrollInv
    <2>4. tokens[q.token].server \in Servers
      BY ZenonT(30), <2>3 DEF TokenRows
    <2> QED
      BY <2>1, <2>2, <2>4 DEF TokensKept
  <1>4. ASSUME q.op = "enroll", q.found
        PROVE  agents'[tokens'[q.token].server].exists
    <2>1. agents[tokens[q.token].server].exists
      BY <1>2, <1>4 DEF Checked
    <2> QED
      BY <1>3, <1>4, <2>1 DEF AgentsKept
  <1> QED
    BY <1>2, <1>3, <1>4 DEF Checked

\* Requests stay checked while each is as it was or checked anew.
LEMMA RequestsKept ==
  ASSUME EnrollInv, TokensKept, AgentsKept,
         \A r \in Requests : request'[r] = request[r] \/ Checked(request[r])'
  PROVE  RequestsAreChecked'
  <1> SUFFICES ASSUME NEW r \in Requests
               PROVE  Checked(request[r])'
    BY DEF RequestsAreChecked, Checked
  <1>1. CASE request'[r] = request[r]
    <2>1. PICK q : q = request[r]
      OBVIOUS
    <2>2. Checked(q)'
      BY <2>1, CheckedKept
    <2> QED
      BY <1>1, <2>1, <2>2
  <1> QED
    BY <1>1

LEMMA CalmStep ==
  ASSUME EnrollInv, Calm
  PROVE  EnrollInv'
  <1>0. /\ TypeOK /\ TypeOK' /\ CredentialsLast' /\ TokensKept /\ AgentsKept /\ StatusKept
        /\ conns' = conns /\ rows' = rows /\ registry' = registry
    BY DEF Calm, EnrollInv
  <1>1. RequestsAreChecked'
    BY <1>0, RequestsKept DEF Calm
  <1>2. ConnsHaveAgent'
    <2> SUFFICES ASSUME NEW c \in ConnIds, conns[c] # Unused
                 PROVE  agents'[conns[c].server].exists
      BY <1>0 DEF ConnsHaveAgent
    <2>1. conns[c].server \in Servers
      BY <1>0, Rows
    <2> QED
      BY <1>0, <2>1 DEF EnrollInv, ConnsHaveAgent, AgentsKept
  <1>3. RegistryIsOwn' /\ RowsAreClosed'
    BY <1>0 DEF EnrollInv, RegistryIsOwn, RowsAreClosed, Recorded
  <1>4. \A s \in Servers : registry[s] # NoConn => agents[s].exists
    <2> SUFFICES ASSUME NEW s \in Servers, registry[s] # NoConn
                 PROVE  agents[s].exists
      OBVIOUS
    <2>1. PICK c \in ConnIds : c = registry[s]
      BY <1>0 DEF TypeOK
    <2>2. conns[c].state \in {"open", "lost"} /\ conns[c].server = s
      BY <2>1 DEF EnrollInv, RegistryIsOwn
    <2>3. conns[c] # Unused
      BY <2>2 DEF Unused
    <2> QED
      BY <2>2, <2>3 DEF EnrollInv, ConnsHaveAgent
  <1>5. RevokedIsUnregistered'
    <2> SUFFICES ASSUME NEW s \in Servers, agents'[s].exists,
                        agents'[s].credential = NoCredential, registry[s] # NoConn,
                        ~Closing(s)'
                 PROVE  conns[registry[s]].late \/ conns[registry[s]].state = "lost"
      BY <1>0 DEF RevokedIsUnregistered, Closing
    <2>1. agents[s].exists /\ agents[s].credential = NoCredential
      BY <1>0, <1>4 DEF StatusKept
    <2>2. \A r \in Requests : request[r] # [op |-> "closing", server |-> s]
      BY DEF Calm, Closing
    <2> QED
      BY <2>1, <2>2 DEF EnrollInv, RevokedIsUnregistered
  <1>6. RegisteredIsShown'
    <2> SUFFICES ASSUME NEW s \in Servers, registry[s] # NoConn,
                        conns[registry[s]].state = "open", ~conns[registry[s]].hidden,
                        ~Closing(s)'
                 PROVE  agents'[s].status = "CONNECTED"
      BY <1>0 DEF RegisteredIsShown, Closing
    <2>1. \A r \in Requests : request[r] # [op |-> "closing", server |-> s]
      BY DEF Calm, Closing
    <2>2. agents[s].status = "CONNECTED"
      BY <2>1 DEF EnrollInv, RegisteredIsShown
    <2> QED
      BY <1>0, <1>4, <2>2 DEF StatusKept
  <1> QED
    BY <1>0, <1>1, <1>2, <1>3, <1>5, <1>6 DEF EnrollInv

LEMMA WriteRequest ==
  ASSUME EnrollInv, NEW r \in Requests, NEW v \in RequestStates, request[r].op # "closing",
         request' = [request EXCEPT ![r] = v]
  PROVE  /\ request' \in [Requests -> RequestStates]
         /\ request'[r] = v /\ \A s \in Requests \ {r} : request'[s] = request[s]
         /\ \A s \in Servers : Closing(s) => Closing(s)'
  <1>1. /\ request' \in [Requests -> RequestStates]
        /\ request'[r] = v /\ \A s \in Requests \ {r} : request'[s] = request[s]
    BY DEF EnrollInv, TypeOK
  <1>2. ASSUME NEW s \in Servers, Closing(s) PROVE Closing(s)'
    <2>1. PICK o \in Requests : request[o] = [op |-> "closing", server |-> s]
      BY <1>2 DEF Closing
    <2>2. o # r
      BY <2>1
    <2> QED
      BY <1>1, <2>1, <2>2 DEF Closing
  <1> QED
    BY <1>1, <1>2

\* The request reads, is refused, or writes a server row.
LEMMA RequestOnly ==
  ASSUME EnrollInv, NEW r \in Requests, NEW v \in RequestStates, request[r].op # "closing",
         Become(r, v), UNCHANGED <<tokens, agents, minted, conns, rows, registry>>,
         servers' \subseteq Servers, Checked(v),
         \/ v.op \notin {"read_token", "enroll"}
         \/ request[r].op = "read_token"
         \/ Room
  PROVE  EnrollInv'
  <1>0. TypeOK /\ CredentialsLast
    BY DEF EnrollInv
  <1>1. request' = [request EXCEPT ![r] = v]
    BY DEF Become
  <1>2. /\ request' \in [Requests -> RequestStates]
        /\ request'[r] = v /\ \A s \in Requests \ {r} : request'[s] = request[s]
        /\ \A s \in Servers : Closing(s) => Closing(s)'
    BY ZenonT(30), <1>1, WriteRequest
  <1>3. TypeOK'
    BY <1>0, <1>2 DEF TypeOK
  <1>4. CredentialsLast'
    <2>1. PICK n \in Nat, m \in Nat :
              n = Cardinality(Enrolling) /\ m = Cardinality(Enrolling')
      BY ZenonT(30), <1>0, <1>1, EnrollingCount
    <2>2. m <= n \/ (Room /\ m <= n + 1)
      BY ZenonT(30), <1>0, <1>1, <2>1, EnrollingCount
    <2>3. minted + n <= MaxCredentials /\ (Room => minted + n < MaxCredentials)
      BY <1>0, <2>1 DEF CredentialsLast, Room, Enrolling
    <2>4. minted \in Nat /\ MaxCredentials \in Nat
      BY <1>0, EnrollmentConstants DEF TypeOK
    <2>5. minted + m <= MaxCredentials
      BY <2>2, <2>3, <2>4
    <2> QED
      BY <2>1, <2>5 DEF CredentialsLast
  <1>5. TokensKept /\ AgentsKept /\ StatusKept
    BY DEF TokensKept, AgentsKept, StatusKept
  <1>6. \A s \in Requests : request'[s] = request[s] \/ Checked(request[s])'
    <2>1. Checked(v)'
      BY DEF Checked
    <2> QED
      BY <1>2, <2>1
  <1> QED
    BY <1>2, <1>3, <1>4, <1>5, <1>6, CalmStep DEF Calm

LEMMA Reads ==
  ASSUME EnrollInv, NEW r \in Requests
  PROVE  /\ \A s \in Servers : CheckHostname(r, s) => EnrollInv'
         /\ CreateServer(r) => EnrollInv'
         /\ \A t \in TokenIds : LoadToken(r, t) => EnrollInv'
         /\ \A t \in TokenIds : ReadToken(r, t) => EnrollInv'
         /\ RefuseToken(r) => EnrollInv'
         /\ ReadAgent(r) => EnrollInv'
  <1>0. /\ TypeOK /\ request[r] \in RequestStates /\ servers \subseteq Servers
        /\ Idle.op = "idle" /\ Idle \in RequestStates /\ Checked(Idle)
    BY Rows DEF EnrollInv, TypeOK, Idle, RequestStates, Checked
  <1>1. ASSUME NEW s \in Servers, CheckHostname(r, s) PROVE EnrollInv'
    <2>1. PICK v \in RequestStates : v = [op |-> "create_server", server |-> s]
      BY ZenonT(30) DEF RequestStates
    <2>2. v.op = "create_server"
      BY <2>1
    <2> QED
      BY <1>0, <1>1, <2>1, <2>2, RequestOnly DEF CheckHostname, Checked
  <1>2. CASE CreateServer(r)
    <2>1. request[r].server \in Servers
      BY <1>0, <1>2, RequestKinds DEF CreateServer
    <2>2. servers' \subseteq Servers
      BY <1>0, <1>2, <2>1 DEF CreateServer
    <2> QED
      BY <1>0, <1>2, <2>2, RequestOnly DEF CreateServer
  <1>3. ASSUME NEW t \in TokenIds, LoadToken(r, t) PROVE EnrollInv'
    <2>1. tokens[t] \in TokenRows
      BY <1>0, <1>3, Rows DEF LoadToken
    <2>2. (~tokens[t].used /\ ~tokens[t].revoked) \in BOOLEAN
      BY <2>1 DEF TokenRows
    <2>3. PICK v \in [op : {"revoke_token"}, token : TokenIds, free : BOOLEAN] :
              v = [op |-> "revoke_token", token |-> t,
                   free |-> ~tokens[t].used /\ ~tokens[t].revoked]
      BY ZenonT(30), <2>2
    <2>4. v.op = "revoke_token" /\ v.token = t
      BY <2>3
    <2>5. v \in RequestStates
      BY DEF RequestStates
    <2>6. Checked(v)
      BY <1>3, <2>4 DEF LoadToken, Checked
    <2> QED
      BY <1>0, <1>3, <2>3, <2>4, <2>5, <2>6, RequestOnly DEF LoadToken
  <1>4. ASSUME NEW t \in TokenIds, ReadToken(r, t) PROVE EnrollInv'
    <2>1. tokens[t] \in TokenRows
      BY <1>0, <1>4, Rows DEF ReadToken
    <2>2. tokens[t].used \in BOOLEAN /\ tokens[t].revoked \in BOOLEAN
      BY ZenonT(30), <2>1 DEF TokenRows
    <2>3. PICK v \in [op : {"read_token"}, token : TokenIds, used : BOOLEAN, revoked : BOOLEAN] :
              v = [op |-> "read_token", token |-> t, used |-> tokens[t].used,
                   revoked |-> tokens[t].revoked]
      BY ZenonT(30), <2>2
    <2>4. v.op = "read_token" /\ v.token = t
      BY <2>3
    <2>5. v \in RequestStates
      BY DEF RequestStates
    <2>6. Checked(v)
      BY <1>4, <2>4 DEF ReadToken, Checked
    <2> QED
      BY <1>0, <1>4, <2>3, <2>5, <2>6, RequestOnly DEF ReadToken
  <1>5. CASE RefuseToken(r)
    BY <1>0, <1>5, RequestOnly DEF RefuseToken
  <1>6. CASE ReadAgent(r)
    <2>1. PICK q : q = request[r]
      OBVIOUS
    <2>2. /\ q.op = "read_token" /\ ~q.revoked /\ ~q.used
          /\ Become(r, [op |-> "enroll", token |-> q.token,
                        found |-> agents[tokens[q.token].server].exists])
          /\ UNCHANGED <<servers, tokens, agents, minted, conns, rows, registry>>
      BY <1>6, <2>1 DEF ReadAgent
    <2>3. q \in [op : {"read_token"}, token : TokenIds, used : BOOLEAN, revoked : BOOLEAN]
      BY <1>0, <2>1, <2>2, RequestKinds
    <2>4. tokens[q.token].exists
      BY <2>1, <2>2 DEF EnrollInv, RequestsAreChecked
    <2>5. tokens[q.token] \in TokenRows
      BY <1>0, <2>3, <2>4, Rows
    <2>6. PICK s \in Servers : s = tokens[q.token].server
      BY ZenonT(30), <2>5 DEF TokenRows
    <2>7. agents[s].exists \in BOOLEAN
      <3>1. agents[s] \in AgentRows \/ agents[s] = NoAgent
        BY <1>0 DEF TypeOK
      <3>2. CASE agents[s] \in AgentRows
        <4>1. agents[s].exists \in {TRUE}
          BY ZenonT(30), <3>2 DEF AgentRows
        <4> QED
          BY <4>1, Zenon
      <3>3. CASE agents[s] = NoAgent
        <4>1. NoAgent.exists = FALSE
          BY DEF NoAgent
        <4> QED
          BY <3>3, <4>1, Zenon
      <3> QED
        BY <3>1, <3>2, <3>3
    <2>8. PICK v \in [op : {"enroll"}, token : TokenIds, found : BOOLEAN] :
              v = [op |-> "enroll", token |-> q.token, found |-> agents[s].exists]
      BY ZenonT(30), <2>3, <2>7
    <2>9. v.op = "enroll" /\ v.token = q.token /\ v.found = agents[s].exists
      BY <2>8
    <2>10. v \in RequestStates
      BY DEF RequestStates
    <2>11. Checked(v)
      BY <2>2, <2>4, <2>6, <2>9 DEF Checked
    <2>12. request[r].op = "read_token" /\ Become(r, v)
      BY <2>1, <2>2, <2>6, <2>8
    <2> QED
      BY <1>0, <2>2, <2>10, <2>11, <2>12, RequestOnly
  <1> QED
    BY <1>1, <1>2, <1>3, <1>4, <1>5, <1>6

LEMMA RevokesToken ==
  ASSUME EnrollInv, NEW r \in Requests, RevokeToken(r)
  PROVE  EnrollInv'
  <1>0. TypeOK /\ CredentialsLast /\ Idle \in RequestStates /\ Idle.op = "idle"
    BY DEF EnrollInv, RequestStates, Idle
  <1>1. PICK q : q = request[r]
    OBVIOUS
  <1>2. /\ q.op = "revoke_token" /\ request' = [request EXCEPT ![r] = Idle]
        /\ tokens' = IF q.free THEN [tokens EXCEPT ![q.token].revoked = TRUE] ELSE tokens
        /\ UNCHANGED <<servers, agents, minted, conns, rows, registry>>
    BY <1>1 DEF RevokeToken, Become
  <1>3. q \in [op : {"revoke_token"}, token : TokenIds, free : BOOLEAN]
    BY <1>0, <1>1, <1>2, RequestKinds, Rows
  <1>4. PICK t \in TokenIds : t = q.token
    BY <1>3
  <1>5. tokens[t].exists
    BY <1>1, <1>2, <1>4 DEF EnrollInv, RequestsAreChecked
  <1>6. tokens[t] \in TokenRows
    BY <1>0, <1>5, Rows
  <1>7. [tokens[t] EXCEPT !.revoked = TRUE] \in TokenRows
    BY ZenonT(30), <1>6 DEF TokenRows
  <1>8. tokens' \in [TokenIds -> TokenRows \cup {NoToken}] /\ TokensKept
    <2>1. CASE ~q.free
      BY <1>0, <1>2, <2>1 DEF TypeOK, TokensKept
    <2>2. CASE q.free
      <3>1. tokens' = [tokens EXCEPT ![t] = [tokens[t] EXCEPT !.revoked = TRUE]]
        BY <1>2, <1>4, <2>2
      <3>2. tokens' \in [TokenIds -> TokenRows \cup {NoToken}]
        BY <1>0, <1>7, <3>1 DEF TypeOK
      <3>3. ASSUME NEW u \in TokenIds, tokens[u].exists
            PROVE  tokens'[u].exists /\ tokens'[u].server = tokens[u].server
        <4>1. CASE u # t
          BY <1>0, <3>1, <3>3, <4>1 DEF TypeOK
        <4>2. CASE u = t
          <5>1. tokens'[u] = [tokens[t] EXCEPT !.revoked = TRUE]
            BY <1>0, <3>1, <4>2 DEF TypeOK
          <5> QED
            BY <1>5, <1>6, <4>2, <5>1 DEF TokenRows
        <4> QED
          BY <4>1, <4>2
      <3> QED
        BY <3>2, <3>3 DEF TokensKept
    <2> QED
      BY <2>1, <2>2
  <1>9. request[r].op # "closing"
    BY <1>1, <1>2
  <1>10. /\ request' \in [Requests -> RequestStates]
         /\ request'[r] = Idle /\ \A s \in Requests \ {r} : request'[s] = request[s]
         /\ \A s \in Servers : Closing(s) => Closing(s)'
    BY ZenonT(30), <1>0, <1>2, <1>9, WriteRequest
  <1>11. TypeOK'
    BY <1>0, <1>2, <1>8, <1>10 DEF TypeOK
  <1>12. CredentialsLast'
    <2>1. PICK n \in Nat, m \in Nat :
              n = Cardinality(Enrolling) /\ m = Cardinality(Enrolling') /\ m <= n
      BY ZenonT(30), <1>0, <1>2, EnrollingCount
    <2>2. minted \in Nat /\ MaxCredentials \in Nat /\ minted + n <= MaxCredentials
      BY <1>0, <2>1, EnrollmentConstants DEF TypeOK, CredentialsLast
    <2> QED
      BY <1>2, <2>1, <2>2 DEF CredentialsLast
  <1>13. AgentsKept /\ StatusKept
    BY <1>2 DEF AgentsKept, StatusKept
  <1>14. \A s \in Requests : request'[s] = request[s] \/ Checked(request[s])'
    <2>1. Checked(request[r])'
      BY <1>10 DEF Checked, Idle
    <2> QED
      BY <1>10, <2>1
  <1> QED
    BY <1>2, <1>8, <1>10, <1>11, <1>12, <1>13, <1>14, CalmStep DEF Calm

LEMMA IssuesToken ==
  ASSUME EnrollInv, NEW s \in Servers, NEW t \in TokenIds, IssueToken(s, t)
  PROVE  EnrollInv'
  <1>0. TypeOK /\ CredentialsLast
    BY DEF EnrollInv
  <1>1. PICK v \in TokenRows :
            v = [exists |-> TRUE, server |-> s, used |-> FALSE, revoked |-> FALSE,
                 issued |-> {}]
    BY ZenonT(30) DEF TokenRows
  <1>2. /\ ~tokens[t].exists /\ tokens' = [tokens EXCEPT ![t] = v]
        /\ UNCHANGED <<servers, agents, minted, conns, rows, registry, request>>
    BY <1>1 DEF IssueToken
  <1>3. tokens' \in [TokenIds -> TokenRows \cup {NoToken}]
    BY <1>0, <1>2 DEF TypeOK
  <1>4. TokensKept
    BY <1>0, <1>2 DEF TypeOK, TokensKept
  <1>5. TypeOK'
    BY <1>0, <1>2, <1>3 DEF TypeOK
  <1>6. CredentialsLast'
    BY <1>0, <1>2 DEF CredentialsLast, Enrolling
  <1>7. AgentsKept /\ StatusKept /\ \A u \in Servers : Closing(u) => Closing(u)'
    BY <1>2 DEF AgentsKept, StatusKept, Closing
  <1> QED
    BY <1>2, <1>4, <1>5, <1>6, <1>7, CalmStep DEF Calm

\* apply_heartbeat, and the time that passes without one.
LEMMA RecencyChanges ==
  ASSUME EnrollInv, NEW s \in Servers, NEW b \in BOOLEAN, agents[s].exists,
         agents' = [agents EXCEPT ![s].recent = b],
         UNCHANGED <<servers, tokens, minted, conns, rows, registry, request>>
  PROVE  EnrollInv'
  <1>0. TypeOK /\ CredentialsLast
    BY DEF EnrollInv
  <1>1. agents[s] \in AgentRows
    BY <1>0, Rows
  <1>2. PICK a \in AgentRows : a = [agents[s] EXCEPT !.recent = b]
    BY ZenonT(30), <1>1 DEF AgentRows
  <1>3. /\ a.exists /\ a.status = agents[s].status /\ a.credential = agents[s].credential
    BY <1>1, <1>2 DEF AgentRows
  <1>4. agents' = [agents EXCEPT ![s] = a]
    BY <1>2
  <1>5. /\ agents' \in [Servers -> AgentRows \cup {NoAgent}]
        /\ agents'[s] = a /\ \A u \in Servers \ {s} : agents'[u] = agents[u]
    BY <1>0, <1>4 DEF TypeOK
  <1>6. AgentsKept /\ StatusKept
    BY <1>3, <1>5 DEF AgentsKept, StatusKept
  <1>7. TypeOK'
    BY <1>0, <1>5 DEF TypeOK
  <1>8. CredentialsLast'
    BY <1>0 DEF CredentialsLast, Enrolling
  <1>9. TokensKept /\ \A u \in Servers : Closing(u) => Closing(u)'
    BY DEF TokensKept, Closing
  <1> QED
    BY <1>6, <1>7, <1>8, <1>9, CalmStep DEF Calm

LEMMA Enrolls ==
  ASSUME EnrollInv, NEW r \in Requests, Enroll(r)
  PROVE  EnrollInv'
  <1>0. TypeOK /\ CredentialsLast /\ Idle \in RequestStates /\ Idle.op = "idle"
    BY DEF EnrollInv, RequestStates, Idle
  <1>1. PICK q : q = request[r]
    OBVIOUS
  <1>2. q.op = "enroll"
    BY <1>1 DEF Enroll
  <1>3. q \in [op : {"enroll"}, token : TokenIds, found : BOOLEAN]
    BY <1>0, <1>1, <1>2, RequestKinds, Rows
  <1>4. PICK t \in TokenIds : t = q.token
    BY <1>3
  <1>5. tokens[t].exists /\ (q.found => agents[tokens[t].server].exists)
    BY <1>1, <1>2, <1>4 DEF EnrollInv, RequestsAreChecked
  <1>6. tokens[t] \in TokenRows
    BY <1>0, <1>5, Rows
  <1>7. PICK s \in Servers : s = tokens[t].server
    BY ZenonT(30), <1>6 DEF TokenRows
  <1>8. PICK k : k = minted + 1
    OBVIOUS
  <1>9. /\ request' = [request EXCEPT ![r] = Idle]
        /\ IF agents[s].exists /\ ~q.found
           THEN UNCHANGED <<tokens, agents, minted>>
           ELSE /\ minted' = k
                /\ tokens' = [tokens EXCEPT
                      ![t].used = TRUE,
                      ![t].issued = @ \cup {k}]
                /\ agents' = [agents EXCEPT ![s] =
                      IF q.found THEN [@ EXCEPT !.credential = k]
                      ELSE [exists |-> TRUE, credential |-> k,
                            status |-> "DISCONNECTED", recent |-> FALSE]]
        /\ UNCHANGED <<servers, conns, rows, registry>>
    BY <1>1, <1>4, <1>7, <1>8 DEF Enroll, Become
  <1>10. PICK n \in Nat, m \in Nat :
             n = Cardinality(Enrolling) /\ m = Cardinality(Enrolling') /\ m = n - 1
    BY ZenonT(30), <1>0, <1>1, <1>2, <1>9, EnrollingCount
  <1>11. minted \in Nat /\ MaxCredentials \in Nat /\ minted + n <= MaxCredentials
    BY <1>0, <1>10, EnrollmentConstants DEF TypeOK, CredentialsLast
  <1>12. k \in Credentials /\ k # NoCredential /\ k \in 0..MaxCredentials
    BY <1>8, <1>10, <1>11 DEF Credentials, NoCredential
  <1>13. minted' + m <= MaxCredentials
    BY <1>8, <1>9, <1>10, <1>11
  <1>14. CredentialsLast'
    BY <1>10, <1>13 DEF CredentialsLast
  <1>15. request[r].op # "closing"
    BY <1>1, <1>2
  <1>16. /\ request' \in [Requests -> RequestStates]
         /\ request'[r] = Idle /\ \A u \in Requests \ {r} : request'[u] = request[u]
         /\ \A u \in Servers : Closing(u) => Closing(u)'
    BY ZenonT(30), <1>0, <1>9, <1>15, WriteRequest
  <1>17. \A u \in Requests : request'[u] = request[u] \/ Checked(request[u])'
    <2>1. Checked(request[r])'
      BY <1>16 DEF Checked, Idle
    <2> QED
      BY <1>16, <2>1
  <1>18. CASE agents[s].exists /\ ~q.found
    <2>1. UNCHANGED <<tokens, agents, minted>>
      BY <1>9, <1>18
    <2>2. TypeOK'
      BY <1>0, <1>9, <1>16, <2>1 DEF TypeOK
    <2>3. TokensKept /\ AgentsKept /\ StatusKept
      BY <2>1 DEF TokensKept, AgentsKept, StatusKept
    <2> QED
      BY <1>9, <1>14, <1>16, <1>17, <2>2, <2>3, CalmStep DEF Calm
  <1>19. CASE ~(agents[s].exists /\ ~q.found)
    <2>2. PICK v \in TokenRows :
              /\ v = [tokens[t] EXCEPT !.used = TRUE, !.issued = @ \cup {k}]
              /\ v.exists /\ v.server = tokens[t].server
      <3>1. tokens[t].issued \cup {k} \in SUBSET Credentials
        BY ZenonT(30), <1>6, <1>12 DEF TokenRows
      <3>2. PICK v \in TokenRows :
                v = [tokens[t] EXCEPT !.used = TRUE, !.issued = @ \cup {k}]
        BY ZenonT(30), <1>6, <3>1 DEF TokenRows
      <3>3. v.exists = tokens[t].exists /\ v.server = tokens[t].server
        BY <1>6, <3>2 DEF TokenRows
      <3> QED
        BY ZenonT(30), <1>5, <3>2, <3>3
    <2>3. tokens' = [tokens EXCEPT ![t] = v]
      BY ZenonT(30), <1>0, <1>9, <1>19, <2>2 DEF TypeOK
    <2>4. /\ tokens' \in [TokenIds -> TokenRows \cup {NoToken}]
          /\ tokens'[t] = v /\ \A u \in TokenIds \ {t} : tokens'[u] = tokens[u]
      BY <1>0, <2>3 DEF TypeOK
    <2>5. TokensKept
      BY ZenonT(30), <2>2, <2>4 DEF TokensKept
    <2>6. PICK a \in AgentRows :
              /\ a = IF q.found THEN [agents[s] EXCEPT !.credential = k]
                     ELSE [exists |-> TRUE, credential |-> k,
                           status |-> "DISCONNECTED", recent |-> FALSE]
              /\ a.exists /\ a.credential = k
              /\ agents[s].exists => a.status = agents[s].status
      <3>1. CASE q.found
        <4>1. agents[s] \in AgentRows
          BY <1>0, <1>5, <1>7, <3>1, Rows
        <4>2. PICK a \in AgentRows : a = [agents[s] EXCEPT !.credential = k]
          BY ZenonT(30), <1>12, <4>1 DEF AgentRows
        <4>3. a.exists /\ a.credential = k /\ a.status = agents[s].status
          BY ZenonT(30), <4>1, <4>2 DEF AgentRows
        <4> QED
          BY ZenonT(30), <3>1, <4>2, <4>3
      <3>2. CASE ~q.found
        <4>1. PICK a \in AgentRows : a = [exists |-> TRUE, credential |-> k,
                                          status |-> "DISCONNECTED", recent |-> FALSE]
          BY ZenonT(30), <1>12 DEF AgentRows
        <4>2. a.exists /\ a.credential = k
          BY <4>1
        <4> QED
          BY <1>19, <3>2, <4>1, <4>2
      <3> QED
        BY <3>1, <3>2
    <2>7. agents' = [agents EXCEPT ![s] = a]
      BY <1>0, <1>9, <1>19, <2>6 DEF TypeOK
    <2>8. /\ agents' \in [Servers -> AgentRows \cup {NoAgent}]
          /\ agents'[s] = a /\ \A u \in Servers \ {s} : agents'[u] = agents[u]
      BY <1>0, <2>7 DEF TypeOK
    <2>9. AgentsKept
      BY ZenonT(30), <2>6, <2>8 DEF AgentsKept
    <2>10. StatusKept
      BY ZenonT(30), <1>12, <2>6, <2>8 DEF StatusKept
    <2>11. TypeOK'
      BY <1>0, <1>9, <1>12, <1>16, <1>19, <2>4, <2>8 DEF TypeOK
    <2> QED
      BY <1>9, <1>14, <1>16, <1>17, <2>5, <2>9, <2>10, <2>11, CalmStep DEF Calm
  <1> QED
    BY <1>18, <1>19

----------------------------------------------------------------------------
(* Steps that change a connection or a registration.                       *)

\* RegistryIsOwn, RevokedIsUnregistered and RegisteredIsShown for one server.
Settled(s) ==
    registry[s] # NoConn =>
        /\ conns[registry[s]].state \in {"open", "lost"} /\ conns[registry[s]].server = s
        /\ agents[s].exists /\ agents[s].credential = NoCredential /\ ~Closing(s) =>
              conns[registry[s]].late \/ conns[registry[s]].state = "lost"
        /\ conns[registry[s]].state = "open" /\ ~conns[registry[s]].hidden /\ ~Closing(s) =>
              agents[s].status = "CONNECTED"

LEMMA AllSettled ==
  ASSUME EnrollInv
  PROVE  \A s \in Servers : Settled(s)
  BY ZenonT(30) DEF EnrollInv, Settled, RegistryIsOwn, RevokedIsUnregistered, RegisteredIsShown, Closing

LEMMA SettledNext ==
  ASSUME \A s \in Servers : Settled(s)'
  PROVE  (RegistryIsOwn /\ RevokedIsUnregistered /\ RegisteredIsShown)'
  BY ZenonT(30) DEF Settled, RegistryIsOwn, RevokedIsUnregistered, RegisteredIsShown, Closing

LEMMA RegisteredHasAgent ==
  ASSUME EnrollInv, NEW s \in Servers, registry[s] # NoConn
  PROVE  /\ registry[s] \in ConnIds
         /\ conns[registry[s]].state \in {"open", "lost"} /\ conns[registry[s]].server = s
         /\ agents[s].exists
  <1>1. PICK c \in ConnIds : c = registry[s]
    BY DEF EnrollInv, TypeOK
  <1>2. conns[c].state \in {"open", "lost"} /\ conns[c].server = s
    BY <1>1 DEF EnrollInv, RegistryIsOwn
  <1>3. conns[c] # Unused
    BY <1>2 DEF Unused
  <1> QED
    BY <1>1, <1>2, <1>3 DEF EnrollInv, ConnsHaveAgent

LEMMA SettledKept ==
  ASSUME EnrollInv, NEW s \in Servers,
         registry'[s] = registry[s], agents'[s] = agents[s],
         registry[s] # NoConn => conns'[registry[s]] = conns[registry[s]],
         Closing(s) => Closing(s)'
  PROVE  Settled(s)'
  <1>1. Settled(s)
    BY AllSettled
  <1>2. CASE registry[s] = NoConn
    BY <1>2 DEF Settled
  <1>3. CASE registry[s] # NoConn
    <2>1. conns'[registry'[s]] = conns[registry[s]]
      BY <1>3
    <2> QED
      BY <1>1, <1>3, <2>1 DEF Settled
  <1> QED
    BY <1>2, <1>3

\* agent_socket touches no token, no request.
LEMMA SocketStep ==
  ASSUME EnrollInv, UNCHANGED <<tokens, minted, request>>, AgentsKept
  PROVE  /\ RequestsAreChecked' /\ CredentialsLast'
         /\ \A s \in Servers : Closing(s) => Closing(s)'
  <1>1. TokensKept
    BY DEF TokensKept
  <1>2. RequestsAreChecked'
    BY <1>1, RequestsKept
  <1> QED
    BY <1>2 DEF EnrollInv, CredentialsLast, Enrolling, Closing

LEMMA WriteConn ==
  ASSUME EnrollInv, NEW c \in ConnIds, NEW v \in ConnStates, v # Unused, AgentsKept,
         v.server \in Servers /\ agents[v.server].exists,
         conns' = [conns EXCEPT ![c] = v]
  PROVE  /\ conns' \in [ConnIds -> ConnStates]
         /\ conns'[c] = v /\ \A d \in ConnIds \ {c} : conns'[d] = conns[d]
         /\ ConnsHaveAgent'
  <1>1. /\ conns' \in [ConnIds -> ConnStates]
        /\ conns'[c] = v /\ \A d \in ConnIds \ {c} : conns'[d] = conns[d]
    BY DEF EnrollInv, TypeOK
  <1>2. ASSUME NEW d \in ConnIds, conns'[d] # Unused
        PROVE  agents'[conns'[d].server].exists
    <2>1. CASE d = c
      BY <1>1, <2>1 DEF AgentsKept
    <2>2. CASE d # c
      <3>1. conns'[d] = conns[d] /\ conns[d] # Unused
        BY <1>1, <1>2, <2>2
      <3>2. conns[d].server \in Servers /\ agents[conns[d].server].exists
        BY <3>1, Rows DEF EnrollInv, ConnsHaveAgent
      <3> QED
        BY <3>1, <3>2 DEF AgentsKept
    <2> QED
      BY <2>1, <2>2
  <1> QED
    BY <1>1, <1>2 DEF ConnsHaveAgent

LEMMA Authenticates ==
  ASSUME EnrollInv, NEW c \in ConnIds, NEW s \in Servers, NEW k \in Credentials,
         Authenticate(c, s, k)
  PROVE  EnrollInv'
  <1>0. TypeOK /\ agents[s].exists /\ conns[c] = Unused
    BY DEF EnrollInv, Authenticate
  <1>1. agents[s] \in AgentRows
    BY <1>0, Rows
  <1>2. agents[s].status \in {"CONNECTED", "DISCONNECTED"}
    BY ZenonT(30), <1>1 DEF AgentRows
  <1>3. PICK v : v = [state |-> "accepting", server |-> s, credential |-> k,
                      loaded |-> agents[s].status, dead |-> FALSE, late |-> FALSE,
                      hidden |-> FALSE]
    BY ZenonT(30)
  <1>4. v \in ConnStates /\ v # Unused /\ v.state = "accepting" /\ v.server = s
    BY <1>2, <1>3 DEF ConnStates, Unused
  <1>5. /\ conns' = [conns EXCEPT ![c] = v]
        /\ UNCHANGED <<servers, tokens, agents, minted, rows, registry, request>>
    BY <1>3 DEF Authenticate
  <1>6. AgentsKept
    BY <1>5 DEF AgentsKept
  <1>7. /\ conns' \in [ConnIds -> ConnStates]
        /\ conns'[c] = v /\ \A d \in ConnIds \ {c} : conns'[d] = conns[d]
        /\ ConnsHaveAgent'
    BY ZenonT(30), <1>0, <1>4, <1>5, <1>6, WriteConn
  <1>8. TypeOK'
    BY <1>0, <1>5, <1>7 DEF TypeOK
  <1>9. /\ RequestsAreChecked' /\ CredentialsLast'
        /\ \A u \in Servers : Closing(u) => Closing(u)'
    BY <1>5, <1>6, SocketStep
  <1>10. conns[c].state = "unused"
    BY <1>0 DEF Unused
  <1>11. RowsAreClosed'
    <2>1. \A u \in Servers : Recorded(u)' = Recorded(u)
      BY <1>4, <1>7, <1>10 DEF Recorded
    <2> QED
      BY <1>5, <2>1 DEF EnrollInv, RowsAreClosed
  <1>12. \A u \in Servers : Settled(u)'
    <2> SUFFICES ASSUME NEW u \in Servers
                 PROVE  Settled(u)'
      OBVIOUS
    <2>1. registry[u] # NoConn => registry[u] \in ConnIds \ {c}
      BY <1>10, RegisteredHasAgent
    <2>2. registry[u] # NoConn => conns'[registry[u]] = conns[registry[u]]
      BY <1>7, <2>1
    <2> QED
      BY <1>5, <1>9, <2>2, SettledKept
  <1> QED
    BY <1>7, <1>8, <1>9, <1>11, <1>12, SettledNext DEF EnrollInv

LEMMA DeliveryFails ==
  ASSUME EnrollInv, NEW c \in ConnIds, DeliveryRaises(c)
  PROVE  EnrollInv'
  <1>0. TypeOK /\ conns[c].state = "open"
    BY DEF EnrollInv, DeliveryRaises
  <1>1. /\ conns[c] # Unused
        /\ conns[c] \in [state : {"accepting", "open", "lost", "ended"}, server : Servers,
                         credential : Credentials, loaded : {"CONNECTED", "DISCONNECTED"},
                         dead : BOOLEAN, late : BOOLEAN, hidden : BOOLEAN]
    BY <1>0, Rows
  <1>2. agents[conns[c].server].exists
    BY <1>1 DEF EnrollInv, ConnsHaveAgent
  <1>3. PICK v : v = [conns[c] EXCEPT !.state = "lost"]
    BY ZenonT(30)
  <1>4. v \in ConnStates /\ v # Unused /\ v.state = "lost" /\ v.server = conns[c].server
    BY <1>1, <1>3 DEF ConnStates, Unused
  <1>5. /\ conns' = [conns EXCEPT ![c] = v]
        /\ UNCHANGED <<servers, tokens, agents, minted, rows, registry, request>>
    BY <1>3 DEF DeliveryRaises
  <1>6. AgentsKept
    BY <1>5 DEF AgentsKept
  <1>7. /\ conns' \in [ConnIds -> ConnStates]
        /\ conns'[c] = v /\ \A d \in ConnIds \ {c} : conns'[d] = conns[d]
        /\ ConnsHaveAgent'
    BY ZenonT(30), <1>1, <1>2, <1>4, <1>5, <1>6, WriteConn
  <1>8. TypeOK'
    BY <1>0, <1>5, <1>7 DEF TypeOK
  <1>9. /\ RequestsAreChecked' /\ CredentialsLast'
        /\ \A u \in Servers : Closing(u) => Closing(u)'
    BY <1>5, <1>6, SocketStep
  <1>10. RowsAreClosed'
    <2>1. \A u \in Servers : Recorded(u)' = Recorded(u)
      BY <1>0, <1>4, <1>7 DEF Recorded
    <2> QED
      BY <1>5, <2>1 DEF EnrollInv, RowsAreClosed
  <1>11. \A u \in Servers : Settled(u)'
    <2> SUFFICES ASSUME NEW u \in Servers
                 PROVE  Settled(u)'
      OBVIOUS
    <2>1. CASE registry[u] = c
      <3>1. c # NoConn
        BY Ids
      <3>2. v.server = u
        BY <1>4, <2>1, <3>1, RegisteredHasAgent
      <3>3. registry'[u] = c /\ conns'[registry'[u]] = v
        BY <1>5, <1>7, <2>1
      <3> QED
        BY <1>4, <3>2, <3>3 DEF Settled
    <2>2. CASE registry[u] # c
      <3>1. registry[u] # NoConn => conns'[registry[u]] = conns[registry[u]]
        BY <1>7, <2>2, RegisteredHasAgent
      <3> QED
        BY <1>5, <1>9, <3>1, SettledKept
    <2> QED
      BY <2>1, <2>2
  <1> QED
    BY <1>7, <1>8, <1>9, <1>10, <1>11, SettledNext DEF EnrollInv

\* Only who is at the other end changes.
LEMMA PeersDie ==
  ASSUME EnrollInv, NEW c \in ConnIds, PeerDies(c)
  PROVE  EnrollInv'
  <1>0. TypeOK /\ conns[c].state \in {"accepting", "open"}
    BY DEF EnrollInv, PeerDies
  <1>1. /\ conns[c] # Unused
        /\ conns[c] \in [state : {"accepting", "open", "lost", "ended"}, server : Servers,
                         credential : Credentials, loaded : {"CONNECTED", "DISCONNECTED"},
                         dead : BOOLEAN, late : BOOLEAN, hidden : BOOLEAN]
    BY <1>0, Rows
  <1>2. agents[conns[c].server].exists
    BY <1>1 DEF EnrollInv, ConnsHaveAgent
  <1>3. PICK v : v = [conns[c] EXCEPT !.dead = TRUE]
    BY ZenonT(30)
  <1>4. /\ v \in ConnStates /\ v # Unused /\ v.state = conns[c].state
        /\ v.server = conns[c].server /\ v.late = conns[c].late /\ v.hidden = conns[c].hidden
    BY ZenonT(30), <1>1, <1>3 DEF ConnStates, Unused
  <1>5. /\ conns' = [conns EXCEPT ![c] = v]
        /\ UNCHANGED <<servers, tokens, agents, minted, rows, registry, request>>
    BY <1>3 DEF PeerDies
  <1>6. AgentsKept
    BY <1>5 DEF AgentsKept
  <1>7. /\ conns' \in [ConnIds -> ConnStates]
        /\ conns'[c] = v /\ \A d \in ConnIds \ {c} : conns'[d] = conns[d]
        /\ ConnsHaveAgent'
    BY ZenonT(30), <1>1, <1>2, <1>4, <1>5, <1>6, WriteConn
  <1>8. TypeOK'
    BY <1>0, <1>5, <1>7 DEF TypeOK
  <1>9. /\ RequestsAreChecked' /\ CredentialsLast'
        /\ \A u \in Servers : Closing(u) => Closing(u)'
    BY <1>5, <1>6, SocketStep
  <1>10. RowsAreClosed'
    <2>1. \A u \in Servers : Recorded(u)' = Recorded(u)
      BY <1>0, <1>4, <1>7 DEF Recorded
    <2> QED
      BY <1>5, <2>1 DEF EnrollInv, RowsAreClosed
  <1>11. \A u \in Servers : Settled(u)'
    <2> SUFFICES ASSUME NEW u \in Servers
                 PROVE  Settled(u)'
      OBVIOUS
    <2>1. CASE registry[u] = c
      <3>1. c # NoConn /\ registry'[u] = c /\ conns'[c] = v /\ agents' = agents
        BY <1>5, <1>7, <2>1, Ids
      <3>2. Settled(u)
        BY AllSettled
      <3> QED
        BY <1>4, <1>9, <2>1, <3>1, <3>2 DEF Settled
    <2>2. CASE registry[u] # c
      <3>1. registry[u] # NoConn => conns'[registry[u]] = conns[registry[u]]
        BY <1>7, <2>2, RegisteredHasAgent
      <3> QED
        BY <1>5, <1>9, <3>1, SettledKept
    <2> QED
      BY <2>1, <2>2
  <1> QED
    BY <1>7, <1>8, <1>9, <1>10, <1>11, SettledNext DEF EnrollInv

LEMMA Registers ==
  ASSUME EnrollInv, NEW c \in ConnIds, Register(c)
  PROVE  EnrollInv'
  <1>0. TypeOK /\ conns[c].state = "accepting"
    BY DEF EnrollInv, Register
  <1>1. /\ conns[c] # Unused
        /\ conns[c] \in [state : {"accepting", "open", "lost", "ended"}, server : Servers,
                         credential : Credentials, loaded : {"CONNECTED", "DISCONNECTED"},
                         dead : BOOLEAN, late : BOOLEAN, hidden : BOOLEAN]
    BY <1>0, Rows
  <1>2. PICK s \in Servers : s = conns[c].server
    BY <1>1
  <1>3. agents[s].exists
    BY <1>1, <1>2 DEF EnrollInv, ConnsHaveAgent
  <1>4. agents[s] \in AgentRows
    BY <1>0, <1>3, Rows
  <1>5. PICK late \in BOOLEAN, hidden \in BOOLEAN :
            /\ late = (agents[s].credential # conns[c].credential)
            /\ hidden = (agents[s].status # conns[c].loaded)
    BY ZenonT(30)
  <1>6. PICK v : v = [conns[c] EXCEPT !.state = "open", !.late = late, !.hidden = hidden]
    OBVIOUS
  <1>7. /\ v \in ConnStates /\ v # Unused /\ v.state = "open" /\ v.server = s
        /\ v.late = late /\ v.hidden = hidden
    BY ZenonT(30), <1>1, <1>2, <1>6 DEF ConnStates, Unused
  <1>8. PICK status \in {"CONNECTED", "DISCONNECTED"} :
            status = IF conns[c].loaded = "CONNECTED" THEN agents[s].status ELSE "CONNECTED"
    BY ZenonT(30), <1>4 DEF AgentRows
  <1>9. PICK a : a = [agents[s] EXCEPT !.recent = TRUE, !.status = status]
    OBVIOUS
  <1>10. a \in AgentRows
    BY ZenonT(30), <1>4, <1>9 DEF AgentRows
  <1>11. a.exists = agents[s].exists /\ a.credential = agents[s].credential /\ a.status = status
    BY <1>4, <1>9 DEF AgentRows
  <1>12. /\ conns' = [conns EXCEPT ![c] = v]
         /\ registry' = [registry EXCEPT ![s] = c]
         /\ agents' = [agents EXCEPT ![s] = a]
         /\ rows' = [rows EXCEPT ![s] = @ + 1]
         /\ UNCHANGED <<servers, tokens, minted, request>>
    BY ZenonT(30), <1>2, <1>5, <1>6, <1>8, <1>9 DEF Register
  <1>13. /\ agents' \in [Servers -> AgentRows \cup {NoAgent}]
         /\ agents'[s] = a /\ \A u \in Servers \ {s} : agents'[u] = agents[u]
    BY <1>0, <1>10, <1>12 DEF TypeOK
  <1>14. AgentsKept
    BY ZenonT(30), <1>3, <1>11, <1>13 DEF AgentsKept
  <1>15. /\ conns' \in [ConnIds -> ConnStates]
         /\ conns'[c] = v /\ \A d \in ConnIds \ {c} : conns'[d] = conns[d]
         /\ ConnsHaveAgent'
    BY ZenonT(30), <1>3, <1>7, <1>12, <1>14, WriteConn
  <1>16. /\ registry' \in [Servers -> ConnIds \cup {NoConn}]
         /\ registry'[s] = c /\ \A u \in Servers \ {s} : registry'[u] = registry[u]
    BY <1>0, <1>12 DEF TypeOK
  <1>17. /\ RequestsAreChecked' /\ CredentialsLast'
         /\ \A u \in Servers : Closing(u) => Closing(u)'
    BY <1>12, <1>14, SocketStep
  <1>18. rows' \in [Servers -> 0..MaxConnections] /\ RowsAreClosed'
    <2>1. /\ Recorded(s)' = Recorded(s) \cup {c} /\ c \notin Recorded(s)
          /\ \A u \in Servers \ {s} : Recorded(u)' = Recorded(u)
      BY <1>0, <1>7, <1>15 DEF Recorded
    <2>2. Recorded(s) \in SUBSET ConnIds /\ Recorded(s) \cup {c} \in SUBSET ConnIds
      BY DEF Recorded
    <2>3. PICK n \in 0..MaxConnections, m \in 0..MaxConnections :
              n = Cardinality(Recorded(s)) /\ m = Cardinality(Recorded(s) \cup {c})
      BY <2>2, RecordedFinite
    <2>4. IsFiniteSet(Recorded(s))
      BY <2>2, RecordedFinite
    <2>5. m = n + 1
      BY ZenonT(30), <2>1, <2>3, <2>4, FS_AddElement
    <2>6. rows[s] = n
      BY <2>3 DEF EnrollInv, RowsAreClosed
    <2>7. rows' = [rows EXCEPT ![s] = m]
      BY <1>12, <2>5, <2>6
    <2>8. rows' \in [Servers -> 0..MaxConnections]
      BY <1>0, <2>7 DEF TypeOK
    <2>9. rows'[s] = m /\ \A u \in Servers \ {s} : rows'[u] = rows[u]
      BY <1>0, <2>7 DEF TypeOK
    <2>10. ASSUME NEW u \in Servers PROVE rows'[u] = Cardinality(Recorded(u)')
      <3>1. CASE u = s
        BY <2>1, <2>3, <2>9, <3>1
      <3>2. CASE u # s
        BY <2>1, <2>9, <3>2 DEF EnrollInv, RowsAreClosed
      <3> QED
        BY <3>1, <3>2
    <2> QED
      BY <2>8, <2>10 DEF RowsAreClosed
  <1>19. TypeOK'
    BY <1>0, <1>12, <1>13, <1>15, <1>16, <1>18 DEF TypeOK
  <1>20. Settled(s)'
    <2>1. conns'[registry'[s]] = v
      BY <1>15, <1>16
    <2>2. a.credential = NoCredential => v.late
      <3>1. conns[c].credential # NoCredential
        BY <1>1, Ids
      <3> QED
        BY ZenonT(30), <1>5, <1>7, <1>11, <3>1
    <2>3. ~v.hidden => a.status = "CONNECTED"
      <3>1. ~v.hidden => agents[s].status = conns[c].loaded
        BY ZenonT(30), <1>5, <1>7
      <3> QED
        BY <1>8, <1>11, <3>1
    <2> QED
      BY <1>7, <1>13, <2>1, <2>2, <2>3 DEF Settled
  <1>21. \A u \in Servers : Settled(u)'
    <2> SUFFICES ASSUME NEW u \in Servers, u # s
                 PROVE  Settled(u)'
      BY <1>20
    <2>1. registry[u] # NoConn => conns'[registry[u]] = conns[registry[u]]
      BY <1>0, <1>15, RegisteredHasAgent
    <2> QED
      BY <1>13, <1>16, <1>17, <2>1, SettledKept
  <1> QED
    BY <1>15, <1>17, <1>18, <1>19, <1>21, SettledNext DEF EnrollInv

LEMMA Disconnects ==
  ASSUME EnrollInv, NEW c \in ConnIds, Disconnect(c)
  PROVE  EnrollInv'
  <1>0. TypeOK /\ conns[c].state = "open"
    BY DEF EnrollInv, Disconnect
  <1>1. /\ conns[c] # Unused
        /\ conns[c] \in [state : {"accepting", "open", "lost", "ended"}, server : Servers,
                         credential : Credentials, loaded : {"CONNECTED", "DISCONNECTED"},
                         dead : BOOLEAN, late : BOOLEAN, hidden : BOOLEAN]
    BY <1>0, Rows
  <1>2. PICK s \in Servers : s = conns[c].server
    BY <1>1
  <1>3. agents[s].exists
    BY <1>1, <1>2 DEF EnrollInv, ConnsHaveAgent
  <1>4. agents[s] \in AgentRows
    BY <1>0, <1>3, Rows
  <1>5. PICK v : v = [conns[c] EXCEPT !.state = "ended"]
    BY ZenonT(30)
  <1>6. v \in ConnStates /\ v # Unused /\ v.state = "ended" /\ v.server = s
    BY <1>1, <1>2, <1>5 DEF ConnStates, Unused
  <1>7. PICK a : a = [agents[s] EXCEPT !.status = "DISCONNECTED"]
    BY ZenonT(30)
  <1>8. a \in AgentRows /\ a.exists = agents[s].exists
    BY ZenonT(30), <1>4, <1>7 DEF AgentRows
  <1>9. /\ conns' = [conns EXCEPT ![c] = v]
        /\ registry' = [registry EXCEPT ![s] = NoConn]
        /\ agents' = [agents EXCEPT ![s] = a]
        /\ rows' = [rows EXCEPT ![s] = IF @ > 0 THEN @ - 1 ELSE @]
        /\ UNCHANGED <<servers, tokens, minted, request>>
    BY <1>2, <1>5, <1>7 DEF Disconnect
  <1>10. /\ agents' \in [Servers -> AgentRows \cup {NoAgent}]
         /\ agents'[s] = a /\ \A u \in Servers \ {s} : agents'[u] = agents[u]
    BY <1>0, <1>8, <1>9 DEF TypeOK
  <1>11. AgentsKept
    BY ZenonT(30), <1>3, <1>8, <1>10 DEF AgentsKept
  <1>12. /\ conns' \in [ConnIds -> ConnStates]
         /\ conns'[c] = v /\ \A d \in ConnIds \ {c} : conns'[d] = conns[d]
         /\ ConnsHaveAgent'
    BY ZenonT(30), <1>3, <1>6, <1>9, <1>11, WriteConn
  <1>13. /\ registry' \in [Servers -> ConnIds \cup {NoConn}]
         /\ registry'[s] = NoConn /\ \A u \in Servers \ {s} : registry'[u] = registry[u]
    BY <1>0, <1>9 DEF TypeOK
  <1>14. /\ RequestsAreChecked' /\ CredentialsLast'
         /\ \A u \in Servers : Closing(u) => Closing(u)'
    BY <1>9, <1>11, SocketStep
  <1>15. rows' \in [Servers -> 0..MaxConnections] /\ RowsAreClosed'
    <2>1. /\ Recorded(s)' = Recorded(s) \ {c} /\ c \in Recorded(s)
          /\ \A u \in Servers \ {s} : Recorded(u)' = Recorded(u)
      BY <1>0, <1>2, <1>6, <1>12 DEF Recorded
    <2>2. Recorded(s) \in SUBSET ConnIds /\ Recorded(s) \ {c} \in SUBSET ConnIds
      BY DEF Recorded
    <2>3. PICK n \in 0..MaxConnections, m \in 0..MaxConnections :
              n = Cardinality(Recorded(s)) /\ m = Cardinality(Recorded(s) \ {c})
      BY <2>2, RecordedFinite
    <2>4. IsFiniteSet(Recorded(s))
      BY <2>2, RecordedFinite
    <2>5. m = n - 1
      BY <2>1, <2>3, <2>4, FS_RemoveElement
    <2>6. rows[s] = n /\ n > 0 /\ MaxConnections \in Nat
      BY <2>3, <2>5, EnrollmentConstants DEF EnrollInv, RowsAreClosed
    <2>7. rows' = [rows EXCEPT ![s] = m]
      BY <1>9, <2>5, <2>6
    <2>8. rows' \in [Servers -> 0..MaxConnections]
      BY <1>0, <2>7 DEF TypeOK
    <2>9. rows'[s] = m /\ \A u \in Servers \ {s} : rows'[u] = rows[u]
      BY <1>0, <2>7 DEF TypeOK
    <2>10. ASSUME NEW u \in Servers PROVE rows'[u] = Cardinality(Recorded(u)')
      <3>1. CASE u = s
        BY <2>1, <2>3, <2>9, <3>1
      <3>2. CASE u # s
        BY <2>1, <2>9, <3>2 DEF EnrollInv, RowsAreClosed
      <3> QED
        BY <3>1, <3>2
    <2> QED
      BY <2>8, <2>10 DEF RowsAreClosed
  <1>16. TypeOK'
    BY <1>0, <1>9, <1>10, <1>12, <1>13, <1>15 DEF TypeOK
  <1>17. \A u \in Servers : Settled(u)'
    <2> SUFFICES ASSUME NEW u \in Servers, u # s
                 PROVE  Settled(u)'
      BY <1>13 DEF Settled
    <2>1. registry[u] # NoConn => conns'[registry[u]] = conns[registry[u]]
      BY <1>2, <1>12, RegisteredHasAgent
    <2> QED
      BY <1>10, <1>13, <1>14, <2>1, SettledKept
  <1> QED
    BY <1>12, <1>14, <1>15, <1>16, <1>17, SettledNext DEF EnrollInv

LEMMA RevokesAgent ==
  ASSUME EnrollInv, NEW r \in Requests, NEW s \in Servers, RevokeAgent(r, s)
  PROVE  EnrollInv'
  <1>0. TypeOK /\ CredentialsLast /\ request[r] = Idle /\ agents[s].exists
    BY DEF EnrollInv, RevokeAgent
  <1>1. agents[s] \in AgentRows
    BY <1>0, Rows
  <1>2. PICK a : a = [agents[s] EXCEPT !.credential = NoCredential, !.status = "DISCONNECTED"]
    OBVIOUS
  <1>3. a \in AgentRows /\ a.exists = agents[s].exists
    BY ZenonT(30), <1>1, <1>2 DEF AgentRows
  <1>4. PICK v \in RequestStates :
            v = [op |-> "closing", server |-> s] /\ v.op = "closing"
    <2>1. PICK v : v = [op |-> "closing", server |-> s]
      BY ZenonT(30)
    <2>2. v \in RequestStates /\ v.op = "closing"
      BY <2>1 DEF RequestStates
    <2> QED
      BY <2>1, <2>2
  <1>5. /\ agents' = [agents EXCEPT ![s] = a]
        /\ IF registry[s] # NoConn /\ conns[registry[s]].state # "lost"
           THEN request' = [request EXCEPT ![r] = v]
           ELSE UNCHANGED request
        /\ UNCHANGED <<servers, tokens, minted, conns, rows, registry>>
    BY ZenonT(30), <1>2, <1>4 DEF RevokeAgent, Become
  <1>6. /\ agents' \in [Servers -> AgentRows \cup {NoAgent}]
        /\ agents'[s] = a /\ \A u \in Servers \ {s} : agents'[u] = agents[u]
    BY <1>0, <1>3, <1>5 DEF TypeOK
  <1>7. AgentsKept /\ TokensKept
    BY ZenonT(30), <1>0, <1>3, <1>5, <1>6 DEF AgentsKept, TokensKept
  <1>8. request[r].op # "closing"
    BY <1>0 DEF Idle
  <1>9. /\ request' \in [Requests -> RequestStates]
        /\ \A u \in Servers : Closing(u) => Closing(u)'
        /\ \A q \in Requests : request'[q] = request[q] \/ Checked(request[q])'
        /\ CredentialsLast'
    <2>1. CASE UNCHANGED request
      BY <1>0, <1>5, <2>1 DEF TypeOK, Closing, CredentialsLast, Enrolling
    <2>2. CASE request' = [request EXCEPT ![r] = v]
      <3>1. /\ request' \in [Requests -> RequestStates]
            /\ request'[r] = v /\ \A q \in Requests \ {r} : request'[q] = request[q]
            /\ \A u \in Servers : Closing(u) => Closing(u)'
        BY ZenonT(30), <1>8, <2>2, WriteRequest
      <3>2. Checked(request[r])'
        BY <1>4, <3>1 DEF Checked
      <3>3. PICK n \in Nat, m \in Nat :
                n = Cardinality(Enrolling) /\ m = Cardinality(Enrolling') /\ m <= n
        BY ZenonT(30), <1>0, <1>4, <2>2, EnrollingCount
      <3>4. minted \in Nat /\ MaxCredentials \in Nat /\ minted + n <= MaxCredentials
        BY <1>0, <3>3, EnrollmentConstants DEF TypeOK, CredentialsLast
      <3>5. CredentialsLast'
        BY <1>5, <3>3, <3>4 DEF CredentialsLast
      <3> QED
        BY <3>1, <3>2, <3>5
    <2> QED
      BY <1>5, <2>1, <2>2
  <1>10. RequestsAreChecked'
    BY <1>7, <1>9, RequestsKept
  <1>11. TypeOK'
    BY <1>0, <1>5, <1>6, <1>9 DEF TypeOK
  <1>12. ConnsHaveAgent'
    <2> SUFFICES ASSUME NEW c \in ConnIds, conns[c] # Unused
                 PROVE  agents'[conns[c].server].exists
      BY <1>5 DEF ConnsHaveAgent
    <2>1. conns[c].server \in Servers
      BY <1>0, Rows
    <2> QED
      BY <1>7, <2>1 DEF EnrollInv, ConnsHaveAgent, AgentsKept
  <1>13. RowsAreClosed'
    BY <1>5 DEF EnrollInv, RowsAreClosed, Recorded
  <1>14. Settled(s)'
    <2>1. CASE registry[s] = NoConn
      BY <1>5, <2>1 DEF Settled
    <2>2. CASE registry[s] # NoConn
      <3>1. conns[registry[s]].state \in {"open", "lost"} /\ conns[registry[s]].server = s
        BY <2>2, RegisteredHasAgent
      <3>2. CASE conns[registry[s]].state = "lost"
        BY <1>5, <3>1, <3>2 DEF Settled
      <3>3. CASE conns[registry[s]].state # "lost"
        <4>1. request'[r] = v
          BY <1>0, <1>5, <2>2, <3>3 DEF TypeOK
        <4>2. Closing(s)'
          BY <1>4, <4>1 DEF Closing
        <4> QED
          BY <1>5, <3>1, <4>2 DEF Settled
      <3> QED
        BY <3>2, <3>3
    <2> QED
      BY <2>1, <2>2
  <1>15. \A u \in Servers : Settled(u)'
    <2> SUFFICES ASSUME NEW u \in Servers, u # s
                 PROVE  Settled(u)'
      BY <1>14
    <2>1. registry'[u] = registry[u] /\ conns' = conns /\ agents'[u] = agents[u]
      BY <1>5, <1>6
    <2> QED
      BY <1>9, <2>1, SettledKept
  <1> QED
    BY <1>9, <1>10, <1>11, <1>12, <1>13, <1>15, SettledNext DEF EnrollInv

LEMMA Unregisters ==
  ASSUME EnrollInv, NEW r \in Requests, Unregister(r)
  PROVE  EnrollInv'
  <1>0. TypeOK /\ CredentialsLast /\ Idle \in RequestStates /\ Idle.op = "idle"
    BY DEF EnrollInv, RequestStates, Idle
  <1>1. request[r].op = "closing" /\ request[r] \in RequestStates
    BY <1>0, Rows DEF Unregister
  <1>2. PICK s \in Servers : s = request[r].server
    BY <1>1, RequestKinds
  <1>3. /\ registry' = [registry EXCEPT ![s] = NoConn]
        /\ request' = [request EXCEPT ![r] = Idle]
        /\ UNCHANGED <<servers, tokens, agents, minted, conns, rows>>
    BY <1>2 DEF Unregister, Become
  <1>4. /\ registry' \in [Servers -> ConnIds \cup {NoConn}]
        /\ registry'[s] = NoConn /\ \A u \in Servers \ {s} : registry'[u] = registry[u]
    BY <1>0, <1>3 DEF TypeOK
  <1>5. /\ request' \in [Requests -> RequestStates]
        /\ request'[r] = Idle /\ \A q \in Requests \ {r} : request'[q] = request[q]
    BY <1>0, <1>3 DEF TypeOK
  <1>6. ASSUME NEW u \in Servers, u # s, Closing(u) PROVE Closing(u)'
    <2>1. PICK o \in Requests : request[o] = [op |-> "closing", server |-> u]
      BY <1>6 DEF Closing
    <2>2. o # r
      BY <1>2, <1>6, <2>1
    <2> QED
      BY <1>5, <2>1, <2>2 DEF Closing
  <1>7. TypeOK'
    BY <1>0, <1>3, <1>4, <1>5 DEF TypeOK
  <1>8. CredentialsLast'
    <2>1. PICK n \in Nat, m \in Nat :
              n = Cardinality(Enrolling) /\ m = Cardinality(Enrolling') /\ m <= n
      BY ZenonT(30), <1>0, <1>3, EnrollingCount
    <2>2. minted \in Nat /\ MaxCredentials \in Nat /\ minted + n <= MaxCredentials
      BY <1>0, <2>1, EnrollmentConstants DEF TypeOK, CredentialsLast
    <2> QED
      BY <1>3, <2>1, <2>2 DEF CredentialsLast
  <1>9. RequestsAreChecked'
    <2>1. TokensKept /\ AgentsKept
      BY <1>3 DEF TokensKept, AgentsKept
    <2>2. Checked(request[r])'
      BY <1>5 DEF Checked, Idle
    <2>3. \A q \in Requests : request'[q] = request[q] \/ Checked(request[q])'
      BY <1>5, <2>2
    <2> QED
      BY <2>1, <2>3, RequestsKept
  <1>10. ConnsHaveAgent' /\ RowsAreClosed'
    BY <1>3 DEF EnrollInv, ConnsHaveAgent, RowsAreClosed, Recorded
  <1>11. \A u \in Servers : Settled(u)'
    <2> SUFFICES ASSUME NEW u \in Servers, u # s
                 PROVE  Settled(u)'
      BY <1>4 DEF Settled
    <2>1. registry'[u] = registry[u] /\ conns' = conns /\ agents' = agents
      BY <1>3, <1>4
    <2> QED
      BY <1>6, <2>1, SettledKept
  <1> QED
    BY <1>7, <1>8, <1>9, <1>10, <1>11, SettledNext DEF EnrollInv

LEMMA Restarts ==
  ASSUME EnrollInv, Restart
  PROVE  EnrollInv'
  <1>0. TypeOK
    BY DEF EnrollInv
  <1>1. /\ registry' = [s \in Servers |-> NoConn]
        /\ request' = [r \in Requests |-> Idle]
        /\ UNCHANGED <<servers, tokens, agents, minted, rows>>
    BY DEF Restart
  <1>2. ASSUME NEW c \in ConnIds
        PROVE  /\ conns'[c] \in ConnStates
               /\ conns'[c] # Unused =>
                     conns[c] # Unused /\ conns'[c].server = conns[c].server
               /\ conns'[c].state \in {"open", "lost"} <=> conns[c].state \in {"open", "lost"}
               /\ conns[c].state \in {"open", "lost"} => conns'[c].server = conns[c].server
    <2>1. conns'[c] = CASE conns[c].state = "accepting" -> [conns[c] EXCEPT !.state = "ended"]
                        [] conns[c].state = "open"      -> [conns[c] EXCEPT !.state = "lost"]
                        [] OTHER                        -> conns[c]
      BY DEF Restart
    <2>2. CASE conns[c].state \notin {"accepting", "open"}
      <3>1. conns'[c] = conns[c]
        BY <2>1, <2>2
      <3> QED
        BY <1>0, <3>1 DEF TypeOK
    <2>3. CASE conns[c].state \in {"accepting", "open"}
      <3>1. /\ conns[c] # Unused
            /\ conns[c] \in [state : {"accepting", "open", "lost", "ended"}, server : Servers,
                             credential : Credentials,
                             loaded : {"CONNECTED", "DISCONNECTED"},
                             dead : BOOLEAN, late : BOOLEAN, hidden : BOOLEAN]
        BY <1>0, <2>3, Rows
      <3>2. PICK x \in {"ended", "lost"} :
                /\ conns'[c] = [conns[c] EXCEPT !.state = x]
                /\ x = "lost" <=> conns[c].state = "open"
        BY <2>1, <2>3
      <3>3. conns'[c] \in ConnStates
        BY <3>1, <3>2 DEF ConnStates
      <3>4. conns'[c].state = x /\ conns'[c].server = conns[c].server
        BY <3>1, <3>2
      <3> QED
        BY <2>3, <3>1, <3>2, <3>3, <3>4
    <2> QED
      BY <2>2, <2>3
  <1>3. conns' \in [ConnIds -> ConnStates]
    <2>1. DOMAIN conns' = ConnIds /\ conns' = [c \in ConnIds |-> conns'[c]]
      BY DEF Restart
    <2> QED
      BY <1>2, <2>1
  <1>4. TypeOK'
    <2>1. registry' \in [Servers -> ConnIds \cup {NoConn}]
      BY <1>1
    <2>2. request' \in [Requests -> RequestStates]
      BY <1>1 DEF RequestStates
    <2> QED
      BY <1>0, <1>1, <1>3, <2>1, <2>2 DEF TypeOK
  <1>5. CredentialsLast'
    <2>1. Enrolling' = {}
      BY <1>1 DEF Enrolling, Idle
    <2>2. Cardinality(Enrolling') = 0
      BY <2>1, FS_EmptySet
    <2>3. minted \in 0..MaxCredentials /\ MaxCredentials \in Nat
      BY <1>0, EnrollmentConstants DEF TypeOK
    <2> QED
      BY <1>1, <2>2, <2>3 DEF CredentialsLast
  <1>6. RequestsAreChecked'
    BY <1>1 DEF RequestsAreChecked, Idle
  <1>7. ConnsHaveAgent'
    BY <1>1, <1>2 DEF EnrollInv, ConnsHaveAgent
  <1>8. RowsAreClosed'
    <2>1. \A s \in Servers : Recorded(s)' = Recorded(s)
      BY <1>2 DEF Recorded
    <2> QED
      BY <1>1, <2>1 DEF EnrollInv, RowsAreClosed
  <1>9. \A s \in Servers : Settled(s)'
    BY <1>1 DEF Settled
  <1> QED
    BY <1>4, <1>5, <1>6, <1>7, <1>8, <1>9, SettledNext DEF EnrollInv

----------------------------------------------------------------------------
(* The theorems.                                                           *)

LEMMA InitHolds ==
  ASSUME Init
  PROVE  EnrollInv
  <1>0. MaxTokens \in Nat /\ MaxCredentials \in Nat /\ MaxConnections \in Nat
    BY EnrollmentConstants
  <1>1. TypeOK
    BY <1>0 DEF Init, TypeOK, ConnStates, RequestStates
  <1>2. CredentialsLast
    <2>1. Enrolling = {}
      BY DEF Init, Enrolling, Idle
    <2>2. Cardinality(Enrolling) = 0
      BY <2>1, FS_EmptySet
    <2> QED
      BY <1>0, <2>2 DEF Init, CredentialsLast
  <1>3. RequestsAreChecked
    BY DEF Init, RequestsAreChecked, Idle
  <1>4. ConnsHaveAgent
    BY DEF Init, ConnsHaveAgent
  <1>5. RegistryIsOwn /\ RevokedIsUnregistered /\ RegisteredIsShown
    BY DEF Init, RegistryIsOwn, RevokedIsUnregistered, RegisteredIsShown
  <1>6. RowsAreClosed
    <2>1. \A s \in Servers : Recorded(s) = {}
      BY DEF Init, Recorded, Unused
    <2> QED
      BY <2>1, FS_EmptySet DEF Init, RowsAreClosed
  <1> QED
    BY <1>1, <1>2, <1>3, <1>4, <1>5, <1>6 DEF EnrollInv

LEMMA StepHolds ==
  ASSUME EnrollInv, [Next]_vars
  PROVE  EnrollInv'
  <1>1. CASE UNCHANGED vars
    <2>1. TypeOK' /\ CredentialsLast'
      BY <1>1 DEF EnrollInv, vars, TypeOK, CredentialsLast, Enrolling
    <2>2. TokensKept /\ AgentsKept /\ StatusKept
      BY <1>1 DEF vars, TokensKept, AgentsKept, StatusKept
    <2>3. UNCHANGED <<conns, rows, registry, request>>
      BY <1>1 DEF vars
    <2>4. \A s \in Servers : Closing(s) => Closing(s)'
      BY <2>3 DEF Closing
    <2> QED
      BY <2>1, <2>2, <2>3, <2>4, CalmStep DEF Calm
  <1>2. ASSUME NEW r \in Requests, Administer(r) PROVE EnrollInv'
    BY <1>2, Reads, RevokesAgent, RevokesToken, Unregisters DEF Administer
  <1>3. ASSUME NEW r \in Requests, EnrollAgent(r) PROVE EnrollInv'
    BY <1>3, Reads, Enrolls DEF EnrollAgent
  <1>4. ASSUME NEW s \in Servers, NEW t \in TokenIds, IssueToken(s, t) PROVE EnrollInv'
    BY <1>4, IssuesToken
  <1>5. ASSUME NEW c \in ConnIds, AgentSocket(c) PROVE EnrollInv'
    <2>1. CASE Heartbeat(c)
      <3>1. TypeOK /\ conns[c].state = "open"
        BY <2>1 DEF EnrollInv, Heartbeat
      <3>2. conns[c] # Unused
        BY <3>1, Rows
      <3>3. PICK s \in Servers : s = conns[c].server
        BY <3>1, <3>2, Rows
      <3>4. agents[s].exists
        BY <3>2, <3>3 DEF EnrollInv, ConnsHaveAgent
      <3> QED
        BY ZenonT(30), <2>1, <3>3, <3>4, RecencyChanges DEF Heartbeat
    <2>2. CASE \E s \in Servers, k \in Credentials : Authenticate(c, s, k)
      BY <2>2, Authenticates
    <2> QED
      BY <1>5, <2>1, <2>2, Registers, DeliveryFails, PeersDie, Disconnects
      DEF AgentSocket
  <1>6. ASSUME NEW s \in Servers, Silence(s) PROVE EnrollInv'
    BY ZenonT(30), <1>6, RecencyChanges DEF Silence
  <1>7. CASE Restart
    BY <1>7, Restarts
  <1> QED
    BY <1>1, <1>2, <1>3, <1>4, <1>5, <1>6, <1>7 DEF Next

\* The inductive invariant holds of agents, tokens and connections: types,
\* credentials left for every enrollment under way, requests that passed their
\* checks, registrations that belong to their server.
THEOREM Invariance == Spec => []EnrollInv
  <1>1. Init => EnrollInv
    BY InitHolds
  <1>2. EnrollInv /\ [Next]_vars => EnrollInv'
    BY StepHolds
  <1> QED
    BY <1>1, <1>2, PTL DEF Spec

\* The open agent_connections rows of a server are as many as its connections
\* that are open or ended without the finally block of agent_socket.
THEOREM OneRowPerConnection == Spec => []RowsAreClosed
  <1>1. EnrollInv => RowsAreClosed
    BY DEF EnrollInv
  <1> QED
    BY <1>1, Invariance, PTL

\* Once revoke_agent is done, what is registered is no connection, a dead one,
\* or one whose accept() overlapped the revocation.
THEOREM RevocationDisconnects == Spec => []RevokedIsUnregistered
  <1>1. EnrollInv => RevokedIsUnregistered
    BY DEF EnrollInv
  <1> QED
    BY <1>1, Invariance, PTL

\* An agent that commands can be sent to is shown as connected, unless the
\* status of its row changed while the connection was being accepted.
THEOREM StatusFollowsRegistry == Spec => []RegisteredIsShown
  <1>1. EnrollInv => RegisteredIsShown
    BY DEF EnrollInv
  <1> QED
    BY <1>1, Invariance, PTL
=============================================================================
