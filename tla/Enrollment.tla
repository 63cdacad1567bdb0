----------------------------- MODULE Enrollment -----------------------------
(***************************************************************************)
(* Servers, enrollment tokens, agent credentials and agent connections:    *)
(* routes/servers.py, routes/agents.py (enroll), routes/ws.py (the life of *)
(* a connection), server_service.py, agent_service.py, agent_status.py.    *)
(*                                                                         *)
(* The synchronous routes run in threads and overlap (READ COMMITTED); a   *)
(* request is split between its reads and its commit.  The WebSocket       *)
(* handler and revoke_agent run on the event loop and are split at their   *)
(* awaits.  What travels over a connection is CommandLink's subject.       *)
(***************************************************************************)
EXTENDS Naturals, FiniteSets

CONSTANTS
    Servers,            \* servers, told apart by their hostname
    MaxTokens,          \* bound on the enrollment_tokens rows
    MaxCredentials,     \* bound on the credentials issued
    MaxConnections,     \* bound on the connections accepted
    Requests            \* requests in flight at a time

ASSUME EnrollmentConstants ==
    /\ {MaxTokens, MaxCredentials, MaxConnections} \subseteq Nat
    /\ IsFiniteSet(Requests)

VARIABLES
    servers,    \* servers rows
    tokens,     \* enrollment_tokens rows
    agents,     \* agents rows; a server has at most one
    minted,     \* number of credentials issued
    conns,      \* handlers of agent_socket
    rows,       \* per server: agent_connections rows with no disconnected_at
    registry,   \* ConnectionManager._connections
    request     \* per request: what it has read so far

vars == <<servers, tokens, agents, minted, conns, rows, registry, request>>

----------------------------------------------------------------------------

TokenIds == 1..MaxTokens

ConnIds == 1..MaxConnections

NoCredential == 0

NoConn == 0

Credentials == 1..MaxCredentials

NoToken == [exists |-> FALSE]

NoAgent == [exists |-> FALSE]

Unused == [state |-> "unused"]

Idle == [op |-> "idle"]

\* issued is history, read by no action: the credentials given for the token.
TokenRows ==
    [exists : {TRUE}, server : Servers, used : BOOLEAN, revoked : BOOLEAN,
     issued : SUBSET Credentials]

\* recent: last_seen_at is less than OFFLINE_AFTER_SECONDS old.
AgentRows ==
    [exists : {TRUE}, credential : Credentials \cup {NoCredential},
     status : {"CONNECTED", "DISCONNECTED"}, recent : BOOLEAN]

\* loaded: the status of the row at authentication.  dead: the agent's end is
\* gone (killed process, network drop) and the handler has read all it sent, but
\* the close has not been noticed.  late and hidden are history: when the
\* connection was registered, its credential no longer worked, the row's status
\* was no longer the loaded one.
ConnStates ==
    {Unused}
    \cup [state : {"accepting", "open", "lost", "ended"}, server : Servers,
          credential : Credentials, loaded : {"CONNECTED", "DISCONNECTED"},
          dead : BOOLEAN, late : BOOLEAN, hidden : BOOLEAN]

RequestStates ==
    {Idle}
    \cup [op : {"create_server"}, server : Servers]
    \cup [op : {"revoke_token"}, token : TokenIds, free : BOOLEAN]
    \cup [op : {"read_token"}, token : TokenIds, used : BOOLEAN, revoked : BOOLEAN]
    \cup [op : {"enroll"}, token : TokenIds, found : BOOLEAN]
    \cup [op : {"closing"}, server : Servers]

\* Connections of a server whose agent_connections row is still open.
Recorded(s) == {c \in ConnIds : conns[c].state \in {"open", "lost"} /\ conns[c].server = s}

\* An agent is at the other end of a connection, so that heartbeats come.
Alive(s) ==
    \E c \in ConnIds :
        /\ conns[c].state \in {"accepting", "open"}
        /\ conns[c].server = s
        /\ ~conns[c].dead

TypeOK ==
    /\ servers \subseteq Servers
    /\ tokens \in [TokenIds -> TokenRows \cup {NoToken}]
    /\ agents \in [Servers -> AgentRows \cup {NoAgent}]
    /\ minted \in 0..MaxCredentials
    /\ conns \in [ConnIds -> ConnStates]
    /\ rows \in [Servers -> 0..MaxConnections]
    /\ registry \in [Servers -> ConnIds \cup {NoConn}]
    /\ request \in [Requests -> RequestStates]

Init ==
    /\ servers = {}
    /\ tokens = [t \in TokenIds |-> NoToken]
    /\ agents = [s \in Servers |-> NoAgent]
    /\ minted = 0
    /\ conns = [c \in ConnIds |-> Unused]
    /\ rows = [s \in Servers |-> 0]
    /\ registry = [s \in Servers |-> NoConn]
    /\ request = [r \in Requests |-> Idle]

Become(r, state) == request' = [request EXCEPT ![r] = state]

\* Faulty variant: the status alone decides.
IsOnlineByStatus(s) == agents[s].exists /\ agents[s].status = "CONNECTED"

\* is_online, as _server_out shows it
IsOnline(s) == agents[s].exists /\ agents[s].status = "CONNECTED" /\ agents[s].recent

----------------------------------------------------------------------------
(* POST /servers, POST and DELETE /servers/{id}/enrollment-tokens          *)

\* create_server: the hostname is free.
CheckHostname(r, s) ==
    /\ request[r] = Idle
    /\ s \notin servers
    /\ Become(r, [op |-> "create_server", server |-> s])
    /\ UNCHANGED <<servers, tokens, agents, minted, conns, rows, registry>>

\* The unique index on hostname refuses the second of two, which writes nothing.
CreateServer(r) ==
    /\ request[r].op = "create_server"
    /\ servers' = servers \cup {request[r].server}
    /\ Become(r, Idle)
    /\ UNCHANGED <<tokens, agents, minted, conns, rows, registry>>

\* issue_enrollment_token
IssueToken(s, t) ==
    /\ s \in servers
    /\ ~tokens[t].exists
    /\ \A u \in 1..(t - 1) : tokens[u].exists
    /\ tokens' = [tokens EXCEPT ![t] =
          [exists |-> TRUE, server |-> s, used |-> FALSE, revoked |-> FALSE,
           issued |-> {}]]
    /\ UNCHANGED <<servers, agents, minted, conns, rows, registry, request>>

LoadToken(r, t) ==
    /\ request[r] = Idle
    /\ tokens[t].exists
    /\ Become(r, [op |-> "revoke_token", token |-> t,
                  free |-> ~tokens[t].used /\ ~tokens[t].revoked])
    /\ UNCHANGED <<servers, tokens, agents, minted, conns, rows, registry>>

\* revoke_enrollment_token: a token loaded as used or revoked is left alone.
RevokeToken(r) ==
    LET q == request[r]
    IN /\ q.op = "revoke_token"
       /\ tokens' = IF q.free THEN [tokens EXCEPT ![q.token].revoked = TRUE] ELSE tokens
       /\ Become(r, Idle)
       /\ UNCHANGED <<servers, agents, minted, conns, rows, registry>>

----------------------------------------------------------------------------
(* POST /agents/enroll: enroll_agent                                       *)

\* Bound: an enrollment starts while a credential is left for it.
Room ==
    minted + Cardinality({r \in Requests : request[r].op \in {"read_token", "enroll"}})
        < MaxCredentials

ReadToken(r, t) ==
    /\ request[r] = Idle
    /\ Room
    /\ tokens[t].exists
    /\ Become(r, [op |-> "read_token", token |-> t, used |-> tokens[t].used,
                  revoked |-> tokens[t].revoked])
    /\ UNCHANGED <<servers, tokens, agents, minted, conns, rows, registry>>

\* EnrollmentError: the audit row is rolled back with the rest.
RefuseToken(r) ==
    LET q == request[r]
    IN /\ q.op = "read_token"
       /\ q.used \/ q.revoked
       /\ Become(r, Idle)
       /\ UNCHANGED <<servers, tokens, agents, minted, conns, rows, registry>>

\* The token is accepted; does the server have an agent yet?  An expired token
\* is refused here, which a request that never comes stands for.
ReadAgent(r) ==
    LET q == request[r]
    IN /\ q.op = "read_token"
       /\ ~q.revoked
       /\ ~q.used
       /\ Become(r, [op |-> "enroll", token |-> q.token,
                     found |-> agents[tokens[q.token].server].exists])
       /\ UNCHANGED <<servers, tokens, agents, minted, conns, rows, registry>>

\* Flush and commit.  An agent inserted since ReadAgent makes the unique
\* server_id refuse a second one, and the request leaves nothing behind.
Enroll(r) ==
    LET q == request[r]
        s == tokens[q.token].server
    IN /\ q.op = "enroll"
       /\ Become(r, Idle)
       /\ IF agents[s].exists /\ ~q.found
          THEN UNCHANGED <<tokens, agents, minted>>
          ELSE /\ minted' = minted + 1
               /\ tokens' = [tokens EXCEPT
                     ![q.token].used = TRUE,
                     ![q.token].issued = @ \cup {minted + 1}]
               /\ agents' = [agents EXCEPT ![s] =
                     IF q.found THEN [@ EXCEPT !.credential = minted + 1]
                     ELSE [exists |-> TRUE, credential |-> minted + 1,
                           status |-> "DISCONNECTED", recent |-> FALSE]]
       /\ UNCHANGED <<servers, conns, rows, registry>>

----------------------------------------------------------------------------
(* agent_socket                                                            *)

\* The credential is looked up, then accept() is awaited.
Authenticate(c, s, k) ==
    /\ conns[c] = Unused
    /\ \A d \in 1..(c - 1) : conns[d] # Unused
    /\ agents[s].exists
    /\ agents[s].credential = k
    /\ conns' = [conns EXCEPT ![c] =
          [state |-> "accepting", server |-> s, credential |-> k,
           loaded |-> agents[s].status, dead |-> FALSE, late |-> FALSE, hidden |-> FALSE]]
    /\ UNCHANGED <<servers, tokens, agents, minted, rows, registry, request>>

\* Faulty variant: the status is left to the disconnect.
RegisterWithoutStatus(c) ==
    LET s == conns[c].server
    IN /\ conns[c].state = "accepting"
       /\ conns' = [conns EXCEPT ![c].state = "open",
                                 ![c].late = agents[s].credential # conns[c].credential,
                                 ![c].hidden = agents[s].status # conns[c].loaded]
       /\ registry' = [registry EXCEPT ![s] = c]
       /\ agents' = [agents EXCEPT ![s].recent = TRUE]
       /\ rows' = [rows EXCEPT ![s] = @ + 1]
       /\ UNCHANGED <<servers, tokens, minted, request>>

\* The connection is registered and committed.  status is written only when it
\* was loaded as something else than CONNECTED.
Register(c) ==
    LET s == conns[c].server
    IN /\ conns[c].state = "accepting"
       /\ conns' = [conns EXCEPT ![c].state = "open",
                                 ![c].late = agents[s].credential # conns[c].credential,
                                 ![c].hidden = agents[s].status # conns[c].loaded]
       /\ registry' = [registry EXCEPT ![s] = c]
       /\ agents' = [agents EXCEPT ![s].recent = TRUE,
                                   ![s].status = IF conns[c].loaded = "CONNECTED" THEN @
                                                 ELSE "CONNECTED"]
       /\ rows' = [rows EXCEPT ![s] = @ + 1]
       /\ UNCHANGED <<servers, tokens, minted, request>>

\* deliver_pending_commands raises: that is before the try, so nothing is undone.
DeliveryRaises(c) ==
    /\ conns[c].state = "open"
    /\ conns' = [conns EXCEPT ![c].state = "lost"]
    /\ UNCHANGED <<servers, tokens, agents, minted, rows, registry, request>>

\* apply_heartbeat
Heartbeat(c) ==
    /\ conns[c].state = "open"
    /\ ~conns[c].dead
    /\ agents' = [agents EXCEPT ![conns[c].server].recent = TRUE]
    /\ UNCHANGED <<servers, tokens, minted, conns, rows, registry, request>>

\* The agent is killed or the network drops: nothing arrives any more, and no
\* close either.
PeerDies(c) ==
    /\ conns[c].state \in {"accepting", "open"}
    /\ ~conns[c].dead
    /\ conns' = [conns EXCEPT ![c].dead = TRUE]
    /\ UNCHANGED <<servers, tokens, agents, minted, rows, registry, request>>

\* Faulty variant: every open agent_connections row is closed.
DisconnectClosingAll(c) ==
    LET s == conns[c].server
    IN /\ conns[c].state = "open"
       /\ conns' = [conns EXCEPT ![c].state = "ended"]
       /\ registry' = [registry EXCEPT ![s] = NoConn]
       /\ agents' = [agents EXCEPT ![s].status = "DISCONNECTED"]
       /\ rows' = [rows EXCEPT ![s] = 0]
       /\ UNCHANGED <<servers, tokens, minted, request>>

\* receive_json raises; the finally block.  The newest open row is closed, and
\* whatever connection is registered for the agent is unregistered.
Disconnect(c) ==
    LET s == conns[c].server
    IN /\ conns[c].state = "open"
       /\ conns' = [conns EXCEPT ![c].state = "ended"]
       /\ registry' = [registry EXCEPT ![s] = NoConn]
       /\ agents' = [agents EXCEPT ![s].status = "DISCONNECTED"]
       /\ rows' = [rows EXCEPT ![s] = IF @ > 0 THEN @ - 1 ELSE @]
       /\ UNCHANGED <<servers, tokens, minted, request>>

\* OFFLINE_AFTER_SECONDS have passed without a heartbeat: that of a live agent
\* may be delayed for so long.
Silence(s) ==
    /\ agents[s].exists
    /\ agents[s].recent
    /\ agents' = [agents EXCEPT ![s].recent = FALSE]
    /\ UNCHANGED <<servers, tokens, minted, conns, rows, registry, request>>

----------------------------------------------------------------------------
(* POST /servers/{id}/agent/revoke                                         *)

\* Faulty variant: the connection is left alone.
RevokeAgentOnly(r, s) ==
    /\ request[r] = Idle
    /\ agents[s].exists
    /\ agents' = [agents EXCEPT ![s].credential = NoCredential, ![s].status = "DISCONNECTED"]
    /\ UNCHANGED <<servers, tokens, minted, conns, rows, registry, request>>

\* Up to the first await: the commit, then the close of the registered
\* connection.  That of a lost one raises, after the commit.
RevokeAgent(r, s) ==
    /\ request[r] = Idle
    /\ agents[s].exists
    /\ agents' = [agents EXCEPT ![s].credential = NoCredential, ![s].status = "DISCONNECTED"]
    /\ IF registry[s] # NoConn /\ conns[registry[s]].state # "lost"
       THEN Become(r, [op |-> "closing", server |-> s])
       ELSE UNCHANGED request
    /\ UNCHANGED <<servers, tokens, minted, conns, rows, registry>>

\* close() has returned: whatever is registered by now is unregistered.
Unregister(r) ==
    /\ request[r].op = "closing"
    /\ registry' = [registry EXCEPT ![request[r].server] = NoConn]
    /\ Become(r, Idle)
    /\ UNCHANGED <<servers, tokens, agents, minted, conns, rows>>

\* The control plane restarts: rows stay as they are.
Restart ==
    /\ \E c \in ConnIds : conns[c].state \in {"accepting", "open"}
    /\ conns' = [c \in ConnIds |->
          CASE conns[c].state = "accepting" -> [conns[c] EXCEPT !.state = "ended"]
            [] conns[c].state = "open"      -> [conns[c] EXCEPT !.state = "lost"]
            [] OTHER                        -> conns[c]]
    /\ registry' = [s \in Servers |-> NoConn]
    /\ request' = [r \in Requests |-> Idle]
    /\ UNCHANGED <<servers, tokens, agents, minted, rows>>

----------------------------------------------------------------------------

Administer(r) ==
    \/ \E s \in Servers : CheckHostname(r, s) \/ RevokeAgent(r, s)
    \/ CreateServer(r) \/ RevokeToken(r) \/ Unregister(r)
    \/ \E t \in TokenIds : LoadToken(r, t)

EnrollAgent(r) ==
    \/ \E t \in TokenIds : ReadToken(r, t)
    \/ RefuseToken(r) \/ ReadAgent(r) \/ Enroll(r)

AgentSocket(c) ==
    \/ \E s \in Servers, k \in Credentials : Authenticate(c, s, k)
    \/ Register(c) \/ DeliveryRaises(c) \/ Heartbeat(c) \/ PeerDies(c) \/ Disconnect(c)

Next ==
    \/ \E r \in Requests : Administer(r) \/ EnrollAgent(r)
    \/ \E s \in Servers, t \in TokenIds : IssueToken(s, t)
    \/ \E c \in ConnIds : AgentSocket(c)
    \/ \E s \in Servers : Silence(s)
    \/ Restart

Spec == Init /\ [][Next]_vars

\* Time passes.  An agent that is alive sends its heartbeats in time, so only
\* without one is the limit sure to run out.
FairSpec == Spec /\ \A s \in Servers : WF_vars(~Alive(s) /\ Silence(s))

----------------------------------------------------------------------------

\* Once revoke_agent is done, no command reaches the agent any more until it is
\* enrolled again: what is registered is no connection, a dead one, or one whose
\* accept() overlapped the revocation.
RevokedIsUnregistered ==
    \A s \in Servers :
        /\ agents[s].exists
        /\ agents[s].credential = NoCredential
        /\ registry[s] # NoConn
        /\ \A r \in Requests : request[r] # [op |-> "closing", server |-> s]
        => conns[registry[s]].late \/ conns[registry[s]].state = "lost"

\* A server whose agent can be sent commands is shown as connected, unless the
\* status of its row changed while the connection was being accepted.
RegisteredIsShown ==
    \A s \in Servers :
        /\ registry[s] # NoConn
        /\ conns[registry[s]].state = "open"
        /\ ~conns[registry[s]].hidden
        /\ \A r \in Requests : request[r] # [op |-> "closing", server |-> s]
        => agents[s].status = "CONNECTED"

\* Each connection that ends closes one agent_connections row, though not
\* always its own: the open rows are those of the open connections and of those
\* that ended without the finally block.
RowsAreClosed == \A s \in Servers : rows[s] = Cardinality(Recorded(s))

\* "The heartbeat recency check catches that case without needing a background
\* sweep job": a server whose agent is gone for good is in the end shown offline
\* for good, however its connections ended: closed, half open and never noticed,
\* cut off by a restart, left behind by a failed delivery, or registered after
\* the agent had died.
SilentIsOffline ==
    \A s \in Servers : <>[]~Alive(s) => <>[]~IsOnline(s)

\* "Consume a single-use enrollment token": a token gives one credential.  Two
\* requests that both read the token before either commits each give one, as
\* enroll_agent reads used_at without a lock.
TokenIsSingleUse ==
    \A t \in TokenIds : tokens[t].exists => Cardinality(tokens[t].issued) <= 1
============================================================================
