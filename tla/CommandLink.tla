---------------------------- MODULE CommandLink ----------------------------
(***************************************************************************)
(* The Control Plane's side of a command: services/command_service.py, the *)
(* WebSocket route (api/routes/ws.py) and the connection registry.         *)
(*                                                                         *)
(* Coroutines of one event loop interleave only where one of them awaits.  *)
(* Between two awaits a coroutine is one step here, database calls         *)
(* included, because those block the whole loop.  The overdue sweep runs   *)
(* in a worker thread and interleaves with everything.                     *)
(*                                                                         *)
(* A flushed UPDATE locks its row until the transaction ends.  A coroutine *)
(* that updates a row locked by somebody else blocks the loop; every       *)
(* holder needs the loop to reach its commit, so the loop then stays       *)
(* blocked until the process is restarted.                                 *)
(***************************************************************************)
EXTENDS AgentChannel, StateMachines, Functions

VARIABLES
    status,     \* committed agent_commands.status, "none" before the INSERT
    txn,        \* flushed, uncommitted updates: [by, cmd, to]
    registry,   \* ConnectionManager._connections of the Agent
    handler,    \* the agent_socket coroutine of each connection
    backlog,    \* what deliver_pending_commands still has to send
    agentRow,   \* agents.status
    openRows,   \* agent_connections rows with disconnected_at NULL
    submitter,  \* the submit_command_and_wait call of each command
    waiters,    \* keys of _waiters
    signalled,  \* commands whose asyncio.Event is set
    sweep,      \* the sweep: what it read and has yet to write
    loop        \* the event loop: "running" or "stuck"

plane == <<status, txn, registry, handler, backlog, agentRow, openRows,
           submitter, waiters, signalled, sweep, loop>>

Locked(c) == \E w \in txn : w.cmd = c

Sweeper == 0

SweepIdle == [phase |-> "idle", todo |-> {}]

LinkTypeOK ==
    /\ status \in [Commands -> CommandStatus \cup {"none"}]
    /\ txn \subseteq [by : Conns \cup {Sweeper}, cmd : Commands, to : CommandStatus]
    /\ registry \in Conns \cup {NoConn}
    /\ handler \in [Conns -> {"none", "delivering", "receiving", "gone"}]
    /\ backlog \in [Conns -> Seq(Commands)]
    /\ agentRow \in {"connected", "disconnected"}
    /\ openRows \subseteq Conns
    /\ submitter \in [Commands ->
          [phase : {"none", "waiting", "answered", "gave_up", "raised"}]
            \cup [phase : {"sending"}, via : Conns]]
    /\ waiters \subseteq Commands
    /\ signalled \subseteq Commands
    /\ sweep.phase \in {"idle", "writing"}
    /\ sweep.todo \subseteq [cmd : Commands, to : {"expired", "timed_out"}]
    /\ loop \in {"running", "stuck"}
    \* A row lock has one holder.
    /\ \A v, w \in txn : v.cmd = w.cmd => v = w

LinkInit ==
    /\ status = [c \in Commands |-> "none"]
    /\ txn = {}
    /\ registry = NoConn
    /\ handler = [k \in Conns |-> "none"]
    /\ backlog = [k \in Conns |-> <<>>]
    /\ agentRow = "disconnected"
    /\ openRows = {}
    /\ submitter = [c \in Commands |-> [phase |-> "none"]]
    /\ waiters = {}
    /\ signalled = {}
    /\ sweep = SweepIdle
    /\ loop = "running"

\* The rows once the updates ws are committed.
Applied(ws) ==
    [c \in Commands |-> IF \E w \in ws : w.cmd = c
                        THEN (CHOOSE w \in ws : w.cmd = c).to
                        ELSE status[c]]

Updates(by) == {w \in txn : w.by = by}

\* A coroutine runs into a locked row.
BlockLoop ==
    /\ loop' = "stuck"
    /\ UNCHANGED <<channel, status, txn, registry, handler, backlog, agentRow,
                   openRows, submitter, waiters, signalled, sweep>>

----------------------------------------------------------------------------
(* submit_command and submit_command_and_wait.                             *)

\* Faulty variant: the waiter is registered after the send, not before it.
SubmitRegisteringLate(c) ==
    /\ loop = "running"
    /\ status[c] = "none"
    /\ status' = [status EXCEPT ![c] = "pending"]
    /\ IF registry = NoConn
       THEN /\ submitter' = [submitter EXCEPT ![c] = [phase |-> "waiting"]]
            /\ down' = down
       ELSE /\ submitter' = [submitter EXCEPT ![c] =
                                [phase |-> "sending", via |-> registry]]
            /\ down' = Put(down, registry, c)
    /\ UNCHANGED <<open, up, overdue, txn, registry, handler, backlog, agentRow,
                   openRows, waiters, signalled, sweep, loop>>

\* Up to the await of the send: the row is inserted and committed, the waiter
\* registered and, when a socket is registered, the message written.
Submit(c) ==
    /\ loop = "running"
    /\ status[c] = "none"
    /\ status' = [status EXCEPT ![c] = "pending"]
    /\ waiters' = waiters \cup {c}
    /\ IF registry = NoConn
       THEN /\ submitter' = [submitter EXCEPT ![c] = [phase |-> "waiting"]]
            /\ down' = down
       ELSE /\ submitter' = [submitter EXCEPT ![c] =
                                [phase |-> "sending", via |-> registry]]
            /\ down' = Put(down, registry, c)
    /\ UNCHANGED <<open, up, overdue, txn, registry, handler, backlog, agentRow,
                   openRows, signalled, sweep, loop>>

\* The send returned.  The object still says PENDING, whatever the row says
\* by now, so transition() allows SENT and the UPDATE overwrites the row.
ResumeSubmit(c) ==
    /\ loop = "running"
    /\ submitter[c].phase = "sending"
    /\ IF Locked(c) THEN BlockLoop
       ELSE /\ status' = [status EXCEPT ![c] = "sent"]
            /\ submitter' = [submitter EXCEPT ![c] = [phase |-> "waiting"]]
            /\ UNCHANGED <<channel, txn, registry, handler, backlog, agentRow,
                           openRows, waiters, signalled, sweep, loop>>

\* The send raised: the caller gets the exception, the row stays PENDING.
SubmitRaises(c) ==
    /\ loop = "running"
    /\ submitter[c].phase = "sending"
    /\ submitter[c].via \notin open
    /\ submitter' = [submitter EXCEPT ![c] = [phase |-> "raised"]]
    /\ UNCHANGED <<channel, status, txn, registry, handler, backlog, agentRow,
                   openRows, waiters, signalled, sweep, loop>>

\* wait_for returns because the event was set, or times out.
EndWait(c) ==
    /\ loop = "running"
    /\ submitter[c].phase = "waiting"
    /\ submitter' = [submitter EXCEPT ![c] =
                        [phase |-> IF c \in signalled THEN "answered" ELSE "gave_up"]]
    /\ waiters' = waiters \ {c}
    /\ UNCHANGED <<channel, status, txn, registry, handler, backlog, agentRow,
                   openRows, signalled, sweep, loop>>

----------------------------------------------------------------------------
(* agent_socket.                                                           *)

Pending == {c \in Commands : status[c] = "pending"}

\* accept, register, the CONNECTED commit, and deliver_pending_commands up to
\* its first await.
Accept(k) ==
    /\ loop = "running"
    /\ handler[k] = "none"
    /\ \A j \in 1..(k - 1) : handler[j] # "none"
    /\ open' = open \cup {k}
    /\ registry' = k
    /\ agentRow' = "connected"
    /\ openRows' = openRows \cup {k}
    /\ IF Pending = {}
       THEN /\ handler' = [handler EXCEPT ![k] = "receiving"]
            /\ UNCHANGED <<down, backlog>>
       ELSE \E queue \in Bijection(1..Cardinality(Pending), Pending) :
            /\ handler' = [handler EXCEPT ![k] = "delivering"]
            /\ backlog' = [backlog EXCEPT ![k] = queue]
            /\ down' = [down EXCEPT ![k] = <<Head(queue)>>]
    /\ UNCHANGED <<up, overdue, status, txn, submitter, waiters, signalled,
                   sweep, loop>>

\* One send of deliver_pending_commands returned: SENT is flushed, and the
\* next command is sent or the whole batch committed.
Deliver(k) ==
    /\ loop = "running"
    /\ handler[k] = "delivering"
    /\ LET c == Head(backlog[k])
           rest == Tail(backlog[k])
           sent == [by |-> k, cmd |-> c, to |-> "sent"]
       IN  IF Locked(c) THEN BlockLoop
           ELSE /\ backlog' = [backlog EXCEPT ![k] = rest]
                /\ IF rest = <<>>
                   THEN /\ status' = Applied(Updates(k) \cup {sent})
                        /\ txn' = txn \ Updates(k)
                        /\ handler' = [handler EXCEPT ![k] = "receiving"]
                        /\ down' = down
                   ELSE /\ txn' = txn \cup {sent}
                        /\ down' = Put(down, k, Head(rest))
                        /\ UNCHANGED <<status, handler>>
                /\ UNCHANGED <<open, up, overdue, registry, agentRow, openRows,
                               submitter, waiters, signalled, sweep, loop>>

\* A send of deliver_pending_commands raised.  This is outside the try, so
\* nothing is unregistered; get_db rolls the batch back.
DeliverRaises(k) ==
    /\ loop = "running"
    /\ handler[k] = "delivering"
    /\ k \notin open
    /\ handler' = [handler EXCEPT ![k] = "gone"]
    /\ backlog' = [backlog EXCEPT ![k] = <<>>]
    /\ txn' = txn \ Updates(k)
    /\ UNCHANGED <<channel, status, registry, agentRow, openRows, submitter,
                   waiters, signalled, sweep, loop>>

\* The finally block: whoever is registered is unregistered, and the newest
\* open agent_connections row is closed.
EndHandler(k) ==
    /\ handler' = [handler EXCEPT ![k] = "gone"]
    /\ registry' = NoConn
    /\ agentRow' = "disconnected"
    /\ openRows' = {j \in openRows : \E i \in openRows : i > j}
    /\ up' = [up EXCEPT ![k] = <<>>]
    /\ UNCHANGED <<overdue, status, txn, backlog, submitter, waiters, signalled,
                   sweep, loop>>

\* receive_json raises WebSocketDisconnect.
Disconnect(k) ==
    /\ loop = "running"
    /\ handler[k] = "receiving"
    /\ up[k] = <<>>
    /\ k \notin open
    /\ EndHandler(k)
    /\ UNCHANGED <<open, down>>

\* _handle_command_event and record_event.  An event the table does not allow
\* raises InvalidTransition: the handler ends and the server closes the socket.
Receive(k) ==
    /\ loop = "running"
    /\ handler[k] = "receiving"
    /\ up[k] # <<>>
    /\ LET e == Head(up[k])
           legal == CanTransition(CommandTransitions, status[e.cmd], e.status)
       IN  \/ legal /\ Locked(e.cmd) /\ BlockLoop
           \/ /\ legal
              /\ ~Locked(e.cmd)
              /\ status' = [status EXCEPT ![e.cmd] = e.status]
              /\ signalled' = IF e.status \in Terminal /\ e.cmd \in waiters
                              THEN signalled \cup {e.cmd} ELSE signalled
              /\ up' = [up EXCEPT ![k] = Tail(@)]
              /\ UNCHANGED <<open, down, overdue, txn, registry, handler, backlog,
                             agentRow, openRows, submitter, waiters, sweep, loop>>
           \/ /\ ~legal
              /\ EndHandler(k)
              /\ open' = open \ {k}
              /\ down' = down

----------------------------------------------------------------------------
(* expire_overdue_commands, in a worker thread of a GET request.           *)

SweepRead ==
    /\ loop = "running"
    /\ sweep = SweepIdle
    /\ LET late == {c \in overdue : status[c] \in
                        {"pending", "sent", "acknowledged", "running"}}
       IN  /\ late # {}
           /\ sweep' = [phase |-> "writing",
                        todo |-> {[cmd |-> c,
                                   to |-> IF status[c] = "pending" THEN "expired"
                                          ELSE "timed_out"] : c \in late}]
    /\ UNCHANGED <<channel, status, txn, registry, handler, backlog, agentRow,
                   openRows, submitter, waiters, signalled, loop>>

\* One flushed UPDATE; a locked row makes the thread wait.
SweepWrite ==
    /\ \E u \in sweep.todo :
          /\ ~Locked(u.cmd)
          /\ txn' = txn \cup {[by |-> Sweeper, cmd |-> u.cmd, to |-> u.to]}
          /\ sweep' = [sweep EXCEPT !.todo = @ \ {u}]
    /\ UNCHANGED <<channel, status, registry, handler, backlog, agentRow,
                   openRows, submitter, waiters, signalled, loop>>

\* get_db commits; the event loop has to schedule that.
SweepCommit ==
    /\ loop = "running"
    /\ sweep.phase = "writing"
    /\ sweep.todo = {}
    /\ status' = Applied(Updates(Sweeper))
    /\ txn' = txn \ Updates(Sweeper)
    /\ sweep' = SweepIdle
    /\ UNCHANGED <<channel, registry, handler, backlog, agentRow, openRows,
                   submitter, waiters, signalled, loop>>

\* The process dies and is started again: committed rows are all that is left.
RestartPlane ==
    /\ open' = {}
    /\ up' = [k \in Conns |-> <<>>]
    /\ txn' = {}
    /\ registry' = NoConn
    /\ handler' = [k \in Conns |-> IF handler[k] = "none" THEN "none" ELSE "gone"]
    /\ backlog' = [k \in Conns |-> <<>>]
    /\ submitter' = [c \in Commands |->
                        IF submitter[c].phase \in {"sending", "waiting"}
                        THEN [phase |-> "raised"] ELSE submitter[c]]
    /\ waiters' = {}
    /\ signalled' = {}
    /\ sweep' = SweepIdle
    /\ loop' = "running"
    /\ UNCHANGED <<down, overdue, status, agentRow, openRows>>

LinkStep ==
    \/ \E c \in Commands :
          Submit(c) \/ ResumeSubmit(c) \/ SubmitRaises(c) \/ EndWait(c)
    \/ \E k \in Conns :
          Deliver(k) \/ DeliverRaises(k) \/ Disconnect(k) \/ Receive(k)
    \/ SweepRead \/ SweepWrite \/ SweepCommit
============================================================================
