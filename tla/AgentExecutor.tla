--------------------------- MODULE AgentExecutor ---------------------------
(***************************************************************************)
(* The Agent's side of a command (agent/internal/core/agent.go) with its   *)
(* durable journal (journal.go) and its connection loop (transport).       *)
(*                                                                         *)
(* The read loop handles one message at a time; each accepted command is   *)
(* executed by a goroutine of its own that outlives the connection.  Every *)
(* gap between two critical sections of agent.go is a step boundary.       *)
(***************************************************************************)
EXTENDS AgentChannel

CONSTANTS
    MaxRuns,    \* bound on the goroutines started for one command
    DiskFails   \* whether Journal.Record may return an error

ASSUME ExecutorConstants == MaxRuns \in Nat /\ DiskFails \in BOOLEAN

VARIABLES
    conn,       \* the connection of the running read loop, or NoConn
    handling,   \* the message the read loop is working on
    journal,    \* last journal entry of each command; survives a restart
    inFlight,   \* Agent.inFlight
    job,        \* the execute goroutines
    ran         \* how often Dispatch was called for each command

agent == <<conn, handling, journal, inFlight, job, ran>>

Runs == 1..MaxRuns

Idle == [step |-> "idle"]

NoJob == [phase |-> "none"]

Handling(step) == [step : {step}, cmd : Commands]

ActivePhases == {"spawned", "dispatching", "reporting"}

ExecutorTypeOK ==
    /\ conn \in Conns \cup {NoConn}
    /\ handling \in {Idle} \cup Handling("checked") \cup Handling("accepted")
                       \cup Handling("journaled")
    /\ journal \in [Commands -> {"none", "received", "running", "completed"}]
    /\ inFlight \subseteq Commands
    /\ job \in [Commands -> [Runs ->
          {NoJob, [phase |-> "killed"]}
            \cup [phase : {"spawned", "dispatching"}, via : Conns]
            \cup [phase : {"done"}, outcome : Terminal]
            \cup [phase : {"reporting"}, via : Conns, outcome : Terminal]]]
    /\ ran \in [Commands -> Nat]

ExecutorInit ==
    /\ conn = NoConn
    /\ handling = Idle
    /\ journal = [c \in Commands |-> "none"]
    /\ inFlight = {}
    /\ job = [c \in Commands |-> [n \in Runs |-> NoJob]]
    /\ ran = [c \in Commands |-> 0]

----------------------------------------------------------------------------
(* The read loop: runOnce and handleMessage.                               *)

\* The dial succeeded.
Dialled(k) ==
    /\ conn = NoConn
    /\ conn' = k
    /\ UNCHANGED <<handling, journal, inFlight, job, ran>>

\* ReadJSON fails once the broken connection is drained; Run backs off.
LoseConn ==
    /\ conn # NoConn
    /\ conn \notin open
    /\ handling = Idle
    /\ down[conn] = <<>>
    /\ conn' = NoConn
    /\ UNCHANGED <<channel, handling, journal, inFlight, job, ran>>

\* A message is read and the journal asked whether it is a duplicate.
ReadCommand ==
    /\ conn # NoConn
    /\ handling = Idle
    /\ down[conn] # <<>>
    /\ LET c == Head(down[conn])
       IN  handling' = IF journal[c] = "completed" THEN Idle
                       ELSE [step |-> "checked", cmd |-> c]
    /\ down' = [down EXCEPT ![conn] = Tail(@)]
    /\ UNCHANGED <<open, up, overdue, conn, journal, inFlight, job, ran>>

\* Faulty variant: no look at inFlight.
GuardInFlightMissing ==
    /\ handling.step = "checked"
    /\ handling' = [handling EXCEPT !.step = "accepted"]
    /\ inFlight' = inFlight \cup {handling.cmd}
    /\ UNCHANGED <<channel, conn, journal, job, ran>>

\* The critical section over inFlight.
GuardInFlight ==
    /\ handling.step = "checked"
    /\ IF handling.cmd \in inFlight
       THEN handling' = Idle /\ inFlight' = inFlight
       ELSE /\ handling' = [handling EXCEPT !.step = "accepted"]
            /\ inFlight' = inFlight \cup {handling.cmd}
    /\ UNCHANGED <<channel, conn, journal, job, ran>>

\* Faulty variant: the command is acknowledged before it is journaled.
RecordReceivedSkipped ==
    /\ handling.step = "accepted"
    /\ handling' = [handling EXCEPT !.step = "journaled"]
    /\ UNCHANGED <<channel, conn, journal, inFlight, job, ran>>

\* Journal.Record(StatusReceived), fsynced; an error ends the handling.
RecordReceived ==
    /\ handling.step = "accepted"
    /\ \/ /\ journal' = [journal EXCEPT ![handling.cmd] = "received"]
          /\ handling' = [handling EXCEPT !.step = "journaled"]
          /\ inFlight' = inFlight
       \/ /\ DiskFails
          /\ handling' = Idle
          /\ inFlight' = inFlight \ {handling.cmd}
          /\ journal' = journal
    /\ UNCHANGED <<channel, conn, job, ran>>

\* The acknowledged event is written and the goroutine started.
SendAcknowledged ==
    /\ handling.step = "journaled"
    /\ \E n \in Runs :
          /\ job[handling.cmd][n] = NoJob
          /\ \A m \in Runs : m < n => job[handling.cmd][m] # NoJob
          /\ job' = [job EXCEPT ![handling.cmd][n] =
                        [phase |-> "spawned", via |-> conn]]
    /\ up' = Put(up, conn, [cmd |-> handling.cmd, status |-> "acknowledged"])
    /\ handling' = Idle
    /\ UNCHANGED <<open, down, overdue, conn, journal, inFlight, ran>>

\* Writing the acknowledged event fails: the command is dropped.
AcknowledgeFails ==
    /\ handling.step = "journaled"
    /\ conn \notin open
    /\ inFlight' = inFlight \ {handling.cmd}
    /\ handling' = Idle
    /\ UNCHANGED <<channel, conn, journal, job, ran>>

----------------------------------------------------------------------------
(* The goroutine: execute.                                                 *)

\* Journal.Record(StatusRunning) and the running event, whose errors are
\* ignored, then Dispatch is entered.
StartJob(c, n) ==
    /\ job[c][n].phase = "spawned"
    /\ \/ journal' = [journal EXCEPT ![c] = "running"]
       \/ DiskFails /\ journal' = journal
    /\ up' = Put(up, job[c][n].via, [cmd |-> c, status |-> "running"])
    /\ job' = [job EXCEPT ![c][n].phase = "dispatching"]
    /\ ran' = [ran EXCEPT ![c] = @ + 1]
    /\ UNCHANGED <<open, down, overdue, conn, handling, inFlight>>

\* Dispatch returns, and Journal.Record(StatusCompleted) whose error is only
\* logged.  An error past the deadline counts as timed_out.
FinishJob(c, n) ==
    /\ job[c][n].phase = "dispatching"
    /\ \/ journal' = [journal EXCEPT ![c] = "completed"]
       \/ DiskFails /\ journal' = journal
    /\ \E outcome \in {"succeeded", IF c \in overdue THEN "timed_out" ELSE "failed"} :
          job' = [job EXCEPT ![c][n] =
                     [phase |-> "reporting", via |-> @.via, outcome |-> outcome]]
    /\ UNCHANGED <<channel, conn, handling, inFlight, ran>>

\* Faulty variant: every execution is reported as a success.
ReportJobAsSuccess(c, n) ==
    /\ job[c][n].phase = "reporting"
    /\ up' = Put(up, job[c][n].via, [cmd |-> c, status |-> "succeeded"])
    /\ job' = [job EXCEPT ![c][n] = [phase |-> "done", outcome |-> @.outcome]]
    /\ inFlight' = inFlight \ {c}
    /\ UNCHANGED <<open, down, overdue, conn, handling, journal, ran>>

\* The terminal event on the connection the command came by, once; then the
\* deferred removal from inFlight.
ReportJob(c, n) ==
    /\ job[c][n].phase = "reporting"
    /\ up' = Put(up, job[c][n].via, [cmd |-> c, status |-> job[c][n].outcome])
    /\ job' = [job EXCEPT ![c][n] = [phase |-> "done", outcome |-> @.outcome]]
    /\ inFlight' = inFlight \ {c}
    /\ UNCHANGED <<open, down, overdue, conn, handling, journal, ran>>

\* The Agent process dies and is started again: only the journal is left.
RestartAgent ==
    /\ conn' = NoConn
    /\ IF conn = NoConn THEN UNCHANGED <<open, down, up>> ELSE Cut(conn)
    /\ handling' = Idle
    /\ inFlight' = {}
    /\ job' = [c \in Commands |-> [n \in Runs |->
                 IF job[c][n].phase \in ActivePhases
                 THEN [phase |-> "killed"] ELSE job[c][n]]]
    /\ UNCHANGED <<overdue, journal, ran>>

ExecutorStep ==
    \/ LoseConn \/ ReadCommand \/ GuardInFlight \/ RecordReceived
    \/ SendAcknowledged \/ AcknowledgeFails
    \/ \E c \in Commands, n \in Runs :
          StartJob(c, n) \/ FinishJob(c, n) \/ ReportJob(c, n)

----------------------------------------------------------------------------

Active(c) == {n \in Runs : job[c][n].phase \in ActivePhases}

\* The inFlight guard: however often a command is delivered, and on however
\* many connections, two deliveries never execute concurrently in one Agent.
OneJobPerCommand ==
    \A c \in Commands : \A n, m \in Active(c) : n = m

\* "A command the Agent already completed is never executed twice - whether
\* because the Control Plane redelivered it after a reconnect, ...": Dispatch
\* is called at most once per command while the Agent stays up.
ExecutedOnce == \A c \in Commands : ran[c] <= 1
============================================================================
