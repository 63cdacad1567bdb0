--------------------------- MODULE CommandSystem ---------------------------
(***************************************************************************)
(* The Control Plane and one Agent together, over connections that break,  *)
(* with both processes able to crash and restart.                          *)
(***************************************************************************)
EXTENDS AgentExecutor, CommandLink

CONSTANTS
    MayExpire,      \* commands with a ttl short enough to run out
    PlaneCrashes,   \* whether the Control Plane may be restarted
    AgentCrashes    \* whether the Agent may be restarted

ASSUME FaultConstants ==
    /\ MayExpire \subseteq Commands
    /\ {PlaneCrashes, AgentCrashes} \subseteq BOOLEAN

vars == <<channel, agent, plane>>

TypeOK == ChannelTypeOK /\ ExecutorTypeOK /\ LinkTypeOK

Init == ChannelInit /\ ExecutorInit /\ LinkInit

\* The Agent dials and the Control Plane accepts.
Connect(k) == Accept(k) /\ Dialled(k)

\* The network drops a connection; neither side knows yet.
Break(k) ==
    /\ k \in open
    /\ Cut(k)
    /\ UNCHANGED <<overdue, agent, plane>>

\* expires_at of a submitted command passes.
Expire(c) ==
    /\ c \in MayExpire \ overdue
    /\ status[c] # "none"
    /\ overdue' = overdue \cup {c}
    /\ UNCHANGED <<open, down, up, agent, plane>>

Next ==
    \/ LinkStep /\ UNCHANGED agent
    \/ ExecutorStep /\ UNCHANGED plane
    \/ \E k \in Conns : Connect(k) \/ Break(k)
    \/ \E c \in Commands : Expire(c)
    \/ PlaneCrashes /\ RestartPlane /\ UNCHANGED agent
    \/ AgentCrashes /\ RestartAgent /\ UNCHANGED plane

Spec == Init /\ [][Next]_vars

\* The event loop runs every ready coroutine, a live Agent redials after its
\* back-off and its goroutines proceed.  Nothing is assumed of the network,
\* of the clock, or of anybody opening the page that sweeps.
Fairness ==
    /\ \A c \in Commands : WF_vars(ResumeSubmit(c) /\ UNCHANGED agent)
    /\ \A k \in Conns :
          /\ WF_vars((Deliver(k) \/ DeliverRaises(k)) /\ UNCHANGED agent)
          /\ WF_vars((Receive(k) \/ Disconnect(k)) /\ UNCHANGED agent)
    /\ WF_vars(\E k \in Conns : Connect(k))
    /\ WF_vars(ExecutorStep /\ UNCHANGED plane)

FairSpec == Spec /\ Fairness

----------------------------------------------------------------------------

\* An Agent acknowledges only what its fsynced journal knows: whatever crashes
\* afterwards, a command the Control Plane believes to have been received has
\* a journal entry.
AcknowledgedIsJournaled ==
    \A c \in Commands :
        \/ status[c] \in {"acknowledged", "running", "succeeded", "failed"}
        \/ \E k \in Conns : \E i \in DOMAIN up[k] : up[k][i].cmd = c
        => journal[c] # "none"

\* A result in the database is the result of an execution that ended: no
\* interleaving of redelivery, restarts and late events makes a command succeed
\* or fail of which no execution did.
ResultsAreReal ==
    \A c \in Commands :
        status[c] \in {"succeeded", "failed"} =>
            \E n \in Runs : job[c][n] = [phase |-> "done", outcome |-> status[c]]

\* The waiter is registered before the send and signalled with the terminal
\* event, so a caller that still waits has not missed a result already in the
\* database.
NoLostSignal ==
    \A c \in Commands :
        /\ submitter[c].phase \in {"sending", "waiting"}
        /\ status[c] \in {"succeeded", "failed"}
        => c \in signalled

\* "This never blocks forever": a waiting request returns at the latest when
\* its timeout fires, which takes a running event loop.
NeverBlocksForever == loop = "running"

\* "A state ... mapped to an empty set, is terminal": no command leaves one.
TerminalIsFinal ==
    [][\A c \in Commands :
          status[c] \in Terminal \cup {"expired"} => status'[c] = status[c]]_vars

\* "Delivered the moment the agent (re)connects": a pending command does not
\* stay pending for ever beside an Agent that keeps its connection.
PendingIsDelivered ==
    \A c \in Commands : ~<>[](status[c] = "pending" /\ conn \in open)
============================================================================
