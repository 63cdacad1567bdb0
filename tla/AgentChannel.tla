---------------------------- MODULE AgentChannel ----------------------------
(***************************************************************************)
(* What the Control Plane and one Agent share: the WebSocket connections   *)
(* the Agent opens one after the other, the messages travelling on each,   *)
(* and the commands whose expires_at has passed.                           *)
(*                                                                         *)
(* A connection delivers in order and without duplicates until it breaks;  *)
(* whatever was on the way then is lost from some point on.                *)
(***************************************************************************)
EXTENDS Naturals, Sequences, FiniteSets

CONSTANTS
    Commands,   \* the AgentCommand rows of one Agent
    MaxConns    \* bound on the connections the Agent opens

ASSUME ChannelConstants == IsFiniteSet(Commands) /\ MaxConns \in Nat

VARIABLES
    open,       \* connections whose two ends can still reach each other
    down,       \* commands travelling to the Agent, per connection
    up,         \* events travelling to the Control Plane, per connection
    overdue     \* commands whose expires_at has passed

channel == <<open, down, up, overdue>>

Conns == 1..MaxConns

NoConn == 0

EventStatus == {"acknowledged", "running", "succeeded", "failed", "timed_out"}

Terminal == {"succeeded", "failed", "timed_out"}

Event == [cmd : Commands, status : EventStatus]

ChannelTypeOK ==
    /\ open \subseteq Conns
    /\ down \in [Conns -> Seq(Commands)]
    /\ up \in [Conns -> Seq(Event)]
    /\ overdue \subseteq Commands

ChannelInit ==
    /\ open = {}
    /\ down = [k \in Conns |-> <<>>]
    /\ up = [k \in Conns |-> <<>>]
    /\ overdue = {}

\* A message written to connection k; a broken connection swallows it.
Put(queues, k, m) ==
    IF k \in open THEN [queues EXCEPT ![k] = Append(@, m)] ELSE queues

\* Connection k is cut: a prefix of what was on the way still arrives.
Cut(k) ==
    /\ open' = open \ {k}
    /\ \E n \in 0..Len(up[k]), m \in 0..Len(down[k]) :
          /\ up' = [up EXCEPT ![k] = SubSeq(@, 1, n)]
          /\ down' = [down EXCEPT ![k] = SubSeq(@, 1, m)]
============================================================================
