--------------------------- MODULE CommandProofs ---------------------------
(***************************************************************************)
(* The inductive invariant of CommandSystem and the theorems that rest on  *)
(* it, for any commands, any number of connections and of executions, with *)
(* all the faults of the model.  First the steps of the Agent are shown to *)
(* preserve it, then those of the Control Plane, then those that involve   *)
(* both sides, the network, the clock and restarts.                        *)
(***************************************************************************)
EXTENDS CommandSystem, TLAPS

\* The types, with what the handlers rely on when they take a head, and when the
\* read loop answers on its connection.
Types ==
    /\ TypeOK
    /\ sweep \in [phase : {"idle", "writing"},
                  todo : SUBSET [cmd : Commands, to : {"expired", "timed_out"}]]
    /\ \A k \in Conns : handler[k] = "delivering" => backlog[k] # <<>>
    /\ handling # Idle => conn \in Conns

\* The read loop is at the given step with command c.
At(step, c) == handling = [step |-> step, cmd |-> c]

Executing(c, n) == job[c][n].phase \in ActivePhases

\* inFlight covers every execution, and the command the read loop has let
\* through has no execution yet.
InFlightIsKept ==
    \A c \in Commands :
        /\ \A n \in Runs : Executing(c, n) => c \in inFlight
        /\ At("accepted", c) \/ At("journaled", c) =>
              c \in inFlight /\ \A n \in Runs : ~Executing(c, n)

\* An execution is started for a journaled command only.
JournaledFirst ==
    \A c \in Commands :
        /\ At("journaled", c) => journal[c] # "none"
        /\ \A n \in Runs : job[c][n] # NoJob => journal[c] # "none"

\* What the Agent must have done for status s of command c to be reported.
Done(c, s) == \E n \in Runs : job[c][n] = [phase |-> "done", outcome |-> s]

Backed(c, s) ==
    /\ s \in {"acknowledged", "running", "succeeded", "failed"} => journal[c] # "none"
    /\ s \in {"succeeded", "failed"} => Done(c, s)

StatusIsBacked == \A c \in Commands : Backed(c, status[c])

EventsAreBacked ==
    \A k \in Conns : \A i \in DOMAIN up[k] :
        journal[up[k][i].cmd] # "none" /\ Backed(up[k][i].cmd, up[k][i].status)

\* Only a handler of an event writes a result of the Agent.
UpdatesAreOwn == \A w \in txn : w.to \in {"sent", "expired", "timed_out"}

\* Who waits is registered.
WaitersAreKept ==
    \A c \in Commands : submitter[c].phase \in {"sending", "waiting"} => c \in waiters

AgentInv == InFlightIsKept /\ OneJobPerCommand /\ JournaledFirst

PlaneInv == UpdatesAreOwn /\ WaitersAreKept /\ NoLostSignal

CommandInv == Types /\ AgentInv /\ PlaneInv /\ StatusIsBacked /\ EventsAreBacked

----------------------------------------------------------------------------
(* Messages on their way.                                                  *)

LEMMA PutElements ==
  ASSUME NEW S, NEW Q \in [Conns -> Seq(S)], NEW k \in Conns, NEW e \in S, NEW R,
         R = Put(Q, k, e)
  PROVE  /\ R \in [Conns -> Seq(S)]
         /\ \A l \in Conns : \A i \in DOMAIN R[l] :
               R[l][i] = e \/ \E j \in DOMAIN Q[l] : R[l][i] = Q[l][j]
  <1>1. CASE k \notin open
    BY <1>1 DEF Put
  <1>2. CASE k \in open
    <2>1. R = [Q EXCEPT ![k] = Append(Q[k], e)]
      BY <1>2 DEF Put
    <2>2. Q[k] \in Seq(S)
      OBVIOUS
    <2>3. /\ Append(Q[k], e) \in Seq(S)
          /\ \A i \in DOMAIN Append(Q[k], e) :
                Append(Q[k], e)[i] = e \/ \E j \in DOMAIN Q[k] : Append(Q[k], e)[i] = Q[k][j]
      BY <2>2
    <2> QED
      BY <2>1, <2>3
  <1> QED
    BY <1>1, <1>2

LEMMA TailElements ==
  ASSUME NEW S, NEW q \in Seq(S), q # <<>>
  PROVE  /\ Head(q) \in S /\ Tail(q) \in Seq(S)
         /\ Head(q) = q[1] /\ 1 \in DOMAIN q
         /\ \A i \in DOMAIN Tail(q) : \E j \in DOMAIN q : Tail(q)[i] = q[j]
  <1>1. Len(q) \in Nat /\ Len(q) > 0 /\ DOMAIN q = 1..Len(q)
    OBVIOUS
  <1>2. /\ Tail(q) \in Seq(S) /\ DOMAIN Tail(q) = 1..(Len(q) - 1)
        /\ \A i \in 1..(Len(q) - 1) : Tail(q)[i] = q[i + 1]
    BY <1>1
  <1>3. \A i \in 1..(Len(q) - 1) : i + 1 \in DOMAIN q
    BY <1>1
  <1> QED
    BY <1>1, <1>2, <1>3

LEMMA PrefixElements ==
  ASSUME NEW S, NEW q \in Seq(S), NEW n \in 0..Len(q)
  PROVE  /\ SubSeq(q, 1, n) \in Seq(S)
         /\ \A i \in DOMAIN SubSeq(q, 1, n) : \E j \in DOMAIN q : SubSeq(q, 1, n)[i] = q[j]
  <1>1. /\ DOMAIN SubSeq(q, 1, n) = 1..n
        /\ \A i \in 1..n : SubSeq(q, 1, n)[i] = q[i]
    OBVIOUS
  <1>2. \A i \in 1..n : i \in DOMAIN q /\ q[i] \in S
    OBVIOUS
  <1>3. SubSeq(q, 1, n) \in Seq(S)
    BY <1>1, <1>2
  <1> QED
    BY <1>1, <1>2, <1>3

\* No event is on its way that was not.
EventsShrink ==
    \A l \in Conns : \A i \in DOMAIN up'[l] : \E j \in DOMAIN up[l] : up'[l][i] = up[l][j]

LEMMA CutTypes ==
  ASSUME ChannelTypeOK, NEW k \in Conns, Cut(k), UNCHANGED overdue
  PROVE  ChannelTypeOK' /\ EventsShrink
  <1>1. PICK n \in 0..Len(up[k]), m \in 0..Len(down[k]) :
            /\ up' = [up EXCEPT ![k] = SubSeq(up[k], 1, n)]
            /\ down' = [down EXCEPT ![k] = SubSeq(down[k], 1, m)]
    BY ZenonT(30) DEF Cut
  <1>2. up[k] \in Seq(Event) /\ down[k] \in Seq(Commands)
    BY DEF ChannelTypeOK
  <1>3. /\ SubSeq(up[k], 1, n) \in Seq(Event)
        /\ \A i \in DOMAIN SubSeq(up[k], 1, n) :
              \E j \in DOMAIN up[k] : SubSeq(up[k], 1, n)[i] = up[k][j]
    BY <1>2, PrefixElements
  <1>4. SubSeq(down[k], 1, m) \in Seq(Commands)
    BY <1>2, PrefixElements
  <1>5. ChannelTypeOK'
    BY <1>1, <1>3, <1>4 DEF ChannelTypeOK, Cut
  <1>6. EventsShrink
    BY <1>1, <1>3 DEF ChannelTypeOK, EventsShrink
  <1> QED
    BY <1>5, <1>6

----------------------------------------------------------------------------
(* What a step has to show.                                                *)

\* The journal forgets no command, and an execution that ended stays so.
Kept ==
    /\ \A c \in Commands : journal[c] # "none" => journal'[c] # "none"
    /\ \A c \in Commands : \A s : Done(c, s) => Done(c, s)'

LEMMA BackedKept ==
  ASSUME Kept, NEW c \in Commands, NEW s, Backed(c, s)
  PROVE  Backed(c, s)'
  BY DEF Kept, Backed

LEMMA EventsKept ==
  ASSUME ChannelTypeOK, EventsAreBacked, Kept, NEW e,
         \A l \in Conns : \A i \in DOMAIN up'[l] :
             \/ \E j \in DOMAIN up[l] : up'[l][i] = up[l][j]
             \/ up'[l][i] = e /\ journal'[e.cmd] # "none" /\ Backed(e.cmd, e.status)'
  PROVE  EventsAreBacked'
  <1> SUFFICES ASSUME NEW l \in Conns, NEW i \in DOMAIN up'[l]
               PROVE  journal'[up'[l][i].cmd] # "none" /\ Backed(up[l][i].cmd, up[l][i].status)'
    BY DEF EventsAreBacked
  <1>1. PICK f : f = up'[l][i]
    OBVIOUS
  <1>2. CASE \E j \in DOMAIN up[l] : f = up[l][j]
    <2>1. PICK j \in DOMAIN up[l] : f = up[l][j]
      BY <1>2
    <2>2. f.cmd \in Commands
      <3>1. up[l] \in Seq(Event)
        BY DEF ChannelTypeOK
      <3>2. up[l][j] \in Event
        BY <3>1
      <3> QED
        BY <2>1, <3>2 DEF Event
    <2>3. journal[f.cmd] # "none" /\ Backed(f.cmd, f.status)
      BY <2>1 DEF EventsAreBacked
    <2>4. journal'[f.cmd] # "none"
      BY <2>2, <2>3 DEF Kept
    <2>5. Backed(f.cmd, f.status)'
      BY <2>2, <2>3, BackedKept
    <2> QED
      BY <1>1, <2>4, <2>5
  <1>3. CASE f = e /\ journal'[e.cmd] # "none" /\ Backed(e.cmd, e.status)'
    BY <1>1, <1>3
  <1> QED
    BY <1>1, <1>2, <1>3

LEMMA ShrinkKeepsEvents ==
  ASSUME ChannelTypeOK, EventsAreBacked, Kept, EventsShrink
  PROVE  EventsAreBacked'
  <1>1. PICK e : e = "no event"
    BY ZenonT(30)
  <1>2. \A l \in Conns : \A i \in DOMAIN up'[l] :
            \/ \E j \in DOMAIN up[l] : up'[l][i] = up[l][j]
            \/ up'[l][i] = e /\ journal'[e.cmd] # "none" /\ Backed(e.cmd, e.status)'
    BY DEF EventsShrink
  <1> QED
    BY ZenonT(30), <1>2, EventsKept

LEMMA KeptAlways ==
  ASSUME UNCHANGED <<journal, job>>
  PROVE  Kept
  BY DEF Kept, Done

\* A step of the Agent.
LEMMA AgentStep ==
  ASSUME CommandInv, UNCHANGED plane, ChannelTypeOK', ExecutorTypeOK',
         (handling # Idle => conn \in Conns)', AgentInv', Kept, EventsAreBacked'
  PROVE  CommandInv'
  <1>0. /\ status' = status /\ txn' = txn /\ registry' = registry /\ handler' = handler
        /\ backlog' = backlog /\ agentRow' = agentRow /\ openRows' = openRows
        /\ submitter' = submitter /\ waiters' = waiters /\ signalled' = signalled
        /\ sweep' = sweep /\ loop' = loop
    BY DEF plane
  <1>1. LinkTypeOK'
    BY <1>0 DEF CommandInv, Types, TypeOK, LinkTypeOK
  <1>2. Types'
    BY <1>0, <1>1 DEF CommandInv, Types, TypeOK
  <1>3. PlaneInv'
    BY <1>0 DEF CommandInv, PlaneInv, UpdatesAreOwn, WaitersAreKept, NoLostSignal
  <1>4. StatusIsBacked'
    <2> SUFFICES ASSUME NEW c \in Commands PROVE Backed(c, status[c])'
      BY DEF StatusIsBacked
    <2>1. PICK s : s = status[c]
      OBVIOUS
    <2>2. Backed(c, s)'
      BY <2>1, BackedKept DEF CommandInv, StatusIsBacked
    <2> QED
      BY <1>0, <2>1, <2>2
  <1> QED
    BY <1>2, <1>3, <1>4 DEF CommandInv

\* A step of the Control Plane, or of the network.
LEMMA PlaneStep ==
  ASSUME CommandInv, UNCHANGED <<handling, journal, inFlight, job, ran>>,
         conn' = conn \/ conn' \in Conns,
         ChannelTypeOK', LinkTypeOK', PlaneInv', StatusIsBacked',
         (sweep \in [phase : {"idle", "writing"},
                     todo : SUBSET [cmd : Commands, to : {"expired", "timed_out"}]])',
         \A k \in Conns : handler'[k] = "delivering" => backlog'[k] # <<>>,
         EventsShrink
  PROVE  CommandInv'
  <1>1. ExecutorTypeOK'
    BY DEF CommandInv, Types, TypeOK, ExecutorTypeOK
  <1>2. Types'
    BY <1>1 DEF CommandInv, Types, TypeOK
  <1>3. AgentInv'
    BY DEF CommandInv, AgentInv, InFlightIsKept, OneJobPerCommand, JournaledFirst, At,
           Executing, Active
  <1>4. EventsAreBacked'
    BY KeptAlways, ShrinkKeepsEvents DEF CommandInv, Types, TypeOK
  <1> QED
    BY <1>2, <1>3, <1>4 DEF CommandInv

----------------------------------------------------------------------------
(* Steps of the Agent.                                                     *)

Jobs ==
    {NoJob, [phase |-> "killed"]}
    \cup [phase : {"spawned", "dispatching"}, via : Conns]
    \cup [phase : {"done"}, outcome : Terminal]
    \cup [phase : {"reporting"}, via : Conns, outcome : Terminal]

LEMMA JobKinds ==
  ASSUME NEW j \in Jobs
  PROVE  /\ j.phase \in {"spawned", "dispatching"} =>
               j \in [phase : {"spawned", "dispatching"}, via : Conns]
         /\ j.phase = "reporting" =>
               j \in [phase : {"reporting"}, via : Conns, outcome : Terminal]
         /\ j.phase \in ActivePhases => j # NoJob /\ j.phase \notin {"done", "killed", "none"}
  BY DEF Jobs, NoJob, ActivePhases

LEMMA HandlingKinds ==
  ASSUME ExecutorTypeOK
  PROVE  /\ handling # Idle => \E c \in Commands :
               At("checked", c) \/ At("accepted", c) \/ At("journaled", c)
         /\ handling = Idle => handling.step = "idle"
         /\ \A s, c : At(s, c) => handling # Idle /\ handling.step = s /\ handling.cmd = c
         /\ \A s \in {"checked", "accepted", "journaled"} : handling.step = s =>
               \E c \in Commands : At(s, c)
  <1>1. handling # Idle => \E c \in Commands :
            At("checked", c) \/ At("accepted", c) \/ At("journaled", c)
    BY DEF ExecutorTypeOK, Handling, At
  <1>2. handling = Idle => handling.step = "idle"
    BY DEF Idle
  <1>3. \A s, c : At(s, c) => handling # Idle /\ handling.step = s /\ handling.cmd = c
    BY DEF At, Idle
  <1> QED
    BY <1>1, <1>2, <1>3

LEMMA JobWrite ==
  ASSUME ExecutorTypeOK, NEW c \in Commands, NEW n \in Runs, NEW v \in Jobs,
         job' = [job EXCEPT ![c][n] = v]
  PROVE  /\ job' \in [Commands -> [Runs -> Jobs]]
         /\ job'[c][n] = v
         /\ \A d \in Commands, m \in Runs : d # c \/ m # n => job'[d][m] = job[d][m]
  <1>1. job \in [Commands -> [Runs -> Jobs]]
    BY DEF ExecutorTypeOK, Jobs
  <1> QED
    BY <1>1

\* Steps of the read loop that touch neither executions nor the journal.
LEMMA LoopStep ==
  ASSUME CommandInv, UNCHANGED <<plane, journal, job, ran, open, up, overdue>>,
         down' \in [Conns -> Seq(Commands)], conn' \in Conns \cup {NoConn},
         \/ handling' = Idle
         \/ /\ conn' \in Conns
            /\ \E c \in Commands : \/ handling' = [step |-> "checked", cmd |-> c]
                                   \/ /\ handling' = [step |-> "accepted", cmd |-> c]
                                      /\ c \in inFlight' /\ c \notin inFlight,
         inFlight' \subseteq Commands,
         \A c \in Commands, n \in Runs : Executing(c, n) /\ c \in inFlight => c \in inFlight'
  PROVE  CommandInv'
  <1>0. TypeOK /\ ExecutorTypeOK /\ ChannelTypeOK
    BY DEF CommandInv, Types, TypeOK
  <1>1. ChannelTypeOK' /\ EventsShrink
    BY <1>0 DEF ChannelTypeOK, EventsShrink
  <1>2. ExecutorTypeOK'
    BY <1>0 DEF ExecutorTypeOK, Handling, Idle
  <1>3. (handling # Idle => conn \in Conns)'
    BY DEF Idle
  <1>4. Kept /\ EventsAreBacked'
    BY <1>0, <1>1, KeptAlways, ShrinkKeepsEvents DEF CommandInv
  <1>5. \A c \in Commands : ~At("journaled", c)'
    BY DEF At, Idle
  <1>6. \A c \in Commands, n \in Runs : Executing(c, n)' <=> Executing(c, n)
    BY DEF Executing
  <1>7. InFlightIsKept'
    <2> SUFFICES ASSUME NEW c \in Commands
                 PROVE  /\ \A n \in Runs : Executing(c, n) => c \in inFlight'
                        /\ At("accepted", c)' =>
                              c \in inFlight' /\ \A n \in Runs : ~Executing(c, n)
      BY <1>5, <1>6 DEF InFlightIsKept
    <2>1. \A n \in Runs : Executing(c, n) => c \in inFlight
      BY DEF CommandInv, AgentInv, InFlightIsKept
    <2>2. ASSUME At("accepted", c)' PROVE c \in inFlight' /\ c \notin inFlight
      <3>1. handling' = [step |-> "accepted", cmd |-> c]
        BY <2>2 DEF At
      <3>2. handling'.step = "accepted" /\ handling'.cmd = c
        BY <3>1
      <3>3. handling' # Idle /\ \A d : handling' # [step |-> "checked", cmd |-> d]
        BY <3>2 DEF Idle
      <3>4. PICK d \in Commands : /\ handling' = [step |-> "accepted", cmd |-> d]
                                 /\ d \in inFlight' /\ d \notin inFlight
        BY <3>3
      <3> QED
        BY <3>2, <3>4
    <2> QED
      BY <2>1, <2>2
  <1>8. JournaledFirst'
    BY <1>5 DEF CommandInv, AgentInv, JournaledFirst
  <1>9. OneJobPerCommand'
    BY DEF CommandInv, AgentInv, OneJobPerCommand, Active
  <1> QED
    BY <1>1, <1>2, <1>3, <1>4, <1>7, <1>8, <1>9, AgentStep DEF AgentInv

LEMMA ReadLoop ==
  ASSUME CommandInv, UNCHANGED plane
  PROVE  /\ LoseConn => CommandInv'
         /\ ReadCommand => CommandInv'
         /\ GuardInFlight => CommandInv'
         /\ AcknowledgeFails => CommandInv'
  <1>0. /\ ExecutorTypeOK /\ ChannelTypeOK
        /\ conn \in Conns \cup {NoConn} /\ inFlight \subseteq Commands
        /\ down \in [Conns -> Seq(Commands)]
        /\ handling # Idle => conn \in Conns
    BY DEF CommandInv, Types, TypeOK, ExecutorTypeOK, ChannelTypeOK
  <1>1. CASE LoseConn
    <2>1. UNCHANGED <<plane, journal, job, ran, open, up, overdue, down, inFlight>>
      BY <1>1 DEF LoseConn, channel
    <2>2. conn' = NoConn /\ handling' = Idle
      BY <1>1 DEF LoseConn
    <2> QED
      BY <1>0, <2>1, <2>2, LoopStep
  <1>2. CASE ReadCommand
    <2>1. /\ UNCHANGED <<plane, journal, job, ran, open, up, overdue, inFlight, conn>>
          /\ conn \in Conns /\ down[conn] # <<>>
          /\ down' = [down EXCEPT ![conn] = Tail(down[conn])]
          /\ handling' \in {Idle, [step |-> "checked", cmd |-> Head(down[conn])]}
      BY <1>0, <1>2 DEF ReadCommand
    <2>2. down[conn] \in Seq(Commands)
      BY <1>0, <2>1
    <2>3. Head(down[conn]) \in Commands /\ Tail(down[conn]) \in Seq(Commands)
      BY <2>1, <2>2, TailElements
    <2>4. down' \in [Conns -> Seq(Commands)]
      BY <1>0, <2>1, <2>3
    <2> QED
      BY <1>0, <2>1, <2>3, <2>4, LoopStep
  <1>3. CASE GuardInFlight
    <2>1. PICK c \in Commands : At("checked", c)
      BY <1>0, <1>3, HandlingKinds DEF GuardInFlight
    <2>2. handling = [step |-> "checked", cmd |-> c] /\ handling # Idle /\ handling.cmd = c
      BY <2>1 DEF At, Idle
    <2>3. [handling EXCEPT !.step = "accepted"] = [step |-> "accepted", cmd |-> c]
      BY <2>2
    <2>4. UNCHANGED <<plane, journal, job, ran, open, up, overdue, down, conn>>
      BY <1>3 DEF GuardInFlight, channel
    <2>5. \/ handling' = Idle /\ inFlight' = inFlight
          \/ /\ handling' = [step |-> "accepted", cmd |-> c]
             /\ c \notin inFlight /\ inFlight' = inFlight \cup {c}
      BY <1>3, <2>2, <2>3 DEF GuardInFlight
    <2> QED
      BY <1>0, <2>2, <2>4, <2>5, LoopStep
  <1>4. CASE AcknowledgeFails
    <2>1. PICK c \in Commands : At("journaled", c)
      BY <1>0, <1>4, HandlingKinds DEF AcknowledgeFails
    <2>2. handling.cmd = c
      BY <2>1 DEF At
    <2>3. \A n \in Runs : ~Executing(c, n)
      BY <2>1 DEF CommandInv, AgentInv, InFlightIsKept
    <2>4. UNCHANGED <<plane, journal, job, ran, open, up, overdue, down, conn>>
      BY <1>4 DEF AcknowledgeFails, channel
    <2>5. handling' = Idle /\ inFlight' = inFlight \ {c}
      BY <1>4, <2>2 DEF AcknowledgeFails
    <2> QED
      BY <1>0, <2>3, <2>4, <2>5, LoopStep
  <1> QED
    BY <1>1, <1>2, <1>3, <1>4

\* The journal entry, then the read loop goes on or gives the command up.
LEMMA RecordStep ==
  ASSUME CommandInv, UNCHANGED plane, RecordReceived
  PROVE  CommandInv'
  <1>0. /\ ExecutorTypeOK /\ ChannelTypeOK
        /\ conn \in Conns \cup {NoConn} /\ inFlight \subseteq Commands
        /\ down \in [Conns -> Seq(Commands)]
        /\ handling # Idle => conn \in Conns
    BY DEF CommandInv, Types, TypeOK, ExecutorTypeOK, ChannelTypeOK
  <1>1. PICK c \in Commands : At("accepted", c)
    BY <1>0, HandlingKinds DEF RecordReceived
  <1>2. handling = [step |-> "accepted", cmd |-> c] /\ handling # Idle /\ handling.cmd = c
    BY <1>1 DEF At, Idle
  <1>3. c \in inFlight /\ \A n \in Runs : ~Executing(c, n)
    BY <1>1 DEF CommandInv, AgentInv, InFlightIsKept
  <1>4. UNCHANGED <<open, down, up, overdue, conn, job, ran>>
    BY DEF RecordReceived, channel
  <1>5. CASE /\ handling' = Idle /\ inFlight' = inFlight \ {c} /\ journal' = journal
    BY <1>0, <1>3, <1>4, <1>5, LoopStep
  <1>6. CASE /\ journal' = [journal EXCEPT ![c] = "received"] /\ inFlight' = inFlight
             /\ handling' = [handling EXCEPT !.step = "journaled"]
    <2>1. handling' = [step |-> "journaled", cmd |-> c]
      BY <1>2, <1>6
    <2>2. ChannelTypeOK' /\ EventsShrink
      BY <1>0, <1>4 DEF ChannelTypeOK, EventsShrink
    <2>3. ExecutorTypeOK'
      <3>1. handling' \in Handling("journaled")
        BY <2>1 DEF Handling
      <3>2. journal' \in [Commands -> {"none", "received", "running", "completed"}]
        BY <1>0, <1>6 DEF ExecutorTypeOK
      <3> QED
        BY <1>0, <1>4, <1>6, <3>1, <3>2 DEF ExecutorTypeOK
    <2>4. /\ journal'[c] # "none"
          /\ \A d \in Commands : journal[d] # "none" => journal'[d] # "none"
      BY <1>0, <1>6 DEF ExecutorTypeOK
    <2>5. Kept /\ EventsAreBacked'
      BY <1>0, <1>4, <2>2, <2>4, ShrinkKeepsEvents DEF Kept, Done, CommandInv
    <2>6. \A d \in Commands : (At("accepted", d)' \/ At("journaled", d)') => d = c
      BY <2>1 DEF At
    <2>7. \A d \in Commands, n \in Runs : Executing(d, n)' <=> Executing(d, n)
      BY <1>4 DEF Executing
    <2>8. InFlightIsKept'
      BY <1>3, <1>6, <2>6, <2>7 DEF CommandInv, AgentInv, InFlightIsKept
    <2>9. JournaledFirst'
      BY <1>4, <2>4, <2>6 DEF CommandInv, AgentInv, JournaledFirst
    <2>10. OneJobPerCommand'
      BY <1>4 DEF CommandInv, AgentInv, OneJobPerCommand, Active
    <2>11. (handling # Idle => conn \in Conns)'
      BY <1>0, <1>2, <1>4
    <2> QED
      BY <2>2, <2>3, <2>5, <2>8, <2>9, <2>10, <2>11, AgentStep DEF AgentInv
  <1> QED
    BY <1>2, <1>5, <1>6 DEF RecordReceived

\* The acknowledged event and the start of the goroutine.
LEMMA AcknowledgeStep ==
  ASSUME CommandInv, UNCHANGED plane, SendAcknowledged
  PROVE  CommandInv'
  <1>0. /\ ExecutorTypeOK /\ ChannelTypeOK /\ up \in [Conns -> Seq(Event)]
        /\ handling # Idle => conn \in Conns
    BY DEF CommandInv, Types, TypeOK, ChannelTypeOK
  <1>1. PICK c \in Commands : At("journaled", c)
    BY <1>0, HandlingKinds DEF SendAcknowledged
  <1>2. handling # Idle /\ handling.cmd = c /\ conn \in Conns
    BY <1>0, <1>1 DEF At, Idle
  <1>3. /\ c \in inFlight /\ journal[c] # "none"
        /\ \A n \in Runs : ~Executing(c, n)
    BY <1>1 DEF CommandInv, AgentInv, InFlightIsKept, JournaledFirst
  <1>4. PICK v \in Jobs : v = [phase |-> "spawned", via |-> conn]
    BY ZenonT(30), <1>2 DEF Jobs
  <1>5. PICK n \in Runs : job[c][n] = NoJob /\ job' = [job EXCEPT ![c][n] = v]
    BY ZenonT(30), <1>2, <1>4 DEF SendAcknowledged
  <1>6. /\ job' \in [Commands -> [Runs -> Jobs]] /\ job'[c][n] = v
        /\ \A d \in Commands, m \in Runs : d # c \/ m # n => job'[d][m] = job[d][m]
    BY ZenonT(30), <1>0, <1>5, JobWrite
  <1>7. /\ UNCHANGED <<open, down, overdue, conn, journal, inFlight, ran>>
        /\ handling' = Idle
    BY DEF SendAcknowledged
  <1>8. PICK e \in Event : e = [cmd |-> c, status |-> "acknowledged"]
    BY ZenonT(30) DEF Event, EventStatus
  <1>9. /\ up' \in [Conns -> Seq(Event)]
        /\ \A l \in Conns : \A i \in DOMAIN up'[l] :
              up'[l][i] = e \/ \E j \in DOMAIN up[l] : up'[l][i] = up[l][j]
    <2>1. up' = Put(up, conn, e)
      BY <1>2, <1>8 DEF SendAcknowledged
    <2> QED
      BY <1>0, <1>2, <2>1, PutElements
  <1>10. ChannelTypeOK' /\ ExecutorTypeOK'
    BY <1>0, <1>6, <1>7, <1>9 DEF ChannelTypeOK, ExecutorTypeOK, Jobs
  <1>11. Kept
    <2>1. \A s : job[c][n] # [phase |-> "done", outcome |-> s]
      BY <1>5 DEF NoJob
    <2> QED
      BY <1>6, <1>7, <2>1 DEF Kept, Done
  <1>12. EventsAreBacked'
    <2>1. e.cmd = c /\ e.status = "acknowledged"
      BY <1>8
    <2>2. journal'[e.cmd] # "none" /\ Backed(e.cmd, e.status)'
      BY <1>3, <1>7, <2>1 DEF Backed
    <2> QED
      BY ZenonT(30), <1>0, <1>9, <1>11, <2>2, EventsKept DEF CommandInv
  <1>13. \A d \in Commands : ~At("accepted", d)' /\ ~At("journaled", d)'
    BY <1>7 DEF At, Idle
  <1>14. \A d \in Commands, m \in Runs : d # c \/ m # n => (Executing(d, m)' <=> Executing(d, m))
    BY <1>6 DEF Executing
  <1>15. InFlightIsKept'
    BY <1>3, <1>7, <1>13, <1>14 DEF CommandInv, AgentInv, InFlightIsKept
  <1>16. JournaledFirst'
    BY <1>3, <1>6, <1>7, <1>13 DEF CommandInv, AgentInv, JournaledFirst
  <1>17. OneJobPerCommand'
    BY <1>3, <1>14 DEF CommandInv, AgentInv, OneJobPerCommand, Active, Executing
  <1>18. (handling # Idle => conn \in Conns)'
    BY <1>7
  <1> QED
    BY <1>10, <1>11, <1>12, <1>15, <1>16, <1>17, <1>18, AgentStep DEF AgentInv

\* A step of a goroutine: its execution becomes v, goes on and stays in inFlight
\* or ends and leaves it; at most event e about its command is written.
Executes(c, n, v, e) ==
    /\ UNCHANGED <<plane, conn, handling, open, down, overdue>>
    /\ Executing(c, n)
    /\ v # NoJob
    /\ job' \in [Commands -> [Runs -> Jobs]]
    /\ job'[c][n] = v
    /\ \A d \in Commands, m \in Runs : d # c \/ m # n => job'[d][m] = job[d][m]
    /\ \/ v.phase \in ActivePhases /\ inFlight' = inFlight
       \/ v.phase \notin ActivePhases /\ inFlight' = inFlight \ {c}
    /\ \/ journal' = journal
       \/ journal' = [journal EXCEPT ![c] = "running"]
       \/ journal' = [journal EXCEPT ![c] = "completed"]
    /\ ran' \in [Commands -> Nat]
    /\ up' \in [Conns -> Seq(Event)]
    /\ e.cmd = c
    /\ e.status \in {"succeeded", "failed"} => v = [phase |-> "done", outcome |-> e.status]
    /\ \A l \in Conns : \A i \in DOMAIN up'[l] :
          up'[l][i] = e \/ \E j \in DOMAIN up[l] : up'[l][i] = up[l][j]

LEMMA GoroutineStep ==
  ASSUME CommandInv, NEW c \in Commands, NEW n \in Runs, NEW v \in Jobs, NEW e \in Event,
         Executes(c, n, v, e)
  PROVE  CommandInv'
  <1>0. /\ ExecutorTypeOK /\ ChannelTypeOK
        /\ journal \in [Commands -> {"none", "received", "running", "completed"}]
    BY DEF CommandInv, Types, TypeOK, ExecutorTypeOK
  <1>1. job[c][n].phase \in ActivePhases /\ Executing(c, n)
    BY DEF Executing, Executes
  <1>2. /\ c \in inFlight /\ journal[c] # "none"
        /\ ~At("accepted", c) /\ ~At("journaled", c)
    BY <1>1 DEF CommandInv, AgentInv, InFlightIsKept, JournaledFirst, NoJob, ActivePhases
  <1>3. \A m \in Runs : Executing(c, m) => m = n
    BY <1>1 DEF CommandInv, AgentInv, OneJobPerCommand, Active, Executing
  <1>4. /\ job' \in [Commands -> [Runs -> Jobs]] /\ job'[c][n] = v
        /\ \A d \in Commands, m \in Runs : d # c \/ m # n => job'[d][m] = job[d][m]
    BY DEF Executes
  <1>5. /\ journal' \in [Commands -> {"none", "received", "running", "completed"}]
        /\ \A d \in Commands : journal[d] # "none" => journal'[d] # "none"
    BY <1>0 DEF Executes
  <1>6. ChannelTypeOK'
    BY <1>0 DEF ChannelTypeOK, Executes
  <1>7. ExecutorTypeOK'
    <2>1. inFlight' \subseteq Commands
      BY <1>0 DEF ExecutorTypeOK, Executes
    <2>2. UNCHANGED <<conn, handling>> /\ ran' \in [Commands -> Nat]
      BY DEF Executes
    <2> QED
      BY <1>0, <1>4, <1>5, <2>1, <2>2 DEF ExecutorTypeOK, Jobs
  <1>8. Kept
    <2>1. \A o : job[c][n] # [phase |-> "done", outcome |-> o]
      BY <1>1 DEF ActivePhases
    <2> QED
      BY <1>4, <1>5, <2>1 DEF Kept, Done
  <1>9. journal'[e.cmd] # "none" /\ Backed(e.cmd, e.status)'
    BY <1>2, <1>4, <1>5 DEF Backed, Done, Executes
  <1>10. EventsAreBacked'
    <2>1. \A l \in Conns : \A i \in DOMAIN up'[l] :
             \/ \E j \in DOMAIN up[l] : up'[l][i] = up[l][j]
             \/ up'[l][i] = e /\ journal'[e.cmd] # "none" /\ Backed(e.cmd, e.status)'
      BY <1>9 DEF Executes
    <2>2. EventsAreBacked
      BY DEF CommandInv
    <2> QED
      BY ZenonT(30), <1>0, <1>8, <2>1, <2>2, EventsKept
  <1>11. \A t, d : At(t, d)' <=> At(t, d)
    BY DEF At, Executes
  <1>12. \A d \in Commands, m \in Runs : d # c \/ m # n => (Executing(d, m)' <=> Executing(d, m))
    BY <1>4 DEF Executing
  <1>13. Executing(c, n)' <=> v.phase \in ActivePhases
    BY <1>4 DEF Executing
  <1>14. InFlightIsKept'
    <2> SUFFICES ASSUME NEW d \in Commands
                 PROVE  /\ \A m \in Runs : Executing(d, m)' => d \in inFlight'
                        /\ At("accepted", d) \/ At("journaled", d) =>
                              d \in inFlight' /\ \A m \in Runs : ~Executing(d, m)'
      BY <1>11 DEF InFlightIsKept
    <2>1. CASE d = c
      BY <1>2, <1>3, <1>12, <1>13, <2>1 DEF Executes
    <2>2. CASE d # c
      <3>1. d \in inFlight => d \in inFlight'
        BY <2>2 DEF Executes
      <3> QED
        BY <1>12, <2>2, <3>1 DEF CommandInv, AgentInv, InFlightIsKept
    <2> QED
      BY <2>1, <2>2
  <1>15. JournaledFirst'
    BY <1>2, <1>4, <1>5, <1>11 DEF CommandInv, AgentInv, JournaledFirst
  <1>16. OneJobPerCommand'
    BY <1>3, <1>12 DEF CommandInv, AgentInv, OneJobPerCommand, Active, Executing
  <1>17. (handling # Idle => conn \in Conns)'
    BY DEF CommandInv, Types, Executes
  <1>18. UNCHANGED plane
    BY DEF Executes
  <1> QED
    BY <1>6, <1>7, <1>8, <1>10, <1>14, <1>15, <1>16, <1>17, <1>18, AgentStep DEF AgentInv

LEMMA Goroutine ==
  ASSUME CommandInv, UNCHANGED plane, NEW c \in Commands, NEW n \in Runs
  PROVE  /\ StartJob(c, n) => CommandInv'
         /\ FinishJob(c, n) => CommandInv'
         /\ ReportJob(c, n) => CommandInv'
  <1>0. /\ ExecutorTypeOK /\ ChannelTypeOK /\ up \in [Conns -> Seq(Event)]
        /\ ran \in [Commands -> Nat] /\ job[c][n] \in Jobs
        /\ job \in [Commands -> [Runs -> Jobs]]
    BY DEF CommandInv, Types, TypeOK, ChannelTypeOK, ExecutorTypeOK, Jobs
  <1>1. CASE StartJob(c, n)
    <2>1. job[c][n] \in [phase : {"spawned", "dispatching"}, via : Conns]
      BY <1>0, <1>1, JobKinds DEF StartJob
    <2>2. PICK v \in Jobs : v = [job[c][n] EXCEPT !.phase = "dispatching"]
      BY ZenonT(30), <2>1 DEF Jobs
    <2>3. v.phase = "dispatching"
      BY <2>1, <2>2
    <2>4. job' = [job EXCEPT ![c][n] = v]
      BY <1>0, <1>1, <2>2 DEF StartJob
    <2>5. PICK e \in Event : e = [cmd |-> c, status |-> "running"]
      BY ZenonT(30) DEF Event, EventStatus
    <2>6. e.cmd = c /\ e.status = "running"
      BY <2>5
    <2>7. job[c][n].via \in Conns /\ up' = Put(up, job[c][n].via, e)
      BY <1>1, <2>1, <2>5 DEF StartJob
    <2>8. /\ up' \in [Conns -> Seq(Event)]
          /\ \A l \in Conns : \A i \in DOMAIN up'[l] :
                up'[l][i] = e \/ \E j \in DOMAIN up[l] : up'[l][i] = up[l][j]
      BY <1>0, <2>7, PutElements
    <2>9. /\ UNCHANGED <<plane, conn, handling, open, down, overdue, inFlight>>
          /\ journal' = journal \/ journal' = [journal EXCEPT ![c] = "running"]
          /\ ran' \in [Commands -> Nat]
      BY <1>0, <1>1 DEF StartJob
    <2>10. Executing(c, n) /\ v # NoJob /\ v.phase \in ActivePhases
      BY <1>1, <2>3 DEF StartJob, Executing, ActivePhases, NoJob
    <2>11. /\ job' \in [Commands -> [Runs -> Jobs]] /\ job'[c][n] = v
           /\ \A d \in Commands, m \in Runs : d # c \/ m # n => job'[d][m] = job[d][m]
      BY <1>0, <2>4, JobWrite
    <2>12. Executes(c, n, v, e)
      BY <2>4, <2>6, <2>8, <2>9, <2>10, <2>11 DEF Executes
    <2> QED
      BY <2>12, GoroutineStep
  <1>2. CASE FinishJob(c, n)
    <2>1. job[c][n] \in [phase : {"spawned", "dispatching"}, via : Conns]
      BY <1>0, <1>2, JobKinds DEF FinishJob
    <2>2. PICK o \in Terminal :
             job' = [job EXCEPT ![c][n] =
                        [phase |-> "reporting", via |-> job[c][n].via, outcome |-> o]]
      BY ZenonT(30), <1>0, <1>2 DEF FinishJob, Terminal
    <2>3. PICK v \in Jobs : v = [phase |-> "reporting", via |-> job[c][n].via, outcome |-> o]
      BY ZenonT(30), <2>1 DEF Jobs
    <2>4. v.phase = "reporting" /\ job' = [job EXCEPT ![c][n] = v]
      BY <2>2, <2>3
    <2>5. PICK e \in Event : e = [cmd |-> c, status |-> "running"]
      BY ZenonT(30) DEF Event, EventStatus
    <2>6. e.cmd = c /\ e.status = "running"
      BY <2>5
    <2>7. /\ UNCHANGED <<plane, conn, handling, open, down, overdue, inFlight, up, ran>>
          /\ journal' = journal \/ journal' = [journal EXCEPT ![c] = "completed"]
      BY <1>2 DEF FinishJob, channel
    <2>8. Executing(c, n) /\ v # NoJob /\ v.phase \in ActivePhases
      BY <1>2, <2>4 DEF FinishJob, Executing, ActivePhases, NoJob
    <2>9. /\ job' \in [Commands -> [Runs -> Jobs]] /\ job'[c][n] = v
           /\ \A d \in Commands, m \in Runs : d # c \/ m # n => job'[d][m] = job[d][m]
      BY <1>0, <2>4, JobWrite
    <2>10. Executes(c, n, v, e)
      BY <1>0, <2>4, <2>6, <2>7, <2>8, <2>9 DEF Executes
    <2> QED
      BY <2>10, GoroutineStep
  <1>3. CASE ReportJob(c, n)
    <2>1. job[c][n] \in [phase : {"reporting"}, via : Conns, outcome : Terminal]
      BY <1>0, <1>3, JobKinds DEF ReportJob
    <2>2. PICK v \in Jobs : v = [phase |-> "done", outcome |-> job[c][n].outcome]
      BY ZenonT(30), <2>1 DEF Jobs
    <2>3. v.phase = "done" /\ job' = [job EXCEPT ![c][n] = v]
      BY <1>0, <1>3, <2>2 DEF ReportJob
    <2>4. PICK e \in Event : e = [cmd |-> c, status |-> job[c][n].outcome]
      BY ZenonT(30), <2>1 DEF Event, EventStatus, Terminal
    <2>5. e.cmd = c /\ v = [phase |-> "done", outcome |-> e.status]
      BY <2>2, <2>4
    <2>6. job[c][n].via \in Conns /\ up' = Put(up, job[c][n].via, e)
      BY <1>3, <2>1, <2>4 DEF ReportJob
    <2>7. /\ up' \in [Conns -> Seq(Event)]
          /\ \A l \in Conns : \A i \in DOMAIN up'[l] :
                up'[l][i] = e \/ \E j \in DOMAIN up[l] : up'[l][i] = up[l][j]
      BY <1>0, <2>6, PutElements
    <2>8. /\ UNCHANGED <<plane, conn, handling, open, down, overdue, journal, ran>>
          /\ inFlight' = inFlight \ {c}
      BY <1>3 DEF ReportJob
    <2>9. Executing(c, n) /\ v # NoJob /\ v.phase \notin ActivePhases
      BY <1>3, <2>3 DEF ReportJob, Executing, ActivePhases, NoJob
    <2>10. /\ job' \in [Commands -> [Runs -> Jobs]] /\ job'[c][n] = v
           /\ \A d \in Commands, m \in Runs : d # c \/ m # n => job'[d][m] = job[d][m]
      BY <1>0, <2>3, JobWrite
    <2>11. Executes(c, n, v, e)
      BY <1>0, <2>3, <2>5, <2>7, <2>8, <2>9, <2>10 DEF Executes
    <2> QED
      BY <2>11, GoroutineStep
  <1> QED
    BY <1>1, <1>2, <1>3

LEMMA RestartAgentStep ==
  ASSUME CommandInv, UNCHANGED plane, RestartAgent
  PROVE  CommandInv'
  <1>0. /\ ExecutorTypeOK /\ ChannelTypeOK /\ conn \in Conns \cup {NoConn}
        /\ job \in [Commands -> [Runs -> Jobs]]
    BY DEF CommandInv, Types, TypeOK, ExecutorTypeOK, Jobs
  <1>1. ChannelTypeOK' /\ EventsShrink
    <2>1. CASE conn = NoConn
      <3>1. UNCHANGED <<open, down, up, overdue>>
        BY <2>1 DEF RestartAgent
      <3> QED
        BY <1>0, <3>1 DEF ChannelTypeOK, EventsShrink
    <2>2. CASE conn # NoConn
      BY <1>0, <2>2, CutTypes DEF RestartAgent
    <2> QED
      BY <2>1, <2>2
  <1>2. job' = [c \in Commands |-> [n \in Runs |->
                   IF job[c][n].phase \in ActivePhases
                   THEN [phase |-> "killed"] ELSE job[c][n]]]
    BY DEF RestartAgent
  <1>3. job' \in [Commands -> [Runs -> Jobs]]
    BY <1>0, <1>2 DEF Jobs
  <1>4. \A c \in Commands, n \in Runs :
            IF Executing(c, n) THEN job'[c][n] = [phase |-> "killed"]
            ELSE job'[c][n] = job[c][n]
    BY <1>2 DEF Executing
  <1>5. \A c \in Commands, n \in Runs : ~Executing(c, n)'
    BY <1>4 DEF Executing, ActivePhases
  <1>6. /\ conn' = NoConn /\ handling' = Idle /\ inFlight' = {}
        /\ UNCHANGED <<journal, ran>>
    BY DEF RestartAgent
  <1>7. ExecutorTypeOK'
    BY <1>0, <1>3, <1>6 DEF ExecutorTypeOK, Jobs
  <1>8. Kept
    <2>1. ASSUME NEW c \in Commands, NEW s, NEW n \in Runs,
                 job[c][n] = [phase |-> "done", outcome |-> s]
          PROVE  job'[c][n] = job[c][n]
      <3>1. job[c][n].phase = "done"
        BY <2>1
      <3> QED
        BY <1>4, <3>1 DEF Executing, ActivePhases
    <2> QED
      BY <1>6, <2>1 DEF Kept, Done
  <1>9. EventsAreBacked'
    BY <1>0, <1>1, <1>8, ShrinkKeepsEvents DEF CommandInv
  <1>10. \A c \in Commands : ~At("accepted", c)' /\ ~At("journaled", c)'
    BY <1>6 DEF At, Idle
  <1>11. InFlightIsKept'
    BY <1>5, <1>10 DEF InFlightIsKept
  <1>12. JournaledFirst'
    <2>1. \A c \in Commands, n \in Runs : Executing(c, n) => job[c][n] # NoJob
      BY DEF Executing, NoJob, ActivePhases
    <2> QED
      BY <1>4, <1>6, <1>10, <2>1 DEF CommandInv, AgentInv, JournaledFirst
  <1>13. OneJobPerCommand'
    BY <1>5 DEF OneJobPerCommand, Active, Executing
  <1>14. (handling # Idle => conn \in Conns)'
    BY <1>6
  <1> QED
    BY <1>1, <1>7, <1>8, <1>9, <1>11, <1>12, <1>13, <1>14, AgentStep DEF AgentInv

-----------------------------------------------------------------------------
(* The steps of the Control Plane *)

\* A step that reports no result of the Agent.
LEMMA StatusKept ==
  ASSUME CommandInv, UNCHANGED <<journal, job>>,
         \A c \in Commands : \/ status'[c] = status[c]
                             \/ status'[c] \in {"pending", "sent", "expired", "timed_out"}
  PROVE  StatusIsBacked'
  <1> SUFFICES ASSUME NEW c \in Commands PROVE Backed(c, status[c])'
    BY DEF StatusIsBacked
  <1>1. PICK s : s = status'[c]
    OBVIOUS
  <1>2. CASE s = status[c]
    <2>1. Backed(c, s)
      BY <1>2 DEF CommandInv, StatusIsBacked
    <2>2. Backed(c, s)'
      BY <2>1, KeptAlways, BackedKept
    <2> QED
      BY <1>1, <2>2
  <1>3. CASE s \in {"pending", "sent", "expired", "timed_out"}
    <2>1. Backed(c, s)'
      BY <1>3 DEF Backed
    <2> QED
      BY <1>1, <2>1
  <1> QED
    BY <1>1, <1>2, <1>3

\* Such a step keeps the callers' signals, when nobody starts to wait for a
\* command that has a result.
LEMMA WaitKept ==
  ASSUME CommandInv,
         \A c \in Commands : \/ status'[c] = status[c]
                             \/ status'[c] \in {"pending", "sent", "expired", "timed_out"},
         signalled' = signalled,
         \A c \in Commands : submitter'[c].phase \in {"sending", "waiting"} =>
             /\ c \in waiters'
             /\ submitter[c].phase \in {"sending", "waiting"} \/ status'[c] = "pending"
  PROVE  WaitersAreKept' /\ NoLostSignal'
  <1>1. WaitersAreKept'
    BY DEF WaitersAreKept
  <1>2. NoLostSignal'
    BY DEF NoLostSignal, CommandInv, PlaneInv
  <1> QED
    BY <1>1, <1>2

LEMMA BlockStep ==
  ASSUME CommandInv, UNCHANGED agent, BlockLoop
  PROVE  CommandInv'
  <1>0. /\ UNCHANGED <<handling, journal, inFlight, job, ran, conn>>
        /\ UNCHANGED <<open, down, up, overdue>>
        /\ UNCHANGED <<status, txn, registry, handler, backlog, agentRow, openRows, submitter,
                       waiters, signalled, sweep>>
        /\ loop' = "stuck"
    BY DEF agent, channel, BlockLoop
  <1>1. ChannelTypeOK' /\ EventsShrink
    BY <1>0 DEF CommandInv, Types, TypeOK, ChannelTypeOK, EventsShrink
  <1>2. LinkTypeOK'
    BY <1>0 DEF CommandInv, Types, TypeOK, LinkTypeOK
  <1>3. PlaneInv'
    BY <1>0 DEF CommandInv, PlaneInv, UpdatesAreOwn, WaitersAreKept, NoLostSignal
  <1>4. StatusIsBacked'
    BY <1>0, StatusKept
  <1> QED
    BY <1>0, <1>1, <1>2, <1>3, <1>4, PlaneStep DEF CommandInv, Types

\* The types of what the Control Plane keeps, one variable at a time.
LEMMA LinkTypes ==
  ASSUME CommandInv
  PROVE  /\ ChannelTypeOK /\ LinkTypeOK
         /\ down \in [Conns -> Seq(Commands)] /\ up \in [Conns -> Seq(Event)]
         /\ status \in [Commands -> CommandStatus \cup {"none"}]
         /\ handler \in [Conns -> {"none", "delivering", "receiving", "gone"}]
         /\ backlog \in [Conns -> Seq(Commands)]
         /\ registry \in Conns \cup {NoConn}
         /\ sweep \in [phase : {"idle", "writing"},
                       todo : SUBSET [cmd : Commands, to : {"expired", "timed_out"}]]
         /\ \A k \in Conns : handler[k] = "delivering" => backlog[k] # <<>>
         /\ \A w \in txn : w.to \in {"sent", "expired", "timed_out"}
  BY DEF CommandInv, Types, TypeOK, ChannelTypeOK, LinkTypeOK, PlaneInv, UpdatesAreOwn

Submitters ==
    [Commands -> [phase : {"none", "waiting", "answered", "gave_up", "raised"}]
                   \cup [phase : {"sending"}, via : Conns]]

\* A step of submit_command_and_wait for command c.
LEMMA SubmitterStep ==
  ASSUME CommandInv, UNCHANGED agent, NEW c \in Commands,
         UNCHANGED <<open, up, overdue, txn, registry, handler, backlog, agentRow, openRows,
                     signalled, sweep, loop>>,
         down' \in [Conns -> Seq(Commands)],
         status' \in [Commands -> CommandStatus \cup {"none"}],
         submitter' \in Submitters,
         waiters' \subseteq Commands,
         \A d \in Commands \ {c} : /\ status'[d] = status[d] /\ submitter'[d] = submitter[d]
                                   /\ d \in waiters => d \in waiters',
         status'[c] = status[c] \/ status'[c] \in {"pending", "sent"},
         submitter'[c].phase \in {"sending", "waiting"} =>
             /\ c \in waiters'
             /\ submitter[c].phase \in {"sending", "waiting"} \/ status'[c] = "pending"
  PROVE  CommandInv'
  <1>0. UNCHANGED <<handling, journal, inFlight, job, ran, conn>>
    BY DEF agent
  <1>1. ChannelTypeOK' /\ EventsShrink
    BY LinkTypes DEF ChannelTypeOK, EventsShrink
  <1>2. LinkTypeOK'
    BY LinkTypes DEF LinkTypeOK, Submitters
  <1>3. \A d \in Commands : \/ status'[d] = status[d]
                            \/ status'[d] \in {"pending", "sent", "expired", "timed_out"}
    OBVIOUS
  <1>4. StatusIsBacked'
    BY <1>0, <1>3, StatusKept
  <1>5. \A d \in Commands : submitter[d].phase \in {"sending", "waiting"} => d \in waiters
    BY DEF CommandInv, PlaneInv, WaitersAreKept
  <1>6. \A d \in Commands : submitter'[d].phase \in {"sending", "waiting"} =>
            /\ d \in waiters'
            /\ submitter[d].phase \in {"sending", "waiting"} \/ status'[d] = "pending"
    BY <1>5
  <1>7. PlaneInv'
    <2>1. WaitersAreKept' /\ NoLostSignal'
      BY <1>3, <1>6, WaitKept
    <2>2. UpdatesAreOwn'
      BY LinkTypes DEF UpdatesAreOwn
    <2> QED
      BY <2>1, <2>2 DEF PlaneInv
  <1>8. (sweep \in [phase : {"idle", "writing"},
                    todo : SUBSET [cmd : Commands, to : {"expired", "timed_out"}]])'
    BY LinkTypes
  <1>9. \A k \in Conns : handler'[k] = "delivering" => backlog'[k] # <<>>
    BY LinkTypes
  <1> QED
    BY <1>0, <1>1, <1>2, <1>4, <1>7, <1>8, <1>9, PlaneStep

LEMMA SubmitSteps ==
  ASSUME CommandInv, UNCHANGED agent, NEW c \in Commands
  PROVE  /\ Submit(c) => CommandInv'
         /\ ResumeSubmit(c) => CommandInv'
         /\ SubmitRaises(c) => CommandInv'
         /\ EndWait(c) => CommandInv'
  <1>0. /\ submitter \in Submitters /\ waiters \subseteq Commands
        /\ status \in [Commands -> CommandStatus \cup {"none"}]
        /\ down \in [Conns -> Seq(Commands)] /\ registry \in Conns \cup {NoConn}
        /\ submitter[c].phase \in {"sending", "waiting"} => c \in waiters
    BY LinkTypes DEF LinkTypeOK, Submitters, CommandInv, PlaneInv, WaitersAreKept
  <1>s. {"pending", "sent"} \subseteq CommandStatus
    BY DEF CommandStatus
  <1>1. CASE Submit(c)
    <2>1. /\ status' = [status EXCEPT ![c] = "pending"] /\ waiters' = waiters \cup {c}
          /\ UNCHANGED <<open, up, overdue, txn, registry, handler, backlog, agentRow,
                         openRows, signalled, sweep, loop>>
      BY ZenonT(30), <1>1 DEF Submit
    <2>2. PICK v \in [phase : {"waiting"}] \cup [phase : {"sending"}, via : Conns] :
              submitter' = [submitter EXCEPT ![c] = v]
      BY ZenonT(30), <1>0, <1>1 DEF Submit
    <2>3. down' \in [Conns -> Seq(Commands)]
      <3>1. CASE registry = NoConn
        BY <1>0, <1>1, <3>1 DEF Submit
      <3>2. CASE registry # NoConn
        <4>1. registry \in Conns /\ down' = Put(down, registry, c)
          BY <1>0, <1>1, <3>2 DEF Submit
        <4> QED
          BY <1>0, <4>1, PutElements
      <3> QED
        BY <3>1, <3>2
    <2>4. /\ submitter' \in Submitters
          /\ \A d \in Commands \ {c} : submitter'[d] = submitter[d]
      BY <1>0, <2>2 DEF Submitters
    <2>5. /\ status' \in [Commands -> CommandStatus \cup {"none"}]
          /\ status'[c] = "pending" /\ c \in waiters' /\ waiters' \subseteq Commands
          /\ \A d \in Commands \ {c} : status'[d] = status[d] /\ (d \in waiters => d \in waiters')
      BY <1>0, <1>s, <2>1
    <2> QED
      BY <2>1, <2>3, <2>4, <2>5, SubmitterStep
  <1>2. CASE ResumeSubmit(c)
    <2>1. CASE Locked(c)
      BY <1>2, <2>1, BlockStep DEF ResumeSubmit
    <2>2. CASE ~Locked(c)
      <3>1. /\ status' = [status EXCEPT ![c] = "sent"]
            /\ submitter' = [submitter EXCEPT ![c] = [phase |-> "waiting"]]
            /\ submitter[c].phase = "sending"
            /\ UNCHANGED <<open, down, up, overdue, txn, registry, handler, backlog, agentRow,
                           openRows, waiters, signalled, sweep, loop>>
        BY <1>2, <2>2 DEF ResumeSubmit, channel
      <3>2. /\ submitter' \in Submitters
            /\ \A d \in Commands \ {c} : submitter'[d] = submitter[d]
        BY <1>0, <3>1 DEF Submitters
      <3>3. /\ status' \in [Commands -> CommandStatus \cup {"none"}]
            /\ status'[c] = "sent"
            /\ \A d \in Commands \ {c} : status'[d] = status[d]
        BY <1>0, <1>s, <3>1
      <3> QED
        BY ZenonT(30), <1>0, <3>1, <3>2, <3>3, SubmitterStep
    <2> QED
      BY <2>1, <2>2
  <1>3. CASE SubmitRaises(c)
    <2>1. /\ submitter' = [submitter EXCEPT ![c] = [phase |-> "raised"]]
          /\ UNCHANGED <<open, down, up, overdue, status, txn, registry, handler, backlog,
                         agentRow, openRows, waiters, signalled, sweep, loop>>
      BY <1>3 DEF SubmitRaises, channel
    <2>2. /\ submitter' \in Submitters /\ submitter'[c].phase = "raised"
          /\ \A d \in Commands \ {c} : submitter'[d] = submitter[d]
      BY <1>0, <2>1 DEF Submitters
    <2> QED
      BY ZenonT(30), <1>0, <2>1, <2>2, SubmitterStep
  <1>4. CASE EndWait(c)
    <2>a. [phase |-> IF c \in signalled THEN "answered" ELSE "gave_up"]
              \in [phase : {"answered", "gave_up"}]
      OBVIOUS
    <2>1. PICK v \in [phase : {"answered", "gave_up"}] :
              submitter' = [submitter EXCEPT ![c] = v]
      BY ZenonT(30), <1>4, <2>a DEF EndWait
    <2>2. /\ UNCHANGED <<open, down, up, overdue, status, txn, registry, handler, backlog,
                         agentRow, openRows, signalled, sweep, loop>>
          /\ waiters' = waiters \ {c}
      BY <1>4 DEF EndWait, channel
    <2>3. /\ submitter' \in Submitters /\ submitter'[c].phase \notin {"sending", "waiting"}
          /\ \A d \in Commands \ {c} : submitter'[d] = submitter[d]
      BY <1>0, <2>1 DEF Submitters
    <2>4. /\ waiters' \subseteq Commands
          /\ \A d \in Commands \ {c} : d \in waiters => d \in waiters'
      BY ZenonT(30), <1>0, <2>2
    <2> QED
      BY ZenonT(30), <1>0, <2>2, <2>3, <2>4, SubmitterStep
  <1> QED
    BY <1>1, <1>2, <1>3, <1>4

\* Committing updates that are nobody's result.
LEMMA AppliedUpdates ==
  ASSUME CommandInv, NEW ws,
         \A w \in ws : w.to \in {"sent", "expired", "timed_out"}
  PROVE  /\ Applied(ws) \in [Commands -> CommandStatus \cup {"none"}]
         /\ \A c \in Commands : \/ Applied(ws)[c] = status[c]
                                \/ Applied(ws)[c] \in {"pending", "sent", "expired", "timed_out"}
  <1>1. \A c \in Commands : \/ Applied(ws)[c] = status[c]
                            \/ Applied(ws)[c] \in {"sent", "expired", "timed_out"}
    <2> SUFFICES ASSUME NEW c \in Commands, \E w \in ws : w.cmd = c
                 PROVE  Applied(ws)[c] \in {"sent", "expired", "timed_out"}
      BY DEF Applied
    <2>1. PICK w \in ws : w = CHOOSE v \in ws : v.cmd = c
      OBVIOUS
    <2> QED
      BY <2>1 DEF Applied
  <1>2. Applied(ws) = [c \in Commands |-> Applied(ws)[c]]
    BY DEF Applied
  <1>3. /\ status \in [Commands -> CommandStatus \cup {"none"}]
        /\ {"sent", "expired", "timed_out"} \subseteq CommandStatus
    BY LinkTypes DEF CommandStatus
  <1> QED
    BY <1>1, <1>2, <1>3

\* A step that moves updates to their commit, or drops or adds some, and leaves
\* events and callers alone.
Commits ==
    /\ UNCHANGED <<open, up, overdue, registry, agentRow, openRows, submitter, waiters,
                   signalled, loop>>
    /\ down' \in [Conns -> Seq(Commands)]
    /\ status' \in [Commands -> CommandStatus \cup {"none"}]
    /\ \A c \in Commands : \/ status'[c] = status[c]
                           \/ status'[c] \in {"pending", "sent", "expired", "timed_out"}
    /\ txn' \subseteq [by : Conns \cup {Sweeper}, cmd : Commands, to : CommandStatus]
    /\ \A w \in txn' : w.to \in {"sent", "expired", "timed_out"}
    /\ \A v, w \in txn' : v.cmd = w.cmd => v = w
    /\ handler' \in [Conns -> {"none", "delivering", "receiving", "gone"}]
    /\ backlog' \in [Conns -> Seq(Commands)]
    /\ \A k \in Conns : handler'[k] = "delivering" => backlog'[k] # <<>>
    /\ sweep' \in [phase : {"idle", "writing"},
                   todo : SUBSET [cmd : Commands, to : {"expired", "timed_out"}]]

LEMMA CommitStep ==
  ASSUME CommandInv, UNCHANGED agent, Commits
  PROVE  CommandInv'
  <1>0. UNCHANGED <<handling, journal, inFlight, job, ran, conn>>
    BY DEF agent
  <1>1. ChannelTypeOK' /\ EventsShrink
    BY LinkTypes DEF ChannelTypeOK, EventsShrink, Commits
  <1>2. sweep'.phase \in {"idle", "writing"}
        /\ sweep'.todo \subseteq [cmd : Commands, to : {"expired", "timed_out"}]
    BY DEF Commits
  <1>3. LinkTypeOK'
    BY <1>2, LinkTypes DEF LinkTypeOK, Commits
  <1>4. StatusIsBacked'
    BY <1>0, StatusKept DEF Commits
  <1>5. PlaneInv'
    <2>1. \A d \in Commands : submitter'[d].phase \in {"sending", "waiting"} =>
              /\ d \in waiters'
              /\ submitter[d].phase \in {"sending", "waiting"} \/ status'[d] = "pending"
      BY DEF CommandInv, PlaneInv, WaitersAreKept, Commits
    <2>2. WaitersAreKept' /\ NoLostSignal'
      BY <2>1, WaitKept DEF Commits
    <2>3. UpdatesAreOwn'
      BY DEF UpdatesAreOwn, Commits
    <2> QED
      BY <2>2, <2>3 DEF PlaneInv
  <1> QED
    BY <1>0, <1>1, <1>3, <1>4, <1>5, PlaneStep DEF Commits

\* A row that is not locked is locked by one new update, and fewer updates lock
\* no more rows.
LEMMA UpdateTypes ==
  ASSUME CommandInv
  PROVE  /\ \A u \in [by : Conns \cup {Sweeper}, cmd : Commands, to : {"sent", "expired", "timed_out"}] :
               ~Locked(u.cmd) =>
                  /\ txn \cup {u} \subseteq [by : Conns \cup {Sweeper}, cmd : Commands, to : CommandStatus]
                  /\ \A w \in txn \cup {u} : w.to \in {"sent", "expired", "timed_out"}
                  /\ \A v, w \in txn \cup {u} : v.cmd = w.cmd => v = w
         /\ \A X \in SUBSET txn :
               /\ X \subseteq [by : Conns \cup {Sweeper}, cmd : Commands, to : CommandStatus]
               /\ \A w \in X : w.to \in {"sent", "expired", "timed_out"}
               /\ \A v, w \in X : v.cmd = w.cmd => v = w
  <1>1. /\ txn \subseteq [by : Conns \cup {Sweeper}, cmd : Commands, to : CommandStatus]
        /\ \A w \in txn : w.to \in {"sent", "expired", "timed_out"}
        /\ \A v, w \in txn : v.cmd = w.cmd => v = w
    BY LinkTypes DEF LinkTypeOK
  <1>2. ASSUME NEW u \in [by : Conns \cup {Sweeper}, cmd : Commands,
                          to : {"sent", "expired", "timed_out"}], ~Locked(u.cmd)
        PROVE  /\ txn \cup {u} \subseteq
                     [by : Conns \cup {Sweeper}, cmd : Commands, to : CommandStatus]
               /\ \A w \in txn \cup {u} : w.to \in {"sent", "expired", "timed_out"}
               /\ \A v, w \in txn \cup {u} : v.cmd = w.cmd => v = w
    <2>1. u \in [by : Conns \cup {Sweeper}, cmd : Commands, to : CommandStatus]
      BY DEF CommandStatus
    <2>2. u.to \in {"sent", "expired", "timed_out"}
      OBVIOUS
    <2>3. \A w \in txn : w.cmd # u.cmd
      BY <1>2 DEF Locked
    <2> QED
      BY <1>1, <2>1, <2>2, <2>3
  <1> QED
    BY <1>1, <1>2

LEMMA DeliverStep ==
  ASSUME CommandInv, UNCHANGED agent, NEW k \in Conns, Deliver(k)
  PROVE  CommandInv'
  <1>1. handler[k] = "delivering" /\ backlog[k] # <<>> /\ backlog[k] \in Seq(Commands)
    BY LinkTypes DEF Deliver
  <1>2. PICK c \in Commands, rest \in Seq(Commands) :
            c = Head(backlog[k]) /\ rest = Tail(backlog[k])
    BY ZenonT(30), <1>1, TailElements
  <1>3. PICK u \in [by : Conns \cup {Sweeper}, cmd : Commands,
                    to : {"sent", "expired", "timed_out"}] :
            u = [by |-> k, cmd |-> c, to |-> "sent"]
    BY ZenonT(30)
  <1>4. u.cmd = c /\ u.to = "sent"
    BY <1>3
  <1>5. CASE Locked(c)
    BY <1>2, <1>5, BlockStep DEF Deliver
  <1>6. CASE ~Locked(c)
    <2>1. /\ backlog' = [backlog EXCEPT ![k] = rest]
          /\ UNCHANGED <<open, up, overdue, registry, agentRow, openRows, submitter, waiters,
                         signalled, sweep, loop>>
      BY <1>2, <1>6 DEF Deliver
    <2>2. backlog' \in [Conns -> Seq(Commands)] /\ backlog'[k] = rest
          /\ \A l \in Conns \ {k} : backlog'[l] = backlog[l]
      BY <2>1, LinkTypes
    <2>3. CASE rest = <<>>
      <3>1. /\ status' = Applied(Updates(k) \cup {u}) /\ txn' = txn \ Updates(k)
            /\ handler' = [handler EXCEPT ![k] = "receiving"] /\ down' = down
        BY <1>2, <1>3, <1>6, <2>3 DEF Deliver
      <3>2. \A w \in Updates(k) \cup {u} : w.to \in {"sent", "expired", "timed_out"}
        BY <1>4, LinkTypes DEF Updates
      <3>3. /\ status' \in [Commands -> CommandStatus \cup {"none"}]
            /\ \A d \in Commands :
                  \/ status'[d] = status[d]
                  \/ status'[d] \in {"pending", "sent", "expired", "timed_out"}
        BY <3>1, <3>2, AppliedUpdates
      <3>4. txn' \in SUBSET txn
        BY <3>1
      <3>5. /\ txn' \subseteq [by : Conns \cup {Sweeper}, cmd : Commands, to : CommandStatus]
            /\ \A w \in txn' : w.to \in {"sent", "expired", "timed_out"}
            /\ \A v, w \in txn' : v.cmd = w.cmd => v = w
        BY <3>4, UpdateTypes
      <3>6. /\ handler' \in [Conns -> {"none", "delivering", "receiving", "gone"}]
            /\ \A l \in Conns : handler'[l] = "delivering" => backlog'[l] # <<>>
        BY <2>2, <3>1, LinkTypes
      <3>7. Commits
        BY ZenonT(30), <2>1, <2>2, <3>1, <3>3, <3>5, <3>6, LinkTypes DEF Commits
      <3> QED
        BY <3>7, CommitStep
    <2>4. CASE rest # <<>>
      <3>1. /\ txn' = txn \cup {u} /\ down' = Put(down, k, Head(rest))
            /\ UNCHANGED <<status, handler>>
        BY ZenonT(30), <1>2, <1>3, <1>6, <2>4 DEF Deliver
      <3>2. Head(rest) \in Commands
        BY <2>4, TailElements
      <3>3. down' \in [Conns -> Seq(Commands)]
        BY ZenonT(30), <3>1, <3>2, LinkTypes, PutElements
      <3>4. /\ txn' \subseteq [by : Conns \cup {Sweeper}, cmd : Commands, to : CommandStatus]
            /\ \A w \in txn' : w.to \in {"sent", "expired", "timed_out"}
            /\ \A v, w \in txn' : v.cmd = w.cmd => v = w
        BY <1>4, <1>6, <3>1, UpdateTypes
      <3>5. \A l \in Conns : handler'[l] = "delivering" => backlog'[l] # <<>>
        BY <2>2, <2>4, <3>1, LinkTypes
      <3>6. Commits
        BY <2>1, <2>2, <3>1, <3>3, <3>4, <3>5, LinkTypes DEF Commits
      <3> QED
        BY <3>6, CommitStep
    <2> QED
      BY <2>3, <2>4
  <1> QED
    BY <1>5, <1>6

LEMMA DeliverRaisesStep ==
  ASSUME CommandInv, UNCHANGED agent, NEW k \in Conns, DeliverRaises(k)
  PROVE  CommandInv'
  <1>1. /\ handler' = [handler EXCEPT ![k] = "gone"]
        /\ backlog' = [backlog EXCEPT ![k] = <<>>]
        /\ txn' = txn \ Updates(k)
        /\ UNCHANGED <<open, down, up, overdue, status, registry, agentRow, openRows, submitter,
                       waiters, signalled, sweep, loop>>
    BY DEF DeliverRaises, channel
  <1>2. txn' \in SUBSET txn
    BY <1>1
  <1>3. /\ txn' \subseteq [by : Conns \cup {Sweeper}, cmd : Commands, to : CommandStatus]
        /\ \A w \in txn' : w.to \in {"sent", "expired", "timed_out"}
        /\ \A v, w \in txn' : v.cmd = w.cmd => v = w
    BY <1>2, UpdateTypes
  <1>4. <<>> \in Seq(Commands)
    OBVIOUS
  <1>5. /\ handler' \in [Conns -> {"none", "delivering", "receiving", "gone"}]
        /\ backlog' \in [Conns -> Seq(Commands)]
        /\ \A l \in Conns : handler'[l] = "delivering" => backlog'[l] # <<>>
    BY <1>1, <1>4, LinkTypes
  <1>6. Commits
    BY <1>1, <1>3, <1>5, LinkTypes DEF Commits
  <1> QED
    BY <1>6, CommitStep

Sweeps == [phase : {"idle", "writing"}, todo : SUBSET [cmd : Commands, to : {"expired", "timed_out"}]]

LEMMA SweepSteps ==
  ASSUME CommandInv, UNCHANGED agent
  PROVE  /\ SweepRead => CommandInv'
         /\ SweepWrite => CommandInv'
         /\ SweepCommit => CommandInv'
  <1>0. sweep \in Sweeps
    BY LinkTypes DEF Sweeps
  <1>1. CASE SweepRead
    <2>1. /\ UNCHANGED <<open, down, up, overdue, status, txn, registry, handler, backlog,
                         agentRow, openRows, submitter, waiters, signalled, loop>>
      BY ZenonT(30), <1>1 DEF SweepRead, channel
    <2>2. PICK late \in SUBSET overdue :
              sweep' = [phase |-> "writing",
                        todo |-> {[cmd |-> c, to |-> IF status[c] = "pending" THEN "expired"
                                                     ELSE "timed_out"] : c \in late}]
      BY ZenonT(30), <1>1 DEF SweepRead
    <2>3. late \subseteq Commands
      BY LinkTypes DEF ChannelTypeOK
    <2>4. \A c \in Commands :
              [cmd |-> c, to |-> IF status[c] = "pending" THEN "expired" ELSE "timed_out"]
                  \in [cmd : Commands, to : {"expired", "timed_out"}]
      OBVIOUS
    <2>5. PICK T : T = {[cmd |-> c, to |-> IF status[c] = "pending" THEN "expired"
                                           ELSE "timed_out"] : c \in late}
      BY ZenonT(30)
    <2>6. T \subseteq [cmd : Commands, to : {"expired", "timed_out"}]
      BY <2>3, <2>4, <2>5
    <2>7. sweep' \in Sweeps
      BY <2>2, <2>5, <2>6 DEF Sweeps
    <2>8. Commits
      BY <2>1, <2>7, LinkTypes DEF Commits, LinkTypeOK, Sweeps
    <2> QED
      BY <2>8, CommitStep
  <1>2. CASE SweepWrite
    <2>1. PICK t \in sweep.todo : /\ ~Locked(t.cmd)
                                  /\ txn' = txn \cup {[by |-> Sweeper, cmd |-> t.cmd, to |-> t.to]}
                                  /\ sweep' = [sweep EXCEPT !.todo = sweep.todo \ {t}]
      BY ZenonT(30), <1>2 DEF SweepWrite
    <2>2. /\ UNCHANGED <<open, down, up, overdue, status, registry, handler, backlog,
                         agentRow, openRows, submitter, waiters, signalled, loop>>
      BY <1>2 DEF SweepWrite, channel
    <2>3. t \in [cmd : Commands, to : {"expired", "timed_out"}]
      BY <1>0, <2>1 DEF Sweeps
    <2>4. PICK u \in [by : Conns \cup {Sweeper}, cmd : Commands,
                      to : {"sent", "expired", "timed_out"}] :
              u = [by |-> Sweeper, cmd |-> t.cmd, to |-> t.to]
      BY ZenonT(30), <2>3
    <2>5. u.cmd = t.cmd
      BY <2>4
    <2>6. txn' = txn \cup {u} /\ ~Locked(u.cmd)
      BY <2>1, <2>4, <2>5
    <2>7. /\ txn' \subseteq [by : Conns \cup {Sweeper}, cmd : Commands, to : CommandStatus]
          /\ \A w \in txn' : w.to \in {"sent", "expired", "timed_out"}
          /\ \A v, w \in txn' : v.cmd = w.cmd => v = w
      BY ZenonT(30), <2>6, UpdateTypes
    <2>8. sweep' \in Sweeps
      BY <1>0, <2>1 DEF Sweeps
    <2>9. Commits
      BY <2>2, <2>7, <2>8, LinkTypes DEF Commits, Sweeps
    <2> QED
      BY <2>9, CommitStep
  <1>3. CASE SweepCommit
    <2>1. /\ UNCHANGED <<open, down, up, overdue, registry, handler, backlog, agentRow,
                         openRows, submitter, waiters, signalled, loop>>
          /\ status' = Applied(Updates(Sweeper)) /\ txn' = txn \ Updates(Sweeper)
          /\ sweep' = SweepIdle
      BY <1>3 DEF SweepCommit, channel
    <2>2. \A w \in Updates(Sweeper) : w.to \in {"sent", "expired", "timed_out"}
      BY LinkTypes DEF Updates
    <2>3. /\ status' \in [Commands -> CommandStatus \cup {"none"}]
          /\ \A d \in Commands :
                \/ status'[d] = status[d]
                \/ status'[d] \in {"pending", "sent", "expired", "timed_out"}
      BY <2>1, <2>2, AppliedUpdates
    <2>4. txn' \in SUBSET txn
      BY <2>1
    <2>5. /\ txn' \subseteq [by : Conns \cup {Sweeper}, cmd : Commands, to : CommandStatus]
          /\ \A w \in txn' : w.to \in {"sent", "expired", "timed_out"}
          /\ \A v, w \in txn' : v.cmd = w.cmd => v = w
      BY <2>4, UpdateTypes
    <2>6. sweep' \in Sweeps
      BY <2>1 DEF Sweeps, SweepIdle
    <2>7. Commits
      BY <2>1, <2>3, <2>5, <2>6, LinkTypes DEF Commits, Sweeps
    <2> QED
      BY <2>7, CommitStep
  <1> QED
    BY <1>1, <1>2, <1>3

\* The finally block of agent_socket: the events not yet read are gone.
LEMMA EndHandlerStep ==
  ASSUME CommandInv, UNCHANGED agent, NEW k \in Conns, EndHandler(k),
         open' \subseteq open, down' = down
  PROVE  CommandInv'
  <1>0. UNCHANGED <<handling, journal, inFlight, job, ran, conn>>
    BY DEF agent
  <1>1. /\ handler' = [handler EXCEPT ![k] = "gone"] /\ registry' = NoConn
        /\ agentRow' = "disconnected" /\ openRows' \subseteq openRows
        /\ up' = [up EXCEPT ![k] = <<>>]
        /\ UNCHANGED <<overdue, status, txn, backlog, submitter, waiters, signalled, sweep, loop>>
    BY DEF EndHandler
  <1>2. <<>> \in Seq(Event) /\ DOMAIN <<>> = {}
    OBVIOUS
  <1>3. ChannelTypeOK'
    BY <1>1, <1>2, LinkTypes DEF ChannelTypeOK
  <1>4. EventsShrink
    BY <1>1, <1>2, LinkTypes DEF ChannelTypeOK, EventsShrink
  <1>5. LinkTypeOK'
    BY <1>1, LinkTypes DEF LinkTypeOK
  <1>6. PlaneInv'
    BY ZenonT(30), <1>1 DEF CommandInv, PlaneInv, UpdatesAreOwn, WaitersAreKept, NoLostSignal
  <1>7. StatusIsBacked'
    BY <1>0, <1>1, StatusKept
  <1>8. \A l \in Conns : handler'[l] = "delivering" => backlog'[l] # <<>>
    BY <1>1, LinkTypes
  <1>9. (sweep \in [phase : {"idle", "writing"},
                    todo : SUBSET [cmd : Commands, to : {"expired", "timed_out"}]])'
    BY <1>1, LinkTypes
  <1> QED
    BY ZenonT(30), <1>0, <1>3, <1>4, <1>5, <1>6, <1>7, <1>8, <1>9, PlaneStep

\* record_event of a legal event: the result it writes is backed by the Agent,
\* and the caller that waits for it is signalled in the same step.
LEMMA RecordEventStep ==
  ASSUME CommandInv, UNCHANGED agent, NEW k \in Conns, NEW e, up[k] # <<>>, e = Head(up[k]),
         status' = [status EXCEPT ![e.cmd] = e.status],
         signalled' = IF e.status \in Terminal /\ e.cmd \in waiters
                      THEN signalled \cup {e.cmd} ELSE signalled,
         up' = [up EXCEPT ![k] = Tail(up[k])],
         UNCHANGED <<open, down, overdue, txn, registry, handler, backlog, agentRow, openRows,
                     submitter, waiters, sweep, loop>>
  PROVE  CommandInv'
  <1>0. UNCHANGED <<handling, journal, inFlight, job, ran, conn>>
    BY DEF agent
  <1>1. up[k] \in Seq(Event)
    BY LinkTypes
  <1>2. /\ e \in Event /\ Tail(up[k]) \in Seq(Event)
        /\ e = up[k][1] /\ 1 \in DOMAIN up[k]
        /\ \A i \in DOMAIN Tail(up[k]) : \E j \in DOMAIN up[k] : Tail(up[k])[i] = up[k][j]
    BY <1>1, TailElements
  <1>3. PICK c \in Commands, s \in EventStatus : c = e.cmd /\ s = e.status
    BY <1>2 DEF Event
  <1>4. Backed(c, s)
    BY <1>2, <1>3 DEF CommandInv, EventsAreBacked
  <1>5. EventStatus \subseteq CommandStatus
    BY DEF EventStatus, CommandStatus
  <1>6. /\ status' \in [Commands -> CommandStatus \cup {"none"}]
        /\ status'[c] = s /\ \A d \in Commands \ {c} : status'[d] = status[d]
    BY <1>3, <1>5, LinkTypes
  <1>7. ChannelTypeOK' /\ EventsShrink
    <2>1. up' \in [Conns -> Seq(Event)] /\ up'[k] = Tail(up[k])
          /\ \A l \in Conns \ {k} : up'[l] = up[l]
      BY <1>2, LinkTypes
    <2>2. ChannelTypeOK'
      BY <2>1, LinkTypes DEF ChannelTypeOK
    <2>3. EventsShrink
      BY <1>2, <2>1 DEF EventsShrink
    <2> QED
      BY <2>2, <2>3
  <1>8. signalled \subseteq signalled' /\ signalled' \subseteq signalled \cup {c}
        /\ (s \in Terminal /\ c \in waiters => c \in signalled')
    BY <1>3
  <1>9. LinkTypeOK'
    BY <1>6, <1>8, LinkTypes DEF LinkTypeOK
  <1>10. StatusIsBacked'
    <2> SUFFICES ASSUME NEW d \in Commands PROVE Backed(d, status[d])'
      BY DEF StatusIsBacked
    <2>1. PICK t : t = status'[d]
      OBVIOUS
    <2>2. Backed(d, t)
      BY <1>4, <1>6, <2>1 DEF CommandInv, StatusIsBacked
    <2>3. Backed(d, t)'
      BY <1>0, <2>2, KeptAlways, BackedKept
    <2> QED
      BY <2>1, <2>3
  <1>11. PlaneInv'
    <2>1. UpdatesAreOwn' /\ WaitersAreKept'
      BY DEF CommandInv, PlaneInv, UpdatesAreOwn, WaitersAreKept
    <2>2. NoLostSignal'
      <3> SUFFICES ASSUME NEW d \in Commands, submitter[d].phase \in {"sending", "waiting"},
                          status'[d] \in {"succeeded", "failed"}
                   PROVE  d \in signalled'
        BY DEF NoLostSignal
      <3>1. d \in waiters
        BY DEF CommandInv, PlaneInv, WaitersAreKept
      <3>2. CASE d = c
        BY <1>6, <1>8, <3>1, <3>2 DEF Terminal
      <3>3. CASE d # c
        BY ZenonT(30), <1>6, <1>8, <3>3 DEF CommandInv, PlaneInv, NoLostSignal
      <3> QED
        BY <3>2, <3>3
    <2> QED
      BY <2>1, <2>2 DEF PlaneInv
  <1>12. \A l \in Conns : handler'[l] = "delivering" => backlog'[l] # <<>>
    BY LinkTypes
  <1>13. (sweep \in [phase : {"idle", "writing"},
                     todo : SUBSET [cmd : Commands, to : {"expired", "timed_out"}]])'
    BY LinkTypes
  <1> QED
    BY <1>0, <1>7, <1>9, <1>10, <1>11, <1>12, <1>13, PlaneStep

LEMMA SocketSteps ==
  ASSUME CommandInv, UNCHANGED agent, NEW k \in Conns
  PROVE  /\ Disconnect(k) => CommandInv'
         /\ Receive(k) => CommandInv'
  <1>1. CASE Disconnect(k)
    BY <1>1, EndHandlerStep DEF Disconnect
  <1>2. CASE Receive(k)
    <2>1. PICK e : e = Head(up[k])
      OBVIOUS
    <2>2. \/ BlockLoop
          \/ /\ status' = [status EXCEPT ![e.cmd] = e.status]
             /\ signalled' = IF e.status \in Terminal /\ e.cmd \in waiters
                             THEN signalled \cup {e.cmd} ELSE signalled
             /\ up' = [up EXCEPT ![k] = Tail(up[k])]
             /\ UNCHANGED <<open, down, overdue, txn, registry, handler, backlog, agentRow,
                            openRows, submitter, waiters, sweep, loop>>
          \/ EndHandler(k) /\ open' = open \ {k} /\ down' = down
      BY <1>2, <2>1 DEF Receive
    <2>3. up[k] # <<>>
      BY <1>2 DEF Receive
    <2>4. CASE EndHandler(k) /\ open' = open \ {k} /\ down' = down
      BY <2>4, EndHandlerStep
    <2> QED
      BY ZenonT(30), <2>1, <2>2, <2>3, <2>4, BlockStep, RecordEventStep
  <1> QED
    BY <1>1, <1>2

-----------------------------------------------------------------------------
(* The steps of both *)

INSTANCE FiniteSetTheorems

\* What deliver_pending_commands reads is a list of the pending commands.
LEMMA PendingQueue ==
  ASSUME NEW queue \in Bijection(1..Cardinality(Pending), Pending), Pending # {}
  PROVE  queue \in Seq(Commands) /\ queue # <<>>
  <1>1. Pending \subseteq Commands
    BY DEF Pending
  <1>2. IsFiniteSet(Pending)
    BY <1>1, ChannelConstants, FS_Subset
  <1>3. Cardinality(Pending) \in Nat /\ Cardinality(Pending) # 0
    BY <1>2, FS_CardinalityType, FS_EmptySet
  <1>4. queue \in [1..Cardinality(Pending) -> Pending]
    BY DEF Bijection, Injection
  <1>5. queue \in Seq(Pending) /\ Len(queue) = Cardinality(Pending)
    BY <1>3, <1>4
  <1> QED
    BY <1>1, <1>3, <1>5

LEMMA ConnectStep ==
  ASSUME CommandInv, NEW k \in Conns, Connect(k)
  PROVE  CommandInv'
  <1>0. UNCHANGED <<handling, journal, inFlight, job, ran>> /\ conn' \in Conns
    BY DEF Connect, Dialled
  <1>1. /\ open' = open \cup {k} /\ registry' = k /\ agentRow' = "connected"
        /\ openRows' = openRows \cup {k}
        /\ UNCHANGED <<up, overdue, status, txn, submitter, waiters, signalled, sweep, loop>>
    BY DEF Connect, Accept
  <1>2. /\ handler' \in [Conns -> {"none", "delivering", "receiving", "gone"}]
        /\ backlog' \in [Conns -> Seq(Commands)]
        /\ down' \in [Conns -> Seq(Commands)]
        /\ \A l \in Conns : handler'[l] = "delivering" => backlog'[l] # <<>>
    <2>1. CASE Pending = {}
      <3>1. handler' = [handler EXCEPT ![k] = "receiving"] /\ UNCHANGED <<down, backlog>>
        BY <2>1 DEF Connect, Accept
      <3> QED
        BY <3>1, LinkTypes
    <2>2. CASE Pending # {}
      <3>1. PICK queue \in Bijection(1..Cardinality(Pending), Pending) :
                /\ handler' = [handler EXCEPT ![k] = "delivering"]
                /\ backlog' = [backlog EXCEPT ![k] = queue]
                /\ down' = [down EXCEPT ![k] = <<Head(queue)>>]
        BY <2>2 DEF Connect, Accept
      <3>2. queue \in Seq(Commands) /\ queue # <<>>
        BY <2>2, PendingQueue
      <3>3. Head(queue) \in Commands
        BY <3>2, TailElements
      <3>4. <<Head(queue)>> \in Seq(Commands)
        BY <3>3
      <3> QED
        BY <3>1, <3>2, <3>4, LinkTypes
    <2> QED
      BY <2>1, <2>2
  <1>3. ChannelTypeOK' /\ EventsShrink
    BY <1>1, <1>2, LinkTypes DEF ChannelTypeOK, EventsShrink
  <1>4. LinkTypeOK'
    BY ZenonT(30), <1>1, <1>2, LinkTypes DEF LinkTypeOK
  <1>5. PlaneInv'
    BY ZenonT(30), <1>1 DEF CommandInv, PlaneInv, UpdatesAreOwn, WaitersAreKept, NoLostSignal
  <1>6. StatusIsBacked'
    BY <1>0, <1>1, StatusKept
  <1>7. (sweep \in [phase : {"idle", "writing"},
                    todo : SUBSET [cmd : Commands, to : {"expired", "timed_out"}]])'
    BY <1>1, LinkTypes
  <1> QED
    BY <1>0, <1>2, <1>3, <1>4, <1>5, <1>6, <1>7, PlaneStep

\* A step of the channel alone.
LEMMA ChannelStep ==
  ASSUME CommandInv, UNCHANGED <<agent, plane>>, ChannelTypeOK', EventsShrink
  PROVE  CommandInv'
  <1>1. ExecutorTypeOK' /\ (handling # Idle => conn \in Conns)'
    BY DEF CommandInv, Types, TypeOK, ExecutorTypeOK, agent
  <1>2. AgentInv'
    BY DEF CommandInv, AgentInv, InFlightIsKept, OneJobPerCommand, JournaledFirst, At,
           Executing, Active, agent
  <1>3. Kept
    BY KeptAlways DEF agent
  <1>4. EventsAreBacked'
    BY <1>3, ShrinkKeepsEvents DEF CommandInv, Types, TypeOK
  <1> QED
    BY <1>1, <1>2, <1>3, <1>4, AgentStep

LEMMA NetworkAndClock ==
  ASSUME CommandInv
  PROVE  /\ \A k \in Conns : Break(k) => CommandInv'
         /\ \A c \in Commands : Expire(c) => CommandInv'
         /\ UNCHANGED vars => CommandInv'
  <1>0. ChannelTypeOK
    BY LinkTypes
  <1>1. ASSUME NEW k \in Conns, Break(k) PROVE CommandInv'
    <2>1. ChannelTypeOK' /\ EventsShrink
      BY <1>0, <1>1, CutTypes DEF Break
    <2> QED
      BY <1>1, <2>1, ChannelStep DEF Break
  <1>2. ASSUME NEW c \in Commands, Expire(c) PROVE CommandInv'
    <2>1. ChannelTypeOK' /\ EventsShrink
      BY <1>0, <1>2 DEF Expire, ChannelTypeOK, EventsShrink
    <2> QED
      BY <1>2, <2>1, ChannelStep DEF Expire
  <1>3. ASSUME UNCHANGED vars PROVE CommandInv'
    <2>1. UNCHANGED <<agent, plane>> /\ UNCHANGED <<open, down, up, overdue>>
      BY <1>3 DEF vars, channel
    <2>2. ChannelTypeOK' /\ EventsShrink
      BY <1>0, <2>1 DEF ChannelTypeOK, EventsShrink
    <2> QED
      BY <2>1, <2>2, ChannelStep
  <1> QED
    BY <1>1, <1>2, <1>3

LEMMA RestartPlaneStep ==
  ASSUME CommandInv, UNCHANGED agent, RestartPlane
  PROVE  CommandInv'
  <1>0. UNCHANGED <<handling, journal, inFlight, job, ran, conn>>
    BY DEF agent
  <1>1. /\ open' = {} /\ up' = [k \in Conns |-> <<>>] /\ txn' = {} /\ registry' = NoConn
        /\ handler' = [k \in Conns |-> IF handler[k] = "none" THEN "none" ELSE "gone"]
        /\ backlog' = [k \in Conns |-> <<>>]
        /\ waiters' = {} /\ signalled' = {} /\ sweep' = SweepIdle /\ loop' = "running"
        /\ UNCHANGED <<down, overdue, status, agentRow, openRows>>
    BY DEF RestartPlane
  <1>2. /\ submitter' \in Submitters
        /\ \A c \in Commands : submitter'[c].phase \notin {"sending", "waiting"}
    <2>1. submitter \in Submitters
      BY LinkTypes DEF LinkTypeOK, Submitters
    <2>2. submitter' = [c \in Commands |-> IF submitter[c].phase \in {"sending", "waiting"}
                                           THEN [phase |-> "raised"] ELSE submitter[c]]
      BY DEF RestartPlane
    <2> QED
      BY <2>1, <2>2 DEF Submitters
  <1>3. <<>> \in Seq(Event) /\ <<>> \in Seq(Commands) /\ DOMAIN <<>> = {}
    OBVIOUS
  <1>4. ChannelTypeOK' /\ EventsShrink
    BY <1>1, <1>3, LinkTypes DEF ChannelTypeOK, EventsShrink
  <1>5. /\ handler' \in [Conns -> {"none", "delivering", "receiving", "gone"}]
        /\ \A l \in Conns : handler'[l] # "delivering"
    BY <1>1
  <1>6. sweep' \in Sweeps
    BY <1>1 DEF Sweeps, SweepIdle
  <1>7. LinkTypeOK'
    <2>1. sweep'.phase \in {"idle", "writing"}
          /\ sweep'.todo \subseteq [cmd : Commands, to : {"expired", "timed_out"}]
      BY <1>6 DEF Sweeps
    <2> QED
      BY <1>1, <1>2, <1>3, <1>5, <2>1, LinkTypes DEF LinkTypeOK, Submitters
  <1>8. PlaneInv'
    BY <1>1, <1>2 DEF PlaneInv, UpdatesAreOwn, WaitersAreKept, NoLostSignal
  <1>9. StatusIsBacked'
    BY <1>0, <1>1, StatusKept
  <1> QED
    BY <1>0, <1>4, <1>5, <1>6, <1>7, <1>8, <1>9, PlaneStep DEF Sweeps

----------------------------------------------------------------------------

LEMMA InitHolds ==
  ASSUME Init
  PROVE  CommandInv
  <1> USE DEF Init, ChannelInit, ExecutorInit, LinkInit
  <1>1. <<>> \in Seq(Event) /\ <<>> \in Seq(Commands) /\ DOMAIN <<>> = {}
    OBVIOUS
  <1>2. ChannelTypeOK
    BY <1>1 DEF ChannelTypeOK
  <1>3. ExecutorTypeOK
    BY DEF ExecutorTypeOK
  <1>4. LinkTypeOK
    BY <1>1 DEF LinkTypeOK, SweepIdle
  <1>5. Types
    BY <1>2, <1>3, <1>4 DEF Types, TypeOK, SweepIdle
  <1>6. \A c \in Commands, n \in Runs : job[c][n] = NoJob /\ ~Executing(c, n)
    BY DEF NoJob, Executing, ActivePhases
  <1>7. \A c \in Commands : ~At("accepted", c) /\ ~At("journaled", c)
    BY DEF At, Idle
  <1>8. AgentInv
    BY <1>6, <1>7 DEF AgentInv, InFlightIsKept, JournaledFirst, OneJobPerCommand, Active,
                      Executing
  <1>9. PlaneInv
    BY DEF PlaneInv, UpdatesAreOwn, WaitersAreKept, NoLostSignal
  <1>10. StatusIsBacked /\ EventsAreBacked
    BY <1>1 DEF StatusIsBacked, EventsAreBacked, Backed
  <1> QED
    BY <1>5, <1>8, <1>9, <1>10 DEF CommandInv

LEMMA StepHolds ==
  ASSUME CommandInv, [Next]_vars
  PROVE  CommandInv'
  <1>1. CASE LinkStep /\ UNCHANGED agent
    BY <1>1, SubmitSteps, DeliverStep, DeliverRaisesStep, SocketSteps, SweepSteps DEF LinkStep
  <1>2. CASE ExecutorStep /\ UNCHANGED plane
    BY <1>2, ReadLoop, RecordStep, AcknowledgeStep, Goroutine DEF ExecutorStep
  <1>3. CASE \E k \in Conns : Connect(k) \/ Break(k)
    BY <1>3, ConnectStep, NetworkAndClock
  <1>4. CASE \E c \in Commands : Expire(c)
    BY <1>4, NetworkAndClock
  <1>5. CASE RestartPlane /\ UNCHANGED agent
    BY <1>5, RestartPlaneStep
  <1>6. CASE RestartAgent /\ UNCHANGED plane
    BY <1>6, RestartAgentStep
  <1>7. CASE UNCHANGED vars
    BY <1>7, NetworkAndClock
  <1> QED
    BY <1>1, <1>2, <1>3, <1>4, <1>5, <1>6, <1>7 DEF Next

\* Every reachable state satisfies the inductive invariant, the types included:
\* a handler that takes the head of its backlog has one, and the Agent's read
\* loop that answers has a connection.
THEOREM Invariance == Spec => []CommandInv
  <1>1. Init => CommandInv
    BY InitHolds
  <1>2. CommandInv /\ [Next]_vars => CommandInv'
    BY StepHolds
  <1> QED
    BY <1>1, <1>2, PTL DEF Spec

\* The inFlight guard of agent.go, for any number of commands, connections and
\* redeliveries: a command has at most one running execute goroutine.
THEOREM OneExecution == Spec => []OneJobPerCommand
  <1>1. CommandInv => OneJobPerCommand
    BY DEF CommandInv, AgentInv
  <1> QED
    BY <1>1, Invariance, PTL

\* Whatever the Control Plane shows as acknowledged, or is about to be told of,
\* is in the fsynced journal, after any crash of either side.
THEOREM JournaledBeforeAcknowledged == Spec => []AcknowledgedIsJournaled
  <1>1. CommandInv => AcknowledgedIsJournaled
    BY DEF CommandInv, StatusIsBacked, EventsAreBacked, Backed, AcknowledgedIsJournaled
  <1> QED
    BY <1>1, Invariance, PTL

\* agent_commands.status is succeeded or failed only if an execution of that
\* command ended so, whatever was redelivered, restarted, lost or swept.
THEOREM RealResults == Spec => []ResultsAreReal
  <1>1. CommandInv => ResultsAreReal
    BY DEF CommandInv, StatusIsBacked, Backed, Done, ResultsAreReal
  <1> QED
    BY <1>1, Invariance, PTL

\* A caller of submit_command_and_wait that still waits was signalled if its
\* command has a result.
THEOREM SignalIsNotLost == Spec => []NoLostSignal
  <1>1. CommandInv => NoLostSignal
    BY DEF CommandInv, PlaneInv
  <1> QED
    BY <1>1, Invariance, PTL
============================================================================
