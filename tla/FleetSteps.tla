---------------------------- MODULE FleetSteps -----------------------------
(***************************************************************************)
(* The inductive invariant of ApplicationOperations, for any number of     *)
(* ports, replicas, rows and releases, what rows, reloads and answers of   *)
(* the agent do to it, and the steps of deployments, restarts and stops,   *)
(* of late effects and of the recovery.  FleetSwitches and FleetProofs     *)
(* have the others.                                                        *)
(***************************************************************************)
EXTENDS ApplicationOperations, TLAPS

Row ==
    [status : InstanceStatus, rel : 0..MaxReleases, port : Ports,
     attempts : 0..MaxRestarts, tried : BOOLEAN]

Pcs == AwaitsStart \cup AwaitsStop \cup AwaitsSync \cup AwaitsElse

Op ==
    [pc : Pcs, row : Nat, todo : Seq(Nat), new : Seq(Nat), rel : 0..MaxReleases,
     before : Nat, was : SUBSET Ports, left : Nat, ok : BOOLEAN,
     sent : SUBSET Ports]

ReleaseStatus == {"building", "ready", "failed", "pruned"}

Types ==
    /\ rows \in Seq(Row)
    /\ rels \in Seq(ReleaseStatus)
    /\ Len(rels) <= MaxReleases
    /\ active \in 0..Len(rels)
    /\ desired \in 1..MaxReplicas
    /\ dep \in DeploymentStatus
    /\ op \in Op
    /\ proc \in [Ports -> Nat]
    /\ late \subseteq {"start", "stop"} \X Nat
    /\ routed \subseteq Ports
    /\ inflight \subseteq SUBSET Ports

\* The partial unique index on the port.
PortsApart ==
    \A i, j \in Rows :
      i # j /\ rows[i].status \notin Dead /\ rows[j].status \notin Dead
        => rows[i].port # rows[j].port

-----------------------------------------------------------------------------
(* What an operation has in hand, by where it is. *)

StartingAt ==
    {"deploy_start", "up_start", "up_health", "gate_start", "gate_health",
     "replace_start", "replace_health"}
RestartingAt == {"restart_sync", "restart_start", "heal_start", "heal_health"}
StoppingAt == {"stop_sync", "stop_stop"}
HealingAt == {"heal_sync", "heal"}
DrainingAt == {"down_sync", "down_stop", "drain_stop"}
GatingAt == {"switch_build", "gate_next", "gate_start", "gate_health", "switch_sync"}

RowFits ==
    /\ op.pc = "deploy_build" => op.row \in Rows /\ rows[op.row].status = "pending"
    /\ op.pc \in StartingAt => op.row \in Rows /\ rows[op.row].status = "starting"
    /\ op.pc \in RestartingAt => op.row \in Rows /\ rows[op.row].status = "restarting"
    /\ op.pc \in StoppingAt => op.row \in Rows /\ rows[op.row].status = "draining"
    /\ op.pc \in HealingAt =>
         op.row \in Rows /\ rows[op.row].status \notin {"running", "pending"}
    /\ op.pc = "replace" => op.row \in Rows /\ rows[op.row].status = "failed"
    /\ polled # 0 => polled \in Rows /\ rows[polled].status # "pending"

Listed(list, status) ==
    /\ \A k \in DOMAIN list : list[k] \in Rows /\ rows[list[k]].status = status
    /\ \A k, l \in DOMAIN list : list[k] = list[l] => k = l

ListsFit ==
    /\ op.pc \in DrainingAt => op.todo # <<>> /\ Listed(op.todo, "draining")
    /\ op.pc = "abort_stop" => op.todo # <<>> /\ Listed(op.todo, "running")
    /\ op.pc \in GatingAt => Listed(op.new, "running")

BuildingAt == {"deploy_build", "switch_build"}
BuiltAt ==
    {"deploy_start", "gate_next", "gate_start", "gate_health", "switch_sync",
     "drain"}
SwitchingAt ==
    {"switch_build", "gate_next", "gate_start", "gate_health", "abort_stop",
     "switch_sync"}

Ready(r) == r \in DOMAIN rels /\ rels[r] = "ready"

ReleasesFit ==
    /\ active # 0 => Ready(active)
    /\ op.pc \in BuildingAt => op.rel \in DOMAIN rels /\ op.rel # active
    /\ op.pc \in BuiltAt => Ready(op.rel)
    /\ op.pc \in SwitchingAt => Ready(op.before) /\ op.before # op.rel
    /\ op.pc \in SwitchingAt \ {"switch_sync"} => active = op.before
    /\ op.pc \in {"switch_sync", "drain"} => active = op.rel
    /\ op.pc = "drain" => op.before # op.rel

\* A scale counts the replicas that are still to come.
ScalingAt ==
    {"up_next", "up_start", "up_health", "scale_done", "scale_sync",
     "down_sync", "down_stop"}

CountFits ==
    /\ op.pc \in ScalingAt => dep = "in_progress"
    /\ op.pc = "up_next" /\ op.ok => Cardinality(Live) + op.left = desired
    /\ op.pc \in {"up_start", "up_health", "gate_start", "gate_health"} => op.left > 0
    /\ op.pc \in {"up_start", "up_health"} /\ op.ok
         => Cardinality(Live) + op.left = desired + 1
    /\ op.pc \in {"scale_done", "down_sync", "down_stop"} /\ op.ok
         => Cardinality(Live) = desired
    /\ op.pc = "scale_sync" => Cardinality(Live) = desired

-----------------------------------------------------------------------------
(* What holds when some faults do not happen. *)

\* Every reload is applied or refused before its operation goes on, and the
\* control plane is not restarted: the upstream stays as it was in a switch.
Orderly == Faults \cap {"gateway_late", "manual_sync", "crash"} = {}

Unmoved ==
    /\ inflight = {}
    /\ op.pc \in SwitchingAt => routed = op.was

\* Every command is answered, and an instance can be stopped.
Answered == Faults \cap {"late", "stop_fails", "crash"} = {}

\* The process is started before its health is waited for.
StartedAt == {"up_health", "gate_health", "heal_health", "replace_health"}

Own ==
    /\ late = {}
    /\ OwnProcess
    /\ op.pc \in StartedAt => proc[rows[op.row].port] = op.row

\* Instances pass their health checks and can be stopped.
Decisive == Faults \cap {"unhealthy", "stop_fails", "late"} = {}

InDeploymentAt ==
    ScalingAt \cup
    {"deploy_build", "deploy_start", "switch_build", "gate_next", "gate_start",
     "gate_health", "abort_stop", "switch_sync", "drain", "drain_stop", "prune"}

\* The operation has taken row i on itself.
Busy(i) ==
    \/ op.pc \in StartingAt \cup RestartingAt \cup StoppingAt /\ i = op.row
    \/ op.pc \in DrainingAt /\ \E k \in DOMAIN op.todo : i = op.todo[k]

Underway ==
    /\ dep = "in_progress" => op.pc \in InDeploymentAt
    /\ \A i \in Rows : rows[i].status \in Transient => Busy(i)

\* A first deploy that was interrupted has left its row.
PendingLeft ==
    \E i \in Rows : /\ rows[i].status = "pending"
                    /\ ~(op.pc = "deploy_build" /\ i = op.row)

\* Only builds, starts and health checks fail, and agents disconnect.
Calm == Faults \subseteq {"build_fails", "start_fails", "unhealthy", "agent_gone"}

\* The instance is in the upstream that _build_reload_payload computes.
Serves(i) == rows[i].status = "running" /\ active \in {0, rows[i].rel}

\* The reload that takes an instance out, or the new release in, is under way.
BehindAt == {"deploy_sync", "switch_sync", "heal_sync", "restart_sync"}

\* It has been applied.
CurrentAt ==
    {"heal", "heal_start", "heal_health", "replace", "replace_start",
     "replace_health", "restart_start", "stop_stop", "down_stop", "drain",
     "drain_stop"}

RouteFits(p, i) ==
    /\ i \in Rows
    /\ rows[i].port = p
    /\ rows[i].status \in {"running", "unhealthy", "restarting", "draining"}
    /\ op.pc \notin BehindAt => Serves(i) \/ rows[i].status = "draining"
    /\ op.pc \in CurrentAt => Serves(i)
    /\ op.pc \in GatingAt => \A k \in DOMAIN op.new : op.new[k] # i
    /\ op.pc = "abort_stop" => \A k \in DOMAIN op.todo : op.todo[k] # i

RoutesFit ==
    /\ \A p \in routed : RouteFits(p, proc[p])
    /\ op.pc \in AwaitsSync =>
         \A p \in op.sent : proc[p] \in Rows /\ rows[proc[p]].port = p /\ Serves(proc[p])

FleetInv ==
    /\ Types /\ PortsApart /\ RowFits /\ ListsFit /\ ReleasesFit /\ CountFits
    /\ Orderly => Unmoved
    /\ Answered => Own
    /\ Decisive => PendingLeft \/ Underway
    /\ Calm => RoutesFit
-----------------------------------------------------------------------------
(* Counting.  FleetProofs shows it of every set of numbers. *)

\* What the steps use of the size of a set of rows, releases or ports.
Sized(s) ==
    /\ Cardinality(s) \in Nat
    /\ s # {} => /\ Cardinality(s) # 0
                 /\ \E i \in s : \A j \in s : i <= j
                 /\ \E i \in s : \A j \in s : j <= i
    /\ \A i \in Nat \ s : Cardinality(s \cup {i}) = Cardinality(s) + 1

\* What is taken away from a set counts.
Divided(s) ==
    \A d \in SUBSET s :
      /\ Cardinality(d) \in 0..Cardinality(s)
      /\ Cardinality(d) = Cardinality(s) => d = s
      /\ Cardinality(s \ d) = Cardinality(s) - Cardinality(d)

\* The list has n members of the set, each once.
ListsOf(list, s, n) ==
    /\ list \in [1..n -> s]
    /\ \A k, l \in 1..n : list[k] = list[l] => k = l
    /\ Cardinality({list[k] : k \in 1..n}) = n

NewestListed(s) == \A n \in 0..Cardinality(s) : ListsOf(NewestFirst(s, n), s, n)

Counting ==
    \A n \in Nat : \A s \in SUBSET (1..n) : Sized(s) /\ Divided(s) /\ NewestListed(s)
-----------------------------------------------------------------------------
(* What the operators on rows do. *)

\* Row i moves to status s, keeps its port and its release; no other row changes.
Moves(i, s) ==
    /\ rows' \in Seq(Row)
    /\ Len(rows') = Len(rows)
    /\ rows'[i].status = s
    /\ \A j \in Rows : /\ rows'[j].port = rows[j].port
                       /\ rows'[j].rel = rows[j].rel
                       /\ j # i => rows'[j] = rows[j]

LEMMA SetMoves ==
  ASSUME Types, NEW i \in Rows, NEW s \in InstanceStatus, rows' = Set(i, s)
  PROVE  Moves(i, s)
  <1>1. rows \in Seq(Row) /\ rows[i] \in Row
    BY DEF Types, Rows
  <1>2. PICK row : row = [rows[i] EXCEPT !.status = s]
    BY ZenonT(30)
  <1>3. row \in Row /\ row.status = s /\ row.port = rows[i].port /\ row.rel = rows[i].rel
    BY ZenonT(30), <1>1, <1>2 DEF Row
  <1>4. rows' = [rows EXCEPT ![i] = row]
    BY <1>2 DEF Set
  <1> QED
    BY <1>1, <1>3, <1>4 DEF Rows, Moves

LEMMA FreePort ==
  ASSUME Counting, Types, FreePorts # {},
         NEW p, p = CHOOSE x \in FreePorts : \A y \in FreePorts : x <= y
  PROVE  /\ p \in Ports
         /\ \A j \in Rows : rows[j].status \notin Dead => rows[j].port # p
  <1>1. NPorts \in Nat /\ FreePorts \in SUBSET (1..NPorts)
    BY FleetConstants DEF FreePorts, Ports
  <1>2. Sized(FreePorts)
    BY <1>1 DEF Counting
  <1>3. \E x \in FreePorts : \A y \in FreePorts : x <= y
    BY <1>2 DEF Sized
  <1>4. p \in FreePorts
    BY <1>3
  <1> QED
    BY <1>4 DEF FreePorts

LEMMA AllocateRow ==
  ASSUME Counting, Types, FreePorts # {}, NEW rel \in 0..MaxReleases, NEW s \in InstanceStatus,
         NEW attempts \in 0..MaxRestarts, rows' = Allocated(rel, s, attempts)
  PROVE  /\ rows' \in Seq(Row)
         /\ Len(rows') = Len(rows) + 1
         /\ Len(rows) + 1 \in Nat
         /\ rows'[Len(rows) + 1].status = s
         /\ rows'[Len(rows) + 1].rel = rel
         /\ \A j \in Rows : rows'[j] = rows[j]
         /\ \A j \in Rows : rows[j].status \notin Dead => rows[j].port # rows'[Len(rows) + 1].port
  <1>1. PICK p : p = CHOOSE x \in FreePorts : \A y \in FreePorts : x <= y
    OBVIOUS
  <1>2. PICK row : row = [status |-> s, rel |-> rel, attempts |-> attempts, tried |-> FALSE,
                          port |-> p]
    BY ZenonT(30)
  <1>3. p \in Ports /\ \A j \in Rows : rows[j].status \notin Dead => rows[j].port # p
    BY <1>1, FreePort
  <1>4. row \in Row /\ row.status = s /\ row.port = p /\ row.rel = rel
    BY <1>2, <1>3 DEF Row
  <1>5. rows' = Append(rows, row)
    BY <1>1, <1>2 DEF Allocated
  <1>6. rows \in Seq(Row)
    BY DEF Types
  <1> QED
    BY <1>3, <1>4, <1>5, <1>6 DEF Rows

\* A port is given up with a row, never taken.
LEMMA PortsKept ==
  ASSUME Types, PortsApart, Len(rows') = Len(rows),
         \A j \in Rows : /\ rows'[j].port = rows[j].port
                         /\ rows'[j].status \notin Dead => rows[j].status \notin Dead
  PROVE  PortsApart'
  BY DEF PortsApart, Rows

LEMMA PortsKeptByMove ==
  ASSUME Types, PortsApart, NEW i \in Rows, NEW s, Moves(i, s),
         s \notin Dead => rows[i].status \notin Dead
  PROVE  PortsApart'
  BY PortsKept DEF Moves

LEMMA PortsKeptByAllocation ==
  ASSUME Counting, Types, PortsApart, FreePorts # {}, NEW rel \in 0..MaxReleases,
         NEW s \in InstanceStatus, NEW attempts \in 0..MaxRestarts,
         rows' = Allocated(rel, s, attempts)
  PROVE  PortsApart'
  <1>1. rows \in Seq(Row)
    BY DEF Types
  <1> QED
    BY <1>1, AllocateRow DEF PortsApart, Rows

LEMMA UpstreamPorts ==
  ASSUME NEW r, rows \in Seq(Row)
  PROVE  Upstreams(rows, r) \subseteq Ports
  <1>1. \A i \in DOMAIN rows : rows[i] \in Row
    OBVIOUS
  <1>2. \A i \in DOMAIN rows : rows[i].port \in Ports
    BY <1>1 DEF Row
  <1> QED
    BY <1>2 DEF Upstreams

LEMMA UpstreamPortsNext ==
  ASSUME NEW r, rows' \in Seq(Row)
  PROVE  Upstreams(rows', r) \subseteq Ports
  <1>1. \A i \in DOMAIN rows' : rows'[i] \in Row
    OBVIOUS
  <1>2. \A i \in DOMAIN rows' : rows'[i].port \in Ports
    BY <1>1 DEF Row
  <1> QED
    BY <1>2 DEF Upstreams

LEMMA AgentTypes ==
  ASSUME Types, NEW type \in {"start", "stop"}, NEW i \in Nat, NEW reply,
         AgentReplies(type, i, reply)
  PROVE  proc' \in [Ports -> Nat] /\ late' \subseteq {"start", "stop"} \X Nat
  BY DEF AgentReplies, Attempts, Done, Types

LEMMA GatewayTypes ==
  ASSUME Types, NEW reply, GatewayReplies(reply)
  PROVE  routed' \subseteq Ports /\ inflight' \subseteq SUBSET Ports
  <1>1. op.sent \in SUBSET Ports
    BY DEF Types, Op
  <1> QED
    BY <1>1 DEF GatewayReplies, Types, gateway
-----------------------------------------------------------------------------
(* What the invariant asks of an operation elsewhere. *)

USE DEF StartingAt, RestartingAt, StoppingAt, HealingAt, DrainingAt, GatingAt,
        BuildingAt, BuiltAt, SwitchingAt, ScalingAt, StartedAt, BehindAt, CurrentAt

LEMMA RowTypes ==
  ASSUME Types, NEW i \in Rows
  PROVE  /\ rows[i] \in Row /\ rows[i].status \in InstanceStatus /\ rows[i].port \in Ports
         /\ rows[i].rel \in 0..MaxReleases /\ rows[i].attempts \in 0..MaxRestarts
  <1>1. rows[i] \in Row
    BY DEF Types, Rows
  <1> QED
    BY <1>1 DEF Row

LEMMA IdleFields ==
  /\ Idle \in Op /\ Idle.pc = "idle" /\ Idle.row = 0 /\ Idle.todo = <<>> /\ Idle.new = <<>>
  /\ Idle.rel = 0 /\ Idle.before = 0 /\ Idle.was = {} /\ Idle.left = 0 /\ Idle.ok = TRUE
  /\ Idle.sent = {}
  BY FleetConstants DEF Idle, Op, Pcs, AwaitsElse

\* No row becomes PENDING, and none disappears.
RowsStay ==
    /\ Len(rows) <= Len(rows')
    /\ \A i \in Rows : rows'[i].status = "pending" => rows[i].status = "pending"

LEMMA PolledKept ==
  ASSUME Types, RowFits, RowsStay, polled' \in {0, polled}, rows' \in Seq(Row)
  PROVE  polled' # 0 => polled' \in Rows' /\ rows'[polled'].status # "pending"
  BY DEF RowFits, RowsStay, Types, Rows

LEMMA IdleFits ==
  ASSUME Types, RowFits, RowsStay, polled' \in {0, polled}, rows' \in Seq(Row), op' = Idle
  PROVE  op' \in Op /\ RowFits' /\ ListsFit' /\ CountFits'
  <1>1. op'.pc = "idle" /\ op' \in Op
    BY IdleFields
  <1>2. polled' # 0 => polled' \in Rows' /\ rows'[polled'].status # "pending"
    BY PolledKept
  <1> QED
    BY <1>1, <1>2 DEF RowFits, ListsFit, CountFits

\* Releases are the matter of deployments and switches alone.
LEMMA ReleasesKept ==
  ASSUME ReleasesFit, UNCHANGED <<rels, active>>,
         op'.pc \notin BuildingAt \cup BuiltAt \cup SwitchingAt
  PROVE  ReleasesFit'
  BY DEF ReleasesFit, Ready

LEMMA UnmovedKept ==
  ASSUME Orderly => Unmoved, UNCHANGED gateway,
         op'.pc \in SwitchingAt => op.pc \in SwitchingAt /\ op'.was = op.was
  PROVE  Orderly => Unmoved'
  BY DEF Unmoved, gateway

LEMMA AnsweredSync ==
  ASSUME Orderly => Unmoved, NEW reply \in SyncReplies, GatewayReplies(reply), Orderly
  PROVE  inflight' = {}
  BY DEF Unmoved, gateway, GatewayReplies, SyncReplies, Orderly

\* The agent's answers, by the faults.
LEMMA AgentAnswers ==
  ASSUME NEW type \in {"build", "start", "stop"}, NEW reply \in Replies(type)
  PROVE  /\ reply \in {"ok", "failed", "late"}
         /\ reply = "late" => "late" \in Faults
         /\ type = "stop" /\ reply = "failed" => "stop_fails" \in Faults
  BY DEF Replies, FaultOf

LEMMA AgentAnswersInTime ==
  ASSUME NEW type \in {"start", "stop"}, NEW i \in Nat, NEW reply \in Replies(type),
         AgentReplies(type, i, reply), Answered => Own
  PROVE  Answered => late' = {}
  BY AgentAnswers DEF Own, Answered, AgentReplies

\* An answer concerns the row's own port.
LEMMA AgentTouches ==
  ASSUME Types, NEW type \in {"start", "stop"}, NEW i \in Rows, NEW reply,
         AgentReplies(type, i, reply)
  PROVE  /\ \A p \in Ports : p # rows[i].port => proc'[p] = proc[p]
         /\ type = "start" /\ reply = "ok" => proc'[rows[i].port] = i
  <1>1. rows[i].port \in Ports
    BY RowTypes
  <1> QED
    BY <1>1 DEF Types, AgentReplies, Attempts, Done

LEMMA OwnTouched ==
  ASSUME Types, PortsApart, OwnProcess, rows' \in Seq(Row),
         NEW i \in Rows, rows[i].status \notin Dead,
         \A p \in Ports : p # rows[i].port => proc'[p] = proc[p],
         \A j \in Rows' : rows'[j].status = "running" =>
           /\ j \in Rows /\ rows'[j].port = rows[j].port
           /\ j # i => rows[j].status = "running"
           /\ j = i => proc'[rows[i].port] = i
  PROVE  OwnProcess'
  <1> SUFFICES ASSUME NEW j \in Rows', rows'[j].status = "running"
               PROVE  proc'[rows'[j].port] = j
    BY DEF OwnProcess
  <1>1. j \in Rows /\ rows'[j].port = rows[j].port /\ rows[j].port \in Ports
    BY RowTypes
  <1>2. CASE j = i
    BY <1>1, <1>2
  <1>3. CASE j # i
    <2>1. rows[j].status = "running"
      BY <1>3
    <2>2. rows[j].port # rows[i].port
      BY <1>1, <1>3, <2>1 DEF PortsApart, Dead
    <2> QED
      BY <1>1, <2>1, <2>2 DEF OwnProcess
  <1> QED
    BY <1>2, <1>3

LEMMA OwnKept ==
  ASSUME OwnProcess, proc' = proc,
         \A j \in Rows' : rows'[j].status = "running" =>
           /\ j \in Rows /\ rows'[j].port = rows[j].port
           /\ rows[j].status = "running" \/ proc[rows[j].port] = j
  PROVE  OwnProcess'
  BY DEF OwnProcess

\* A row a crash has left PENDING stays so.
LEMMA PendingStays ==
  ASSUME PendingLeft, op'.pc # "deploy_build", Len(rows) <= Len(rows'), rows \in Seq(Row),
         rows' \in Seq(Row),
         \A i \in Rows : rows[i].status = "pending" /\ ~(op.pc = "deploy_build" /\ i = op.row)
                           => rows'[i].status = "pending"
  PROVE  PendingLeft'
  BY DEF PendingLeft, Rows

\* A port whose row could not be in the upstream is not routed to.
LEMMA NotRouted ==
  ASSUME Types, PortsApart, RoutesFit, NEW i \in Rows, rows[i].status \notin Dead,
         ~RouteFits(rows[i].port, i)
  PROVE  rows[i].port \notin routed
  <1> SUFFICES ASSUME rows[i].port \in routed PROVE FALSE
    OBVIOUS
  <1>1. PICK j : j = proc[rows[i].port]
    OBVIOUS
  <1>2. RouteFits(rows[i].port, j)
    BY <1>1 DEF RoutesFit
  <1>3. j \in Rows /\ rows[j].port = rows[i].port /\ rows[j].status \notin Dead
    BY <1>2 DEF RouteFits, Dead
  <1> QED
    BY <1>2, <1>3 DEF PortsApart

LEMMA RoutesKept ==
  ASSUME Types, RoutesFit, routed' = routed, active' = active,
         Len(rows) <= Len(rows'), rows' \in Seq(Row),
         op'.pc \notin BehindAt => op.pc \notin BehindAt,
         op'.pc \in CurrentAt => op.pc \in CurrentAt,
         \A p \in routed, i \in Rows : RouteFits(p, i) /\ proc[p] = i =>
           /\ proc'[p] = i
           /\ rows'[i].port = rows[i].port /\ rows'[i].status = rows[i].status
           /\ rows'[i].rel = rows[i].rel
           /\ op'.pc \in GatingAt => \A k \in DOMAIN op'.new : op'.new[k] # i
           /\ op'.pc = "abort_stop" => \A k \in DOMAIN op'.todo : op'.todo[k] # i,
         op'.pc \in AwaitsSync =>
           \A p \in op'.sent :
             proc'[p] \in Rows' /\ rows'[proc'[p]].port = p /\ Serves(proc[p])'
  PROVE  RoutesFit'
  <1>1. ASSUME NEW p \in routed' PROVE RouteFits(p, proc[p])'
    <2>1. PICK i : i = proc[p]
      OBVIOUS
    <2>2. RouteFits(p, i)
      BY <1>1, <2>1 DEF RoutesFit
    <2>3. i \in Rows /\ i \in Rows'
      BY <2>2 DEF RouteFits, Types, Rows
    <2>4. RouteFits(p, i)'
      BY <1>1, <2>1, <2>2, <2>3 DEF RouteFits, Serves
    <2>5. proc'[p] = i
      BY <1>1, <2>1, <2>2, <2>3
    <2> QED
      BY <2>4, <2>5
  <1> QED
    BY <1>1 DEF RoutesFit

\* What a reload payload names is served by the instances' own processes.
LEMMA SentIsServed ==
  ASSUME OwnProcess', rows' \in Seq(Row), op'.sent = Upstreams(rows', active')
  PROVE  \A p \in op'.sent :
           proc'[p] \in Rows' /\ rows'[proc'[p]].port = p /\ Serves(proc[p])'
  <1> SUFFICES ASSUME NEW p \in op'.sent
               PROVE  proc'[p] \in Rows' /\ rows'[proc'[p]].port = p /\ Serves(proc[p])'
    OBVIOUS
  <1>1. PICK i \in DOMAIN rows' : /\ rows'[i].status = "running" /\ rows'[i].port = p
                                  /\ active' \in {0, rows'[i].rel}
    BY DEF Upstreams
  <1>2. i \in Rows'
    BY <1>1 DEF Rows
  <1>3. proc'[p] = i
    BY <1>1, <1>2 DEF OwnProcess
  <1> QED
    BY <1>1, <1>2, <1>3 DEF Serves

\* The upstream once a reload has been applied.
LEMMA RoutesSynced ==
  ASSUME Types, RoutesFit, Calm, op.pc \in AwaitsSync, NEW reply \in SyncReplies,
         GatewayReplies(reply), UNCHANGED <<rows, active, proc>>,
         op'.pc \notin GatingAt \cup AwaitsSync \cup {"abort_stop"}
  PROVE  RoutesFit'
  <1>1. reply = "ok"
    BY DEF SyncReplies, Calm
  <1>2. routed' = op.sent
    BY <1>1 DEF GatewayReplies
  <1>3. ASSUME NEW p \in routed' PROVE RouteFits(p, proc[p])'
    <2>1. PICK i : i = proc[p]
      OBVIOUS
    <2>2. i \in Rows /\ rows[i].port = p /\ Serves(i)
      BY <1>2, <1>3, <2>1 DEF RoutesFit
    <2>3. RouteFits(p, i)'
      BY <2>2 DEF RouteFits, Serves, Rows
    <2> QED
      BY <2>1, <2>3
  <1> QED
    BY <1>3 DEF RoutesFit
-----------------------------------------------------------------------------
(* The end of a reload's wait *)

LEMMA SyncEnds ==
  ASSUME FleetInv, NEW reply \in SyncReplies, GatewayReplies(reply), op' = Idle,
         op.pc \in {"deploy_sync", "scale_sync", "healed_sync", "restarted_sync"},
         UNCHANGED <<rows, db, agent, polled>>,
         IF op.pc = "scale_sync" THEN dep' = "succeeded" ELSE dep' = dep
  PROVE  FleetInv'
  <1>0. /\ Types /\ PortsApart /\ RowFits /\ ListsFit /\ ReleasesFit /\ rows \in Seq(Row)
        /\ op'.pc = "idle"
    BY IdleFields DEF FleetInv, Types
  <1>1. RowsStay
    BY <1>0 DEF RowsStay, Rows
  <1>2. op' \in Op /\ RowFits' /\ ListsFit' /\ CountFits'
    BY <1>0, <1>1, IdleFits
  <1>3. Types'
    BY <1>0, <1>2, GatewayTypes DEF Types, db, agent, DeploymentStatus
  <1>4. PortsApart'
    BY <1>0 DEF PortsApart, Rows
  <1>5. ReleasesFit'
    BY <1>0, ReleasesKept DEF db
  <1>6. Orderly => Unmoved'
    BY <1>0, AnsweredSync DEF FleetInv, Unmoved
  <1>7. Answered => Own'
    BY <1>0 DEF FleetInv, Own, OwnProcess, Rows, agent
  <1>8. Decisive => (PendingLeft \/ Underway)'
    BY <1>0 DEF FleetInv, PendingLeft, Underway, Rows, Busy, InDeploymentAt
  <1>9. Calm => RoutesFit'
    <2> SUFFICES ASSUME Calm PROVE RoutesFit'
      OBVIOUS
    <2>1. op.pc \in AwaitsSync /\ op'.pc \notin GatingAt \cup AwaitsSync \cup {"abort_stop"}
      BY <1>0 DEF AwaitsSync
    <2> QED
      BY <1>0, <2>1, RoutesSynced DEF FleetInv, db, agent
  <1> QED
    BY <1>2, <1>3, <1>4, <1>5, <1>6, <1>7, <1>8, <1>9 DEF FleetInv

LEMMA SyncGoesOn ==
  ASSUME FleetInv, NEW reply \in SyncReplies, GatewayReplies(reply), NEW to,
         \/ op.pc = "down_sync" /\ to = "down_stop"
         \/ op.pc = "heal_sync" /\ to = "heal"
         \/ op.pc = "restart_sync" /\ to = "restart_start"
         \/ op.pc = "stop_sync" /\ to = "stop_stop",
         op' = [op EXCEPT !.pc = to], UNCHANGED <<rows, db, dep, agent, polled>>
  PROVE  FleetInv'
  <1>0. /\ Types /\ PortsApart /\ RowFits /\ ListsFit /\ ReleasesFit /\ rows \in Seq(Row)
        /\ op \in Op
    BY DEF FleetInv, Types
  <1>1. /\ op' \in Op /\ op'.pc = to /\ op'.row = op.row /\ op'.todo = op.todo
        /\ op'.ok = op.ok
    BY ZenonT(30), <1>0 DEF Op, Pcs, AwaitsStart, AwaitsStop, AwaitsElse
  <1>2. RowFits' /\ ListsFit'
    BY <1>0, <1>1 DEF RowFits, ListsFit, Listed, Rows
  <1>3. Types'
    BY <1>0, <1>1, GatewayTypes DEF Types, db, agent
  <1>4. PortsApart'
    BY <1>0 DEF PortsApart, Rows
  <1>5. ReleasesFit'
    BY <1>0, <1>1, ReleasesKept DEF db
  <1>6. Orderly => Unmoved'
    BY <1>1, AnsweredSync DEF FleetInv, Unmoved
  <1>7. Answered => Own'
    BY <1>1 DEF FleetInv, Own, OwnProcess, Rows, agent
  <1>8. Decisive => (PendingLeft \/ Underway)'
    BY <1>1 DEF FleetInv, PendingLeft, Underway, Rows, Busy, InDeploymentAt
  <1>9. Calm => RoutesFit'
    <2> SUFFICES ASSUME Calm PROVE RoutesFit'
      OBVIOUS
    <2>1. op.pc \in AwaitsSync /\ op'.pc \notin GatingAt \cup AwaitsSync \cup {"abort_stop"}
      BY <1>1 DEF AwaitsSync
    <2> QED
      BY <1>0, <2>1, RoutesSynced DEF FleetInv, db, agent
  <1>10. CountFits'
    <2>1. Live' = Live
      BY DEF Live, Rows
    <2> QED
      BY <1>1, <2>1 DEF FleetInv, CountFits, db
  <1> QED
    BY <1>1, <1>2, <1>3, <1>4, <1>5, <1>6, <1>7, <1>8, <1>9, <1>10 DEF FleetInv
-----------------------------------------------------------------------------
(* Rows that change *)

LEMMA RowMoved ==
  ASSUME FleetInv, NEW i \in Rows, NEW s \in InstanceStatus \ {"pending"}, Moves(i, s),
         s \notin Dead => rows[i].status \notin Dead
  PROVE  /\ Types /\ RowFits /\ rows \in Seq(Row) /\ rows' \in Seq(Row) /\ PortsApart /\ PortsApart'
         /\ Len(rows') = Len(rows) /\ Rows' = Rows /\ RowsStay
         /\ rows'[i].status = s
         /\ \A j \in Rows : /\ rows'[j].port = rows[j].port
                            /\ rows'[j].rel = rows[j].rel
                            /\ j # i => rows'[j] = rows[j]
  <1>1. Types /\ PortsApart /\ RowFits /\ rows \in Seq(Row)
    BY DEF FleetInv, Types
  <1>2. PortsApart'
    BY <1>1, PortsKeptByMove
  <1>3. Rows' = Rows /\ RowsStay
    BY <1>1 DEF RowsStay, Rows, Moves
  <1> QED
    BY <1>1, <1>2, <1>3 DEF Moves

LEMMA RowMarked ==
  ASSUME FleetInv, NEW i \in Rows, NEW s \in InstanceStatus \ {"pending"}, rows' = Set(i, s),
         s \notin Dead => rows[i].status \notin Dead
  PROVE  /\ Types /\ RowFits /\ rows \in Seq(Row) /\ rows' \in Seq(Row) /\ PortsApart /\ PortsApart'
         /\ Len(rows') = Len(rows) /\ Rows' = Rows /\ RowsStay
         /\ rows'[i].status = s
         /\ \A j \in Rows : /\ rows'[j].port = rows[j].port
                            /\ rows'[j].rel = rows[j].rel
                            /\ j # i => rows'[j] = rows[j]
  <1>1. Types
    BY DEF FleetInv
  <1>2. Moves(i, s)
    BY <1>1, SetMoves
  <1> QED
    BY <1>2, RowMoved

LEMMA RowAdded ==
  ASSUME Counting, FleetInv, FreePorts # {}, NEW rel \in 0..MaxReleases,
         NEW s \in InstanceStatus, NEW attempts \in 0..MaxRestarts,
         rows' = Allocated(rel, s, attempts)
  PROVE  /\ Types /\ RowFits /\ rows \in Seq(Row) /\ rows' \in Seq(Row) /\ PortsApart'
         /\ Len(rows') = Len(rows) + 1 /\ Len(rows') \in Nat
         /\ Rows' = Rows \cup {Len(rows')} /\ Len(rows') \notin Rows /\ RowsStay
         /\ rows'[Len(rows')].status = s
         /\ rows'[Len(rows')].rel = rel
         /\ \A j \in Rows : rows'[j] = rows[j]
         /\ \A j \in Rows : rows[j].status \notin Dead => rows[j].port # rows'[Len(rows')].port
  <1>1. Types /\ PortsApart /\ RowFits /\ rows \in Seq(Row)
    BY DEF FleetInv, Types
  <1>2. /\ rows' \in Seq(Row) /\ Len(rows') = Len(rows) + 1 /\ Len(rows') \in Nat
        /\ rows'[Len(rows')].status = s /\ rows'[Len(rows')].rel = rel
        /\ \A j \in Rows : rows'[j] = rows[j]
        /\ \A j \in Rows : rows[j].status \notin Dead => rows[j].port # rows'[Len(rows')].port
    BY <1>1, AllocateRow
  <1>3. PortsApart'
    BY <1>1, PortsKeptByAllocation
  <1>4. Rows' = Rows \cup {Len(rows')} /\ Len(rows') \notin Rows /\ RowsStay
    BY <1>1, <1>2 DEF RowsStay, Rows
  <1> QED
    BY <1>1, <1>2, <1>3, <1>4
\* An operation ends by giving up its instance.
LEMMA RowGivenUp ==
  ASSUME FleetInv, NEW i \in Rows, NEW s \in Dead, rows[i].status \notin Dead, Moves(i, s),
         op' = Idle, UNCHANGED <<active, desired, gateway, polled>>,
         rels' \in Seq(ReleaseStatus), Len(rels') = Len(rels), ReleasesFit',
         dep' \in DeploymentStatus,
         dep' = "in_progress" => dep' = dep /\ op.pc \notin InDeploymentAt,
         proc' \in [Ports -> Nat], late' \subseteq {"start", "stop"} \X Nat,
         Answered => late' = {},
         \A p \in Ports : p # rows[i].port => proc'[p] = proc[p],
         Calm => ~RouteFits(rows[i].port, i), op.pc \notin BehindAt,
         rows[i].status = "pending" => op.pc = "deploy_build" /\ i = op.row,
         \A j : Busy(j) => j = i
  PROVE  FleetInv'
  <1>0. s \in InstanceStatus \ {"pending"} /\ (s \notin Dead => rows[i].status \notin Dead)
        /\ s \notin Transient /\ s # "running"
    BY DEF Dead, InstanceStatus, Transient
  <1>1. /\ Types /\ RowFits /\ rows \in Seq(Row) /\ rows' \in Seq(Row) /\ PortsApart /\ PortsApart'
        /\ Len(rows') = Len(rows) /\ Rows' = Rows /\ RowsStay /\ rows'[i].status = s
        /\ \A j \in Rows : rows'[j].port = rows[j].port /\ (j # i => rows'[j] = rows[j])
    BY <1>0, RowMoved
  <1>2. op' \in Op /\ RowFits' /\ ListsFit' /\ CountFits' /\ op'.pc = "idle"
    BY <1>1, IdleFits, IdleFields
  <1>3. Types'
    BY <1>1, <1>2 DEF Types, gateway
  <1>4. Orderly => Unmoved'
    BY <1>2, UnmovedKept DEF FleetInv
  <1>5. Answered => Own'
    <2> SUFFICES ASSUME Answered PROVE Own'
      OBVIOUS
    <2>1. OwnProcess'
      BY <1>0, <1>1, OwnTouched DEF FleetInv, Own
    <2> QED
      BY <1>2, <2>1 DEF Own
  <1>6. Decisive => (PendingLeft \/ Underway)'
    <2>1. CASE PendingLeft
      <3>1. PendingLeft'
        BY <1>1, <1>2, <2>1, PendingStays
      <3> QED
        BY <3>1
    <2>2. CASE Underway
      BY ZenonT(30), <1>0, <1>1, <1>2, <2>2 DEF Underway
    <2> QED
      BY <2>1, <2>2 DEF FleetInv
  <1>7. Calm => RoutesFit'
    <2> SUFFICES ASSUME Calm PROVE RoutesFit'
      OBVIOUS
    <2>1. op'.pc \notin AwaitsSync
      BY <1>2 DEF AwaitsSync
    <2>2. RoutesFit /\ rows[i].port \notin routed
      BY <1>1, NotRouted DEF FleetInv
    <2>3. \A p \in routed, j \in Rows : RouteFits(p, j) => p \in Ports /\ p # rows[i].port /\ j # i
      BY <1>1, <2>2 DEF RouteFits, Types
    <2>4. routed' = routed
      BY DEF gateway
    <2> QED
      BY <1>1, <1>2, <2>1, <2>2, <2>3, <2>4, RoutesKept
  <1> QED
    BY <1>1, <1>2, <1>3, <1>4, <1>5, <1>6, <1>7 DEF FleetInv
\* An operation ends and leaves the statuses as they are.
LEMMA RowsLeft ==
  ASSUME FleetInv, op' = Idle, UNCHANGED <<active, desired, gateway, polled>>,
         rels' \in Seq(ReleaseStatus), Len(rels') = Len(rels), ReleasesFit',
         rows' \in Seq(Row), Len(rows') = Len(rows),
         \A j \in Rows : /\ rows'[j].status = rows[j].status /\ rows'[j].port = rows[j].port
                         /\ active \in {0, rows[j].rel} => active \in {0, rows'[j].rel},
         dep' \in DeploymentStatus,
         proc' \in [Ports -> Nat], late' \subseteq {"start", "stop"} \X Nat,
         Answered => late' = {} /\ OwnProcess',
         Calm => \A p \in routed : proc'[p] = proc[p],
         op.pc \notin BehindAt \cup {"deploy_build"},
         Decisive => /\ dep' = "in_progress" => dep' = dep /\ op.pc \notin InDeploymentAt
                     /\ \A j : ~Busy(j)
  PROVE  FleetInv'
  <1>1. /\ Types /\ RowFits /\ PortsApart /\ rows \in Seq(Row) /\ Rows' = Rows /\ RowsStay
    <2>1. Types /\ RowFits /\ PortsApart
      BY DEF FleetInv
    <2>2. rows \in Seq(Row)
      BY <2>1 DEF Types
    <2>3. Rows' = Rows
      BY <2>2 DEF Rows
    <2>4. RowsStay
      BY <2>2 DEF RowsStay
    <2> QED
      BY <2>1, <2>2, <2>3, <2>4
  <1>2. op' \in Op /\ RowFits' /\ ListsFit' /\ CountFits' /\ op'.pc = "idle"
    BY <1>1, IdleFits, IdleFields
  <1>3. Types' /\ PortsApart'
    BY <1>1, <1>2, PortsKept DEF Types, gateway
  <1>4. Orderly => Unmoved'
    BY <1>2, UnmovedKept DEF FleetInv
  <1>5. Answered => Own'
    BY <1>2 DEF Own
  <1>6. Decisive => (PendingLeft \/ Underway)'
    <2>1. CASE PendingLeft
      <3>1. PendingLeft'
        BY <1>1, <1>2, <2>1, PendingStays
      <3> QED
        BY <3>1
    <2>2. CASE Underway
      BY <1>1, <1>2, <2>2 DEF Underway
    <2> QED
      BY <2>1, <2>2 DEF FleetInv
  <1>7. Calm => RoutesFit'
    <2> SUFFICES ASSUME Calm PROVE RoutesFit'
      OBVIOUS
    <2>1. op'.pc \notin AwaitsSync
      BY <1>2 DEF AwaitsSync
    <2>2. ASSUME NEW p \in routed' PROVE RouteFits(p, proc[p])'
      <3>1. PICK i : i = proc[p]
        OBVIOUS
      <3>2. RouteFits(p, i) /\ i \in Rows /\ proc'[p] = i
        BY <2>2, <3>1 DEF FleetInv, RoutesFit, gateway, RouteFits
      <3>3. RouteFits(p, i)'
        BY <1>1, <1>2, <3>2 DEF RouteFits, Serves
      <3> QED
        BY <3>2, <3>3
    <2> QED
      BY <2>1, <2>2 DEF RoutesFit
  <1> QED
    BY <1>1, <1>2, <1>3, <1>4, <1>5, <1>6, <1>7 DEF FleetInv

LEMMA CalmIsMore == Calm => Answered /\ Orderly
  BY DEF Calm, Answered, Orderly

\* An operation's instance becomes RUNNING, and the gateway is told.
LEMMA RowServes ==
  ASSUME FleetInv, op.pc \in {"deploy_start", "heal_health", "replace_health", "restart_start"},
         rows' = Set(op.row, "running"), NEW to, Sync(to),
         IF op.pc = "deploy_start" THEN to = "deploy_sync" /\ dep' = "succeeded" /\ active' = op.rel
         ELSE to \in {"healed_sync", "restarted_sync"} /\ UNCHANGED <<dep, active>>,
         UNCHANGED <<rels, desired, gateway, polled>>,
         proc' \in [Ports -> Nat], late' \subseteq {"start", "stop"} \X Nat,
         Answered => late' = {} /\ proc'[rows[op.row].port] = op.row,
         \A p \in Ports : p # rows[op.row].port => proc'[p] = proc[p]
  PROVE  FleetInv'
  <1>0. /\ Types /\ RowFits /\ ReleasesFit /\ op \in Op /\ op.row \in Rows
        /\ rows[op.row].status \in {"starting", "restarting"} /\ rows[op.row].status \notin Dead
        /\ "running" \in InstanceStatus \ {"pending"}
    BY DEF FleetInv, RowFits, Types, Dead, InstanceStatus
  <1>1. /\ rows \in Seq(Row) /\ rows' \in Seq(Row) /\ PortsApart /\ PortsApart'
        /\ Len(rows') = Len(rows) /\ Rows' = Rows /\ RowsStay /\ rows'[op.row].status = "running"
        /\ \A j \in Rows : rows'[j].port = rows[j].port /\ (j # op.row => rows'[j] = rows[j])
    BY <1>0, RowMarked
  <1>2. op'.sent = Upstreams(rows', active') /\ op'.sent \subseteq Ports
    BY <1>0, <1>1, UpstreamPortsNext DEF Sync, Op
  <1>3. op' \in Op /\ op'.pc = to
    BY ZenonT(30), <1>0, <1>2 DEF Sync, Op, Pcs, AwaitsSync
  <1>4. /\ to \in {"deploy_sync", "healed_sync", "restarted_sync"} /\ to \in AwaitsSync
        /\ active' \in 0..Len(rels) /\ (active' # 0 => Ready(active'))
    BY <1>0 DEF ReleasesFit, Types, AwaitsSync, Ready
  <1>5. Types'
    BY <1>0, <1>1, <1>3, <1>4 DEF Types, gateway, DeploymentStatus
  <1>6. RowFits' /\ ListsFit' /\ CountFits'
    <2>1. polled' # 0 => polled' \in Rows' /\ rows'[polled'].status # "pending"
      BY <1>0, <1>1, PolledKept
    <2> QED
      BY <1>3, <1>4, <2>1 DEF RowFits, ListsFit, CountFits
  <1>7. ReleasesFit'
    BY <1>3, <1>4 DEF ReleasesFit, Ready
  <1>8. Orderly => Unmoved'
    BY <1>3, <1>4, UnmovedKept DEF FleetInv
  <1>9. Answered => Own'
    <2> SUFFICES ASSUME Answered PROVE Own'
      OBVIOUS
    <2>1. OwnProcess'
      BY <1>0, <1>1, OwnTouched DEF FleetInv, Own
    <2> QED
      BY <1>3, <1>4, <2>1 DEF Own
  <1>10. Decisive => (PendingLeft \/ Underway)'
    <2>1. CASE PendingLeft
      <3>1. PendingLeft'
        BY <1>0, <1>1, <1>3, <1>4, <2>1, PendingStays
      <3> QED
        BY <3>1
    <2>2. CASE Underway
      BY <1>0, <1>1, <1>3, <1>4, <2>2 DEF Underway, Busy, InDeploymentAt, Transient
    <2> QED
      BY <2>1, <2>2 DEF FleetInv
  <1>11. Calm => RoutesFit'
    <2> SUFFICES ASSUME Calm PROVE RoutesFit'
      OBVIOUS
    <2>1. RoutesFit /\ ~RouteFits(rows[op.row].port, op.row)
      BY <1>0 DEF FleetInv, RouteFits, Serves, RowFits
    <2>2. rows[op.row].port \notin routed
      BY <1>0, <1>1, <2>1, NotRouted
    <2>3. \A p \in op'.sent :
            proc'[p] \in Rows' /\ rows'[proc'[p]].port = p /\ Serves(proc[p])'
      BY <1>1, <1>2, <1>9, CalmIsMore, SentIsServed DEF Own
    <2>4. ASSUME NEW p \in routed' PROVE RouteFits(p, proc[p])'
      <3>1. PICK i : i = proc[p]
        OBVIOUS
      <3>2. RouteFits(p, i) /\ p \in Ports /\ p # rows[op.row].port
        BY <1>0, <2>1, <2>2, <2>4, <3>1 DEF RoutesFit, gateway, Types
      <3>3. i \in Rows /\ i # op.row /\ proc'[p] = i
        BY <3>1, <3>2 DEF RouteFits
      <3>4. RouteFits(p, i)'
        BY <1>0, <1>1, <1>3, <1>4, <3>2, <3>3 DEF RouteFits, Serves
      <3> QED
        BY <3>3, <3>4
    <2> QED
      BY <2>3, <2>4 DEF RoutesFit
  <1> QED
    BY <1>1, <1>5, <1>6, <1>7, <1>8, <1>9, <1>10, <1>11 DEF FleetInv

\* Some instances start to drain; no other row changes.
Draining(d) ==
    [i \in Rows |-> IF i \in d THEN [rows[i] EXCEPT !.status = "draining"] ELSE rows[i]]

\* Every answer of the agent about a row, in the form the lemmas use.
LEMMA AgentStep ==
  ASSUME FleetInv, NEW type \in {"start", "stop"}, NEW i \in Rows, NEW reply \in Replies(type),
         AgentReplies(type, i, reply)
  PROVE  /\ proc' \in [Ports -> Nat] /\ late' \subseteq {"start", "stop"} \X Nat
         /\ Answered => late' = {}
         /\ \A p \in Ports : p # rows[i].port => proc'[p] = proc[p]
         /\ type = "start" /\ reply = "ok" => proc'[rows[i].port] = i
  <1>1. Types /\ i \in Nat /\ (Answered => Own)
    BY DEF FleetInv, Rows
  <1> QED
    BY ZenonT(30), <1>1, AgentTypes, AgentAnswersInTime, AgentTouches

\* The operation's process is started, and its health is waited for.
LEMMA ProcessStarted ==
  ASSUME FleetInv, "ok" \in Replies("start"), AgentReplies("start", op.row, "ok"), NEW to,
         \/ op.pc = "heal_start" /\ to = "heal_health"
         \/ op.pc = "replace_start" /\ to = "replace_health"
         \/ op.pc = "up_start" /\ to = "up_health"
         \/ op.pc = "gate_start" /\ to = "gate_health",
         op' = [op EXCEPT !.pc = to], UNCHANGED <<rows, db, dep, gateway, polled>>
  PROVE  FleetInv'
  <1>0. /\ Types /\ PortsApart /\ RowFits /\ ListsFit /\ ReleasesFit /\ rows \in Seq(Row)
        /\ op \in Op /\ op.row \in Rows /\ rows[op.row].status \in {"starting", "restarting"}
    BY DEF FleetInv, Types, RowFits
  <1>1. /\ op' \in Op /\ op'.pc = to /\ op'.row = op.row /\ op'.new = op.new /\ op'.rel = op.rel
        /\ op'.before = op.before /\ op'.was = op.was /\ op'.left = op.left /\ op'.ok = op.ok
    BY ZenonT(30), <1>0 DEF Op, Pcs, AwaitsElse
  <1>2. /\ proc' \in [Ports -> Nat] /\ late' \subseteq {"start", "stop"} \X Nat
        /\ Answered => late' = {}
        /\ \A p \in Ports : p # rows[op.row].port => proc'[p] = proc[p]
        /\ proc'[rows[op.row].port] = op.row
    BY <1>0, AgentStep
  <1>3. RowFits' /\ ListsFit' /\ ReleasesFit'
    BY <1>0, <1>1 DEF RowFits, ListsFit, Listed, Rows, ReleasesFit, Ready, db
  <1>4. Types' /\ PortsApart'
    BY <1>0, <1>1, <1>2 DEF Types, db, gateway, PortsApart, Rows
  <1>5. CountFits'
    <2>1. Live' = Live
      BY DEF Live, Rows
    <2> QED
      BY <1>1, <2>1 DEF FleetInv, CountFits, db
  <1>6. Orderly => Unmoved'
    BY <1>1, UnmovedKept DEF FleetInv
  <1>7. Answered => Own'
    <2> SUFFICES ASSUME Answered PROVE Own'
      OBVIOUS
    <2>1. \A j \in Rows' : rows'[j].status = "running" =>
            /\ j \in Rows /\ rows'[j].port = rows[j].port
            /\ j # op.row => rows[j].status = "running"
            /\ j = op.row => proc'[rows[op.row].port] = op.row
      BY <1>0 DEF Rows
    <2>2. rows[op.row].status \notin Dead /\ OwnProcess /\ rows' \in Seq(Row)
      BY <1>0 DEF FleetInv, Own, Dead
    <2>3. OwnProcess'
      BY <1>0, <1>2, <2>1, <2>2, OwnTouched
    <2> QED
      BY <1>1, <1>2, <2>3 DEF Own
  <1>8. Decisive => (PendingLeft \/ Underway)'
    BY <1>1 DEF FleetInv, PendingLeft, Underway, Rows, Busy, InDeploymentAt
  <1>9. Calm => RoutesFit'
    <2> SUFFICES ASSUME Calm PROVE RoutesFit'
      OBVIOUS
    <2>1. RoutesFit /\ ~RouteFits(rows[op.row].port, op.row) /\ rows[op.row].status \notin Dead
      BY <1>0 DEF FleetInv, RouteFits, RowFits, Serves, Dead
    <2>2. rows[op.row].port \notin routed
      BY <1>0, <2>1, NotRouted
    <2>3. \A p \in routed, j \in Rows : RouteFits(p, j) => p \in Ports /\ p # rows[op.row].port
      BY <1>0, <2>2 DEF Types
    <2>4. op'.pc \notin AwaitsSync /\ op.pc \notin BehindAt /\ op'.pc # "abort_stop"
          /\ (op'.pc \in CurrentAt => op.pc \in CurrentAt)
          /\ (op'.pc \in GatingAt => op.pc \in GatingAt)
      BY <1>1 DEF AwaitsSync
    <2>5. \A p \in routed, j \in Rows : RouteFits(p, j) /\ proc[p] = j =>
           /\ proc'[p] = j
           /\ rows'[j].port = rows[j].port /\ rows'[j].status = rows[j].status
           /\ rows'[j].rel = rows[j].rel
           /\ op'.pc \in GatingAt => \A k \in DOMAIN op'.new : op'.new[k] # j
      BY <1>1, <1>2, <2>3, <2>4 DEF RouteFits
    <2> QED
      BY <1>0, <2>1, <2>4, <2>5, RoutesKept DEF gateway, db
  <1> QED
    BY <1>3, <1>4, <1>5, <1>6, <1>7, <1>8, <1>9 DEF FleetInv

\* The edges of the table that the operations ask for.
LEMMA Edges ==
  ASSUME NEW s \in InstanceStatus
  PROVE  /\ CanTransition(InstanceTransitions, s, "failed")
              <=> s \in {"pending", "starting", "unhealthy", "restarting", "draining"}
         /\ CanTransition(InstanceTransitions, s, "restarting") <=> s \in {"running", "unhealthy"}
         /\ CanTransition(InstanceTransitions, s, "draining") <=> s \in {"running", "unhealthy"}
         /\ CanTransition(InstanceTransitions, s, "running")
              <=> s \in {"starting", "unhealthy", "restarting"}
         /\ CanTransition(InstanceTransitions, s, "unhealthy") <=> s = "running"
         /\ CanTransition(InstanceTransitions, s, "stopped")
              <=> s \in {"running", "unhealthy", "draining"}
  BY DEF CanTransition, InstanceTransitions, InstanceStatus

LEMMA LiveSized ==
  ASSUME Counting, rows \in Seq(Row)
  PROVE  /\ Sized(Live) /\ Divided(Live) /\ NewestListed(Live)
         /\ Cardinality(Live) \in Nat /\ Live \in SUBSET Nat
  <1>1. Len(rows) \in Nat /\ Live \in SUBSET (1..Len(rows))
    BY DEF Live, Rows
  <1>2. Sized(Live) /\ Divided(Live) /\ NewestListed(Live)
    BY ZenonT(30), <1>1 DEF Counting
  <1>3. Cardinality(Live) \in Nat
    BY <1>2 DEF Sized
  <1> QED
    BY <1>1, <1>2, <1>3

\* The operation creates an instance and has it started.
LEMMA RowAllocated ==
  ASSUME Counting, FleetInv, FreePorts # {}, NEW rel \in 0..MaxReleases, NEW attempts \in 0..MaxRestarts,
         rows' = Allocated(rel, "starting", attempts), NEW to,
         \/ op.pc = "replace" /\ to = "replace_start"
         \/ op.pc = "up_next" /\ to = "up_start" /\ op.left > 0
         \/ op.pc = "gate_next" /\ to = "gate_start" /\ op.left > 0,
         op' = [op EXCEPT !.pc = to, !.row = Len(rows')],
         UNCHANGED <<db, dep, agent, gateway, polled>>
  PROVE  FleetInv'
  <1>0. /\ Types /\ RowFits /\ ListsFit /\ ReleasesFit /\ CountFits /\ op \in Op /\ op.left \in Nat
        /\ "starting" \in InstanceStatus /\ desired \in Nat
    BY DEF FleetInv, Types, InstanceStatus, Op
  <1>1. /\ rows \in Seq(Row) /\ rows' \in Seq(Row) /\ PortsApart'
        /\ Len(rows') = Len(rows) + 1 /\ Len(rows') \in Nat
        /\ Rows' = Rows \cup {Len(rows')} /\ Len(rows') \notin Rows /\ RowsStay
        /\ rows'[Len(rows')].status = "starting"
        /\ \A j \in Rows : rows'[j] = rows[j]
    BY <1>0, RowAdded
  <1>2. /\ op' \in Op /\ op'.pc = to /\ op'.row = Len(rows') /\ op'.new = op.new
        /\ op'.rel = op.rel /\ op'.before = op.before /\ op'.was = op.was
        /\ op'.left = op.left /\ op'.ok = op.ok
    BY ZenonT(30), <1>0, <1>1 DEF Op, Pcs, AwaitsStart
  <1>3. Types'
    BY <1>0, <1>1, <1>2 DEF Types, gateway, agent, db
  <1>4. RowFits' /\ ListsFit'
    <2>1. polled' # 0 => polled' \in Rows' /\ rows'[polled'].status # "pending"
      BY <1>0, <1>1, PolledKept
    <2> QED
      BY <1>0, <1>1, <1>2, <2>1 DEF RowFits, ListsFit, Listed
  <1>5. ReleasesFit'
    BY <1>0, <1>2 DEF ReleasesFit, Ready, db
  <1>6. CountFits'
    <2>1. Live' = Live \cup {Len(rows')} /\ Len(rows') \notin Live
      BY <1>1 DEF Live
    <2>2. Cardinality(Live') = Cardinality(Live) + 1 /\ Cardinality(Live) \in Nat
      <3>1. Sized(Live) /\ Cardinality(Live) \in Nat /\ Len(rows') \in Nat \ Live
        BY <1>1, <2>1, LiveSized
      <3> QED
        BY <2>1, <3>1 DEF Sized
    <2> QED
      BY <1>0, <1>2, <2>2 DEF CountFits, db
  <1>7. Orderly => Unmoved'
    BY <1>2, UnmovedKept DEF FleetInv
  <1>8. Answered => Own'
    BY <1>1, <1>2 DEF FleetInv, Own, OwnProcess, agent
  <1>9. Decisive => (PendingLeft \/ Underway)'
    <2>1. CASE PendingLeft
      <3>1. PendingLeft'
        BY <1>0, <1>1, <1>2, <2>1 DEF PendingLeft
      <3> QED
        BY <3>1
    <2>2. CASE Underway
      BY <1>0, <1>1, <1>2, <2>2 DEF Underway, Busy, InDeploymentAt, Transient
    <2> QED
      BY <2>1, <2>2 DEF FleetInv
  <1>10. Calm => RoutesFit'
    <2> SUFFICES ASSUME Calm PROVE RoutesFit'
      OBVIOUS
    <2>1. op'.pc \notin AwaitsSync /\ op'.pc # "abort_stop" /\ op.pc \notin BehindAt
          /\ (op'.pc \in CurrentAt => op.pc \in CurrentAt)
          /\ (op'.pc \in GatingAt => op.pc \in GatingAt)
      BY <1>2 DEF AwaitsSync
    <2>2. \A p \in routed, j \in Rows : RouteFits(p, j) /\ proc[p] = j =>
           /\ proc'[p] = j
           /\ rows'[j].port = rows[j].port /\ rows'[j].status = rows[j].status
           /\ rows'[j].rel = rows[j].rel
           /\ op'.pc \in GatingAt => \A k \in DOMAIN op'.new : op'.new[k] # j
      BY <1>1, <1>2, <2>1 DEF RouteFits, agent
    <2> QED
      BY <1>0, <1>1, <2>1, <2>2, RoutesKept DEF FleetInv, gateway, db
  <1> QED
    BY <1>1, <1>3, <1>4, <1>5, <1>6, <1>7, <1>8, <1>9, <1>10 DEF FleetInv

\* A transition the table lacks is raised after an unhealthy verdict only.
LEMMA Raised ==
  ASSUME FleetInv, op.pc \in {"replace_health", "up_health"}, Raise, "unhealthy" \in Faults
  PROVE  FleetInv'
  <1>0. /\ Types /\ ReleasesFit /\ rows \in Seq(Row) /\ ~Decisive
        /\ op' = Idle /\ UNCHANGED <<rows, rels, active, desired, dep, proc, late, gateway, polled>>
    BY DEF FleetInv, Types, Decisive, Raise, db, agent
  <1>1. ReleasesFit'
    BY <1>0, IdleFields, ReleasesKept
  <1>2. Answered => late' = {} /\ OwnProcess'
    BY <1>0 DEF FleetInv, Own, OwnProcess, Rows
  <1> QED
    BY <1>0, <1>1, <1>2, RowsLeft DEF Types

LEMMA RowsDraining ==
  ASSUME Types, PortsApart, NEW d \in SUBSET Rows, \A i \in d : rows[i].status \notin Dead,
         rows' = Draining(d)
  PROVE  /\ rows \in Seq(Row) /\ rows' \in Seq(Row) /\ Len(rows') = Len(rows) /\ Rows' = Rows
         /\ RowsStay /\ PortsApart'
         /\ \A i \in Rows : /\ rows'[i].port = rows[i].port /\ rows'[i].rel = rows[i].rel
                            /\ i \in d => rows'[i].status = "draining"
                            /\ i \notin d => rows'[i] = rows[i]
  <1>1. rows \in Seq(Row) /\ Len(rows) \in Nat
    BY DEF Types
  <1>2. \A i \in Rows : /\ rows'[i] \in Row
                        /\ rows'[i].port = rows[i].port /\ rows'[i].rel = rows[i].rel
                        /\ i \in d => rows'[i].status = "draining"
                        /\ i \notin d => rows'[i] = rows[i]
    <2> SUFFICES ASSUME NEW i \in Rows
                 PROVE  /\ rows'[i] \in Row
                        /\ rows'[i].port = rows[i].port /\ rows'[i].rel = rows[i].rel
                        /\ i \in d => rows'[i].status = "draining"
                        /\ i \notin d => rows'[i] = rows[i]
      OBVIOUS
    <2>1. rows[i] \in Row
      BY RowTypes
    <2>2. CASE i \in d
      <3>1. rows'[i] = [rows[i] EXCEPT !.status = "draining"]
        BY <2>2 DEF Draining
      <3> QED
        BY <2>1, <2>2, <3>1 DEF Row, InstanceStatus
    <2>3. CASE i \notin d
      BY <2>1, <2>3 DEF Draining
    <2> QED
      BY <2>2, <2>3
  <1>3. rows' \in [1..Len(rows) -> Row]
    BY <1>2 DEF Rows, Draining
  <1>4. rows' \in Seq(Row) /\ Len(rows') = Len(rows)
    BY <1>1, <1>3
  <1>5. Rows' = Rows
    BY <1>4 DEF Rows
  <1>6. RowsStay
    <2>1. \A i \in Rows : rows'[i].status = "pending" => rows[i].status = "pending"
      BY <1>2
    <2>2. Len(rows) <= Len(rows')
      BY <1>1, <1>4
    <2> QED
      BY <2>1, <2>2 DEF RowsStay
  <1>7. PortsApart'
    BY <1>2, <1>4, PortsKept
  <1> QED
    BY <1>1, <1>2, <1>4, <1>5, <1>6, <1>7

\* The first instance of the list is stopped, or has failed.
LEMMA Drained ==
  ASSUME FleetInv, op.pc \in {"down_stop", "drain_stop"}, NEW s \in Dead,
         NEW reply \in Replies("stop"), AgentReplies("stop", Head(op.todo), reply),
         rows' = Set(Head(op.todo), s), op' \in Op, op'.todo = Tail(op.todo), op'.ok => op.ok,
         op'.pc = IF Len(op.todo) # 1 THEN op.pc
                  ELSE IF op.pc = "down_stop" THEN "scale_done" ELSE "prune",
         UNCHANGED <<rels, active, desired, dep, gateway, polled>>
  PROVE  FleetInv'
  <1> DEFINE i == Head(op.todo)
  <1>0. /\ Types /\ RowFits /\ ListsFit /\ ReleasesFit /\ CountFits /\ op.todo # <<>>
        /\ Listed(op.todo, "draining")
    BY DEF FleetInv, ListsFit
  <1>a. op.todo \in Seq(Nat) /\ Len(op.todo) \in Nat \ {0} /\ i = op.todo[1] /\ 1 \in DOMAIN op.todo
        /\ Tail(op.todo) \in Seq(Nat) /\ Len(Tail(op.todo)) = Len(op.todo) - 1
        /\ \A k \in 1..(Len(op.todo) - 1) : Tail(op.todo)[k] = op.todo[k + 1]
    BY <1>0 DEF Types, Op
  <1>b. /\ i \in Rows /\ rows[i].status = "draining" /\ rows[i].status \notin Dead
        /\ s \in InstanceStatus \ {"pending"} /\ s # "running" /\ s \notin Transient
        /\ op.pc \in InDeploymentAt /\ op'.pc \in InDeploymentAt /\ op'.pc # "deploy_build"
    BY <1>0, <1>a DEF Listed, Dead, InstanceStatus, Transient, InDeploymentAt
  <1> HIDE DEF i
  <1>1. /\ rows \in Seq(Row) /\ rows' \in Seq(Row) /\ PortsApart /\ PortsApart'
        /\ Len(rows') = Len(rows) /\ Rows' = Rows /\ RowsStay /\ rows'[i].status = s
        /\ \A j \in Rows : rows'[j].port = rows[j].port /\ (j # i => rows'[j] = rows[j])
    BY <1>b, RowMarked DEF i
  <1>2. /\ proc' \in [Ports -> Nat] /\ late' \subseteq {"start", "stop"} \X Nat
        /\ Answered => late' = {}
        /\ \A p \in Ports : p # rows[i].port => proc'[p] = proc[p]
    BY <1>b, AgentStep DEF i
  <1>3. Types'
    BY <1>0, <1>1, <1>2 DEF Types, gateway
  <1>4. RowFits' /\ ReleasesFit'
    <2>1. polled' # 0 => polled' \in Rows' /\ rows'[polled'].status # "pending"
      BY <1>0, <1>1, PolledKept
    <2> QED
      BY <1>0, <2>1, ReleasesKept DEF RowFits
  <1>5. ListsFit'
    <2>0. PICK t : t = Tail(op.todo)
      BY ZenonT(30)
    <2> SUFFICES ASSUME op'.pc \in DrainingAt
                 PROVE  t # <<>> /\ Listed(t, "draining")'
      BY <2>0 DEF ListsFit, Listed
    <2>1. Len(op.todo) # 1
      OBVIOUS
    <2>2. DOMAIN t = 1..(Len(op.todo) - 1) /\ DOMAIN op.todo = 1..Len(op.todo)
      BY <1>a, <2>0
    <2>3. \A k \in DOMAIN t :
            /\ t[k] = op.todo[k + 1] /\ k + 1 \in DOMAIN op.todo /\ k + 1 # 1
      BY <1>a, <2>0, <2>2
    <2>4. \A k \in DOMAIN t :
            t[k] \in Rows /\ t[k] # i
            /\ rows[t[k]].status = "draining"
      BY <1>0, <1>a, <2>3 DEF Listed
    <2>5. \A k, l \in DOMAIN t : t[k] = t[l] => k + 1 = l + 1
      BY <1>0, <2>3 DEF Listed
    <2>6. \A k, l \in DOMAIN t : k + 1 = l + 1 => k = l
      BY <1>a, <2>0, <2>2
    <2>7. Listed(t, "draining")'
      BY <1>1, <2>4, <2>5, <2>6 DEF Listed
    <2>8. t # <<>>
      <3>1. Len(t) # 0
        BY <1>a, <2>0, <2>1
      <3> QED
        BY <3>1
    <2> QED
      BY <2>7, <2>8
  <1>6. CountFits'
    <2>1. Live' = Live
      BY <1>b, <1>1 DEF Live, Dead
    <2> QED
      BY <1>0, <2>1 DEF CountFits
  <1>7. Orderly => Unmoved'
    BY UnmovedKept DEF FleetInv
  <1>8. Answered => Own'
    <2> SUFFICES ASSUME Answered PROVE Own'
      OBVIOUS
    <2>1. OwnProcess'
      BY <1>0, <1>b, <1>1, <1>2, OwnTouched DEF FleetInv, Own
    <2> QED
      BY <1>2, <2>1 DEF Own
  <1>9. Decisive => (PendingLeft \/ Underway)'
    <2>1. CASE PendingLeft
      <3>1. PendingLeft'
        BY <1>b, <1>1, <2>1, PendingStays
      <3> QED
        BY <3>1
    <2>2. CASE Underway
      <3>1. ASSUME NEW j \in Rows, rows'[j].status \in Transient PROVE Busy(j)'
        <4>1. j # i /\ rows[j].status \in Transient
          BY <1>b, <1>1, <3>1
        <4>2. PICK k \in DOMAIN op.todo : j = op.todo[k]
          BY <2>2, <4>1 DEF Underway, Busy
        <4>3. k \in 2..Len(op.todo)
          BY <1>a, <4>1, <4>2
        <4>4. k - 1 \in DOMAIN Tail(op.todo) /\ Tail(op.todo)[k - 1] = j
          BY <1>a, <4>2, <4>3
        <4>5. op'.pc \in DrainingAt
          BY <1>a, <4>3
        <4> QED
          BY <4>4, <4>5 DEF Busy
      <3> QED
        BY <1>b, <1>1, <3>1 DEF Underway
    <2> QED
      BY <2>1, <2>2 DEF FleetInv
  <1>10. Calm => RoutesFit'
    <2> SUFFICES ASSUME Calm PROVE RoutesFit'
      OBVIOUS
    <2>1. op'.pc \notin AwaitsSync
      BY DEF AwaitsSync
    <2>2. RoutesFit /\ ~RouteFits(rows[i].port, i)
      BY <1>b DEF FleetInv, RouteFits, Serves
    <2>3. rows[i].port \notin routed
      BY <1>0, <1>b, <1>1, <2>2, NotRouted
    <2>4. \A p \in routed, j \in Rows : RouteFits(p, j) => p \in Ports /\ p # rows[i].port /\ j # i
      BY <1>0, <2>2, <2>3 DEF RouteFits, Types
    <2> QED
      BY <1>0, <1>1, <1>2, <2>1, <2>2, <2>4, RoutesKept DEF gateway
  <1> QED
    BY <1>1, <1>3, <1>4, <1>5, <1>6, <1>7, <1>8, <1>9, <1>10 DEF FleetInv
-----------------------------------------------------------------------------
(* The steps of deployments *)

LEMMA StartDeploymentStep ==
  ASSUME Counting, FleetInv, StartDeployment
  PROVE  FleetInv'
  <1>0. /\ Types /\ op \in Op /\ rels \in Seq(ReleaseStatus) /\ MaxReleases \in Nat /\ op = Idle
        /\ active = 0
    BY FleetConstants DEF FleetInv, Types, StartDeployment
  <1>1. /\ rels' \in Seq(ReleaseStatus) /\ Len(rels') = Len(rels) + 1 /\ Len(rels') <= MaxReleases
        /\ Len(rels') \in 0..MaxReleases /\ Len(rels') \in Nat \ {0}
        /\ \A r \in DOMAIN rels : rels'[r] = rels[r]
    BY <1>0 DEF StartDeployment, Types, ReleaseStatus
  <1>2. /\ rows' = Allocated(Len(rels'), "pending", 0) /\ FreePorts # {}
        /\ "pending" \in InstanceStatus /\ 0 \in 0..MaxRestarts
    BY FleetConstants DEF StartDeployment, InstanceStatus
  <1>3. /\ RowFits /\ rows \in Seq(Row) /\ rows' \in Seq(Row) /\ PortsApart'
        /\ Len(rows') = Len(rows) + 1 /\ Len(rows') \in Nat
        /\ Rows' = Rows \cup {Len(rows')} /\ Len(rows') \notin Rows /\ RowsStay
        /\ rows'[Len(rows')].status = "pending"
        /\ \A j \in Rows : rows'[j] = rows[j]
        /\ \A j \in Rows : rows[j].status \notin Dead => rows[j].port # rows'[Len(rows')].port
    BY <1>1, <1>2, RowAdded
  <1>4. op' \in Op /\ op'.pc = "deploy_build" /\ op'.row = Len(rows') /\ op'.rel = Len(rels')
    BY ZenonT(30), <1>1, <1>3, IdleFields DEF StartDeployment, Op, Pcs, AwaitsElse
  <1>5. Types'
    BY <1>0, <1>1, <1>3, <1>4 DEF Types, StartDeployment, agent, gateway, DeploymentStatus
  <1>6. RowFits' /\ ListsFit' /\ CountFits'
    <2>1. polled' # 0 => polled' \in Rows' /\ rows'[polled'].status # "pending"
      BY <1>0, <1>3, PolledKept DEF StartDeployment
    <2> QED
      BY <1>3, <1>4, <2>1 DEF RowFits, ListsFit, CountFits
  <1>7. ReleasesFit'
    BY <1>0, <1>1, <1>4 DEF ReleasesFit, StartDeployment
  <1>8. Orderly => Unmoved'
    BY <1>4, UnmovedKept DEF FleetInv, StartDeployment
  <1>9. Answered => Own'
    BY <1>3, <1>4 DEF FleetInv, Own, OwnProcess, StartDeployment, agent
  <1>10. Decisive => (PendingLeft \/ Underway)'
    <2>1. CASE PendingLeft
      BY <1>3, <1>4, <2>1 DEF PendingLeft
    <2>2. CASE Underway
      BY <1>0, <1>3, <1>4, <2>2, IdleFields DEF Underway, Busy, InDeploymentAt, Transient
    <2> QED
      BY <2>1, <2>2 DEF FleetInv
  <1>11. Calm => RoutesFit'
    <2> SUFFICES ASSUME Calm PROVE RoutesFit'
      OBVIOUS
    <2>1. op'.pc \notin AwaitsSync
      BY <1>4 DEF AwaitsSync
    <2> QED
      BY <1>0, <1>3, <1>4, <2>1, IdleFields, RoutesKept DEF FleetInv, StartDeployment, agent, gateway
  <1> QED
    BY <1>3, <1>5, <1>6, <1>7, <1>8, <1>9, <1>10, <1>11 DEF FleetInv

LEMMA DeploymentKeeps ==
  ASSUME FleetInv, DeploymentStep
  PROVE  FleetInv'
  <1>DeployBuiltStep.
    ASSUME FleetInv, NEW reply, DeployBuilt(reply)
    PROVE  FleetInv'
    <2> USE <1>DeployBuiltStep
    <2>0. /\ Types /\ RowFits /\ ReleasesFit /\ op \in Op /\ rels \in Seq(ReleaseStatus)
          /\ op.pc = "deploy_build" /\ op.row \in Rows /\ rows[op.row].status = "pending"
          /\ op.rel \in DOMAIN rels /\ op.rel # active
      BY DEF FleetInv, RowFits, ReleasesFit, DeployBuilt, Types
    <2>1. PICK r \in {"ready", "failed"} : rels' = [rels EXCEPT ![op.rel] = r]
      BY DEF DeployBuilt
    <2>2. /\ rels' \in Seq(ReleaseStatus) /\ Len(rels') = Len(rels)
          /\ \A x \in DOMAIN rels : x # op.rel => rels'[x] = rels[x]
          /\ rels'[op.rel] = r
      BY <2>0, <2>1 DEF ReleaseStatus
    <2>3. CASE reply # "ok"
      <3>1. Moves(op.row, "failed") /\ op' = Idle /\ dep' = "failed"
        BY <2>0, <2>3, SetMoves DEF DeployBuilt, End, InstanceStatus
      <3>2. ReleasesFit'
        BY <2>0, <2>2, <3>1, IdleFields DEF ReleasesFit, Ready, DeployBuilt, Types
      <3>3. ~RouteFits(rows[op.row].port, op.row) /\ rows[op.row].status \notin Dead
        BY <2>0 DEF RouteFits, Dead
      <3>4. \A j : ~Busy(j)
        BY <2>0 DEF Busy
      <3>5. UNCHANGED <<active, desired, proc, late, gateway, polled>>
        BY DEF DeployBuilt, agent
      <3> QED
        BY ZenonT(30), <2>0, <2>2, <3>1, <3>2, <3>3, <3>4, <3>5, RowGivenUp
           DEF Dead, DeploymentStatus, Types, FleetInv, Own
    <2>4. CASE reply = "ok"
      <3>0. "starting" \in InstanceStatus \ {"pending"} /\ rows[op.row].status \notin Dead
        BY <2>0 DEF InstanceStatus, Dead
      <3>1. /\ rows' = Set(op.row, "starting") /\ op' = [op EXCEPT !.pc = "deploy_start"]
            /\ dep' = dep /\ rels' = [rels EXCEPT ![op.rel] = "ready"]
            /\ UNCHANGED <<active, desired, agent, gateway, polled>>
        BY <2>4 DEF DeployBuilt
      <3>2. /\ rows \in Seq(Row) /\ rows' \in Seq(Row) /\ PortsApart /\ PortsApart'
            /\ Len(rows') = Len(rows) /\ Rows' = Rows /\ RowsStay /\ rows'[op.row].status = "starting"
            /\ \A j \in Rows : rows'[j].port = rows[j].port /\ (j # op.row => rows'[j] = rows[j])
        BY <2>0, <3>0, <3>1, RowMarked
      <3>3. op' \in Op /\ op'.pc = "deploy_start" /\ op'.row = op.row /\ op'.rel = op.rel
        BY <2>0, <3>1 DEF Op, Pcs, AwaitsStart
      <3>4. Types'
        BY <2>0, <2>2, <3>1, <3>2, <3>3 DEF Types, agent, gateway
      <3>5. RowFits' /\ ListsFit' /\ CountFits'
        <4>1. polled' # 0 => polled' \in Rows' /\ rows'[polled'].status # "pending"
          BY <2>0, <3>1, <3>2, PolledKept
        <4> QED
          BY <2>0, <3>2, <3>3, <4>1 DEF RowFits, ListsFit, CountFits
      <3>6. ReleasesFit'
        BY <2>0, <2>2, <3>1, <3>3 DEF ReleasesFit, Ready, Types
      <3>7. Orderly => Unmoved'
        BY <3>1, <3>3, UnmovedKept DEF FleetInv
      <3>8. Answered => Own'
        BY <3>1, <3>2, <3>3 DEF FleetInv, Own, OwnProcess, agent
      <3>9. Decisive => (PendingLeft \/ Underway)'
        <4>1. CASE PendingLeft
          BY <2>0, <3>2, <3>3, <4>1 DEF PendingLeft
        <4>2. CASE Underway
          BY <2>0, <3>1, <3>2, <3>3, <4>2 DEF Underway, Busy, InDeploymentAt
        <4> QED
          BY <4>1, <4>2 DEF FleetInv
      <3>10. Calm => RoutesFit'
        <4> SUFFICES ASSUME Calm PROVE RoutesFit'
          OBVIOUS
        <4>1. op'.pc \notin AwaitsSync
          BY <3>3 DEF AwaitsSync
        <4>2. \A p, i : RouteFits(p, i) => i # op.row
          BY <2>0 DEF RouteFits
        <4> QED
          BY <2>0, <3>1, <3>2, <3>3, <4>1, <4>2, RoutesKept DEF FleetInv, agent, gateway
      <3> QED
        BY <3>2, <3>4, <3>5, <3>6, <3>7, <3>8, <3>9, <3>10 DEF FleetInv
    <2> QED
      BY <2>3, <2>4
  <1>DeployStartedStep.
    ASSUME FleetInv, NEW reply \in Replies("start"), DeployStarted(reply)
    PROVE  FleetInv'
    <2> USE <1>DeployStartedStep
    <2>0. /\ Types /\ RowFits /\ ReleasesFit /\ op.pc = "deploy_start" /\ op.row \in Rows
          /\ rows[op.row].status = "starting" /\ AgentReplies("start", op.row, reply)
          /\ op.row \in Nat
      <3>1. Types /\ RowFits /\ ReleasesFit
        BY DEF FleetInv
      <3>2. op.pc = "deploy_start" /\ AgentReplies("start", op.row, reply)
        BY DEF DeployStarted
      <3>3. op.row \in Rows /\ rows[op.row].status = "starting"
        BY <3>1, <3>2 DEF RowFits
      <3>4. op.row \in Nat
        BY <3>3 DEF Rows
      <3> QED
        BY <3>1, <3>2, <3>3, <3>4
    <2>1. proc' \in [Ports -> Nat] /\ late' \subseteq {"start", "stop"} \X Nat
      BY <2>0, AgentTypes
    <2>2. Answered => late' = {}
      BY <2>0, AgentAnswersInTime DEF FleetInv
    <2>3. /\ \A p \in Ports : p # rows[op.row].port => proc'[p] = proc[p]
          /\ reply = "ok" => proc'[rows[op.row].port] = op.row
      BY <2>0, AgentTouches
    <2>4. CASE reply = "ok"
      BY <2>0, <2>1, <2>2, <2>3, <2>4, RowServes DEF DeployStarted
    <2>5. CASE reply # "ok"
      <3>1. /\ Moves(op.row, "failed") /\ op' = Idle /\ dep' = "failed"
            /\ UNCHANGED <<rels, active, desired, gateway, polled>>
        BY ZenonT(30), <2>0, <2>5, SetMoves DEF DeployStarted, End, InstanceStatus
      <3>2. ReleasesFit'
        BY <2>0, <3>1, IdleFields, ReleasesKept
      <3>3. ~RouteFits(rows[op.row].port, op.row) /\ rows[op.row].status \notin Dead
        BY <2>0 DEF RouteFits, Dead
      <3>4. \A j : Busy(j) => j = op.row
        BY <2>0 DEF Busy
      <3> QED
        BY ZenonT(30), <2>0, <2>1, <2>2, <2>3, <3>1, <3>2, <3>3, <3>4, RowGivenUp DEF Dead, DeploymentStatus, Types
    <2> QED
      BY <2>4, <2>5
  <1>1. ASSUME NEW reply \in SyncReplies, DeploySynced(reply) PROVE FleetInv'
    BY <1>1, SyncEnds DEF DeploySynced
  <1> QED
    BY <1>1, <1>DeployBuiltStep, <1>DeployStartedStep DEF DeploymentStep
-----------------------------------------------------------------------------
(* The steps of restarts and stops *)

\* An instance leaves the upstream to be restarted, stopped or healed.
LEMMA OutKeeps ==
  ASSUME FleetInv, \E i \in Rows : Heal(i) \/ RestartInstance(i) \/ StopInstance(i)
  PROVE  FleetInv'
  \* An instance is taken out of the upstream: it leaves RUNNING, or has left it,
  \* and the gateway is told.
  <1>TakenOut.
    ASSUME FleetInv, op = Idle, NEW i \in Rows, NEW to, NEW s,
           \/ to = "restart_sync" /\ s = "restarting" /\ rows[i].status \in {"running", "unhealthy"}
           \/ to = "stop_sync" /\ s = "draining" /\ rows[i].status \in {"running", "unhealthy"}
           \/ to = "heal_sync" /\ s = "unhealthy" /\ rows[i].status = "running",
           rows' = Set(i, s), UNCHANGED <<db, dep, agent, gateway>>, polled' \in {0, polled},
           op'.pc = to, op'.row = i, op'.sent = Upstreams(rows', active),
           Upstreams(rows', active) \subseteq Ports => op' \in Op
    PROVE  FleetInv'
    <2>0. /\ Types /\ RowFits /\ ReleasesFit /\ i \in Nat /\ rows[i].status \notin Dead
          /\ s \in InstanceStatus \ {"pending"} /\ op.pc = "idle"
          /\ rows[i].status \in {"running", "unhealthy"}
      BY <1>TakenOut, IdleFields DEF FleetInv, Dead, InstanceStatus, Rows
    <2>1. /\ rows \in Seq(Row) /\ rows' \in Seq(Row) /\ PortsApart /\ PortsApart'
          /\ Len(rows') = Len(rows) /\ Rows' = Rows /\ RowsStay /\ rows'[i].status = s
          /\ \A j \in Rows : rows'[j].port = rows[j].port /\ (j # i => rows'[j] = rows[j])
      BY <1>TakenOut, <2>0, RowMarked
    <2>2. Upstreams(rows', active) \subseteq Ports
      BY ZenonT(30), <1>TakenOut, <2>1, UpstreamPortsNext
    <2>3. op' \in Op /\ op'.pc = to /\ op'.row = i /\ op'.sent = Upstreams(rows', active)
      BY ZenonT(30), <1>TakenOut, <2>2
    <2>4. Types'
      BY ZenonT(30), <1>TakenOut, <2>0, <2>1, <2>3 DEF Types, db, agent, gateway
    <2>5. RowFits' /\ ListsFit' /\ CountFits'
      <3>1. polled' # 0 => polled' \in Rows' /\ rows'[polled'].status # "pending"
        BY ZenonT(30), <1>TakenOut, <2>0, <2>1, PolledKept
      <3> QED
        BY ZenonT(30), <1>TakenOut, <2>1, <2>3, <3>1 DEF RowFits, ListsFit, CountFits
    <2>6. ReleasesFit'
      BY ZenonT(30), <1>TakenOut, <2>0, <2>3, ReleasesKept DEF db
    <2>7. Orderly => Unmoved'
      BY ZenonT(30), <1>TakenOut, <2>3, UnmovedKept DEF FleetInv
    <2>8. Answered => Own'
      <3> SUFFICES ASSUME Answered PROVE Own'
        BY ZenonT(30), <1>TakenOut
      <3>1. OwnProcess'
        BY ZenonT(30), <1>TakenOut, <2>1, OwnKept DEF FleetInv, Own, agent
      <3> QED
        BY ZenonT(30), <1>TakenOut, <2>3, <3>1 DEF FleetInv, Own, agent
    <2>a. /\ FleetInv /\ i \in Rows /\ UNCHANGED <<db, dep, agent, gateway>>
          /\ \/ op'.pc = "restart_sync" /\ rows'[i].status = "restarting"
             \/ op'.pc = "stop_sync" /\ rows'[i].status = "draining"
             \/ op'.pc = "heal_sync" /\ rows'[i].status = "unhealthy"
      BY ZenonT(30), <1>TakenOut, <2>1, <2>3
    <2>9. Decisive => (PendingLeft \/ Underway)'
      <3>1. CASE PendingLeft
        <4>1. op'.pc # "deploy_build" /\ Len(rows) <= Len(rows')
          BY <2>a, <2>1
        <4>2. \A j \in Rows : rows[j].status = "pending" => rows'[j].status = "pending"
          BY ZenonT(30), <2>0, <2>1
        <4> QED
          BY ZenonT(30), <2>1, <3>1, <4>1, <4>2, PendingStays
      <3>2. CASE Underway
        BY <2>a, <2>0, <2>1, <2>3, <3>2 DEF Underway, Busy, InDeploymentAt, Transient
      <3> QED
        BY ZenonT(30), <2>a, <3>1, <3>2 DEF FleetInv
    <2>10. Calm => RoutesFit'
      <3> SUFFICES ASSUME Calm PROVE RoutesFit'
        OBVIOUS
      <3>1. RoutesFit
        BY <2>a DEF FleetInv
      <3>2. \A p \in op'.sent :
              proc'[p] \in Rows' /\ rows'[proc'[p]].port = p /\ Serves(proc[p])'
        BY <2>a, <2>1, <2>3, <2>8, CalmIsMore, SentIsServed DEF Own, db
      <3>3. ASSUME NEW p \in routed' PROVE RouteFits(p, proc[p])'
        <4>1. PICK j : j = proc[p]
          OBVIOUS
        <4>2. RouteFits(p, j) /\ j \in Rows /\ proc'[p] = j
          BY <2>a, <3>1, <3>3, <4>1 DEF RoutesFit, gateway, RouteFits, agent
        <4>3. RouteFits(p, j)'
          <5>1. CASE j = i
            BY <2>a, <2>0, <2>1, <2>3, <4>2, <5>1 DEF RouteFits, Serves, db
          <5>2. CASE j # i
            BY <2>a, <2>0, <2>1, <2>3, <4>2, <5>2 DEF RouteFits, Serves, db
          <5> QED
            BY <5>1, <5>2
        <4> QED
          BY <4>2, <4>3
      <3> QED
        BY <2>a, <2>3, <3>2, <3>3 DEF RoutesFit, gateway
    <2> QED
      BY <2>1, <2>4, <2>5, <2>6, <2>7, <2>8, <2>9, <2>10 DEF FleetInv
  \* The same for an instance that is not RUNNING any more.
  <1>OutAlready.
    ASSUME FleetInv, op = Idle, NEW i \in Rows, NEW b \in BOOLEAN,
           rows[i].status \notin {"running", "pending"},
           UNCHANGED <<rows, db, dep, agent, gateway>>, polled' \in {0, polled},
           op' = [Idle EXCEPT !.pc = "heal_sync", !.row = i, !.ok = b,
                              !.sent = Upstreams(rows', active)]
    PROVE  FleetInv'
    <2> USE <1>OutAlready
    <2>0. /\ Types /\ RowFits /\ ReleasesFit /\ i \in Nat /\ op.pc = "idle" /\ rows \in Seq(Row)
          /\ Rows' = Rows /\ RowsStay
      BY IdleFields DEF FleetInv, Rows, Types, RowsStay
    <2>1. Upstreams(rows', active) \subseteq Ports
      BY <2>0, UpstreamPortsNext
    <2>2. op' \in Op /\ op'.pc = "heal_sync" /\ op'.row = i /\ op'.sent = Upstreams(rows', active)
      BY ZenonT(30), <2>0, <2>1, IdleFields DEF Op, Pcs, AwaitsSync
    <2>3. Types' /\ PortsApart'
      BY <2>0, <2>2 DEF Types, db, agent, gateway, FleetInv, PortsApart
    <2>4. RowFits' /\ ListsFit' /\ CountFits'
      <3>1. polled' # 0 => polled' \in Rows' /\ rows'[polled'].status # "pending"
        BY <2>0, PolledKept
      <3> QED
        BY <2>0, <2>2, <3>1 DEF RowFits, ListsFit, CountFits
    <2>5. ReleasesFit'
      BY <2>0, <2>2, ReleasesKept DEF db
    <2>6. Orderly => Unmoved'
      BY <2>2, UnmovedKept DEF FleetInv
    <2>7. Answered => Own'
      BY <2>0, <2>2 DEF FleetInv, Own, OwnProcess, agent
    <2>8. Decisive => (PendingLeft \/ Underway)'
      BY <2>0, <2>2 DEF FleetInv, PendingLeft, Underway, Busy, InDeploymentAt
    <2>9. Calm => RoutesFit'
      <3> SUFFICES ASSUME Calm PROVE RoutesFit'
        OBVIOUS
      <3>1. \A p \in op'.sent :
              proc'[p] \in Rows' /\ rows'[proc'[p]].port = p /\ Serves(proc[p])'
        BY <2>0, <2>2, <2>7, CalmIsMore, SentIsServed DEF Own, db
      <3> QED
        BY <2>0, <2>2, <3>1, RoutesKept DEF FleetInv, db, agent, gateway
    <2> QED
      BY <2>3, <2>4, <2>5, <2>6, <2>7, <2>8, <2>9 DEF FleetInv
  <1>HealKeeps.
    ASSUME FleetInv, NEW i \in Rows, Heal(i)
    PROVE  FleetInv'
    <2> USE <1>HealKeeps
    <2>1. PICK b \in BOOLEAN :
            op' = [Idle EXCEPT !.pc = "heal_sync", !.row = i, !.ok = b,
                               !.sent = Upstreams(rows', active)]
      BY ZenonT(30) DEF Heal
    <2>2. op = Idle /\ polled' \in {0, polled} /\ UNCHANGED <<db, dep, agent, gateway>>
      BY ZenonT(30) DEF Heal
    <2>3. CASE rows[i].status = "running"
      <3>1. /\ op'.pc = "heal_sync" /\ op'.row = i /\ op'.sent = Upstreams(rows', active)
            /\ Upstreams(rows', active) \subseteq Ports => op' \in Op
        <4>1. PICK ports, next : ports = Upstreams(rows', active) /\ next = op'
          OBVIOUS
        <4>2. next = [Idle EXCEPT !.pc = "heal_sync", !.row = i, !.ok = b, !.sent = ports]
          BY <2>1, <4>1
        <4>3. i \in Nat /\ "heal_sync" \in AwaitsSync
          BY DEF AwaitsSync, Rows
        <4>4. next.pc = "heal_sync" /\ next.row = i /\ next.sent = ports
          BY <4>2, IdleFields DEF Op
        <4>5. ASSUME ports \in SUBSET Ports PROVE next \in Op
          BY ZenonT(30), <4>2, <4>3, <4>5, IdleFields DEF Op, Pcs
        <4> QED
          BY <4>1, <4>4, <4>5
      <3> QED
        BY ZenonT(30), <2>2, <2>3, <3>1, <1>TakenOut DEF Heal
    <2>4. CASE rows[i].status # "running"
      <3>1. rows[i].status # "pending"
        <4>1. i # 0
          BY DEF Rows
        <4>2. RowFits
          BY ZenonT(30) DEF FleetInv
        <4>3. i = polled \/ rows[i].status = "unhealthy"
          BY ZenonT(30) DEF Heal
        <4>4. polled # 0 => rows[polled].status # "pending"
          BY ZenonT(30), <4>2 DEF RowFits
        <4> QED
          BY <4>1, <4>3, <4>4
      <3>2. rows' = rows
        BY ZenonT(30), <2>4 DEF Heal
      <3> QED
        BY ZenonT(30), <2>1, <2>2, <2>4, <3>1, <3>2, <1>OutAlready
    <2> QED
      BY <2>3, <2>4
  <1>RestartInstanceStep.
    ASSUME FleetInv, NEW i \in Rows, RestartInstance(i)
    PROVE  FleetInv'
    <2> USE <1>RestartInstanceStep
    <2>1. /\ op'.pc = "restart_sync" /\ op'.row = i /\ op'.sent = Upstreams(rows', active)
          /\ Upstreams(rows', active) \subseteq Ports => op' \in Op
      <3>1. PICK ports, next : ports = Upstreams(rows', active) /\ next = op'
        OBVIOUS
      <3>2. next = [Idle EXCEPT !.pc = "restart_sync", !.row = i, !.sent = ports]
        BY <3>1 DEF RestartInstance
      <3>3. i \in Nat /\ "restart_sync" \in AwaitsSync
        BY DEF AwaitsSync, Rows
      <3>4. next.pc = "restart_sync" /\ next.row = i /\ next.sent = ports
        BY <3>2, IdleFields DEF Op
      <3>5. ASSUME ports \in SUBSET Ports PROVE next \in Op
        BY ZenonT(30), <3>2, <3>3, <3>5, IdleFields DEF Op, Pcs
      <3> QED
        BY <3>1, <3>4, <3>5
    <2> QED
      BY <2>1, <1>TakenOut DEF RestartInstance, Actionable
  <1>StopInstanceStep.
    ASSUME FleetInv, NEW i \in Rows, StopInstance(i)
    PROVE  FleetInv'
    <2> USE <1>StopInstanceStep
    <2>1. /\ op'.pc = "stop_sync" /\ op'.row = i /\ op'.sent = Upstreams(rows', active)
          /\ Upstreams(rows', active) \subseteq Ports => op' \in Op
      <3>1. PICK ports, next : ports = Upstreams(rows', active) /\ next = op'
        OBVIOUS
      <3>2. next = [Idle EXCEPT !.pc = "stop_sync", !.row = i, !.sent = ports]
        BY <3>1 DEF StopInstance
      <3>3. i \in Nat /\ "stop_sync" \in AwaitsSync
        BY DEF AwaitsSync, Rows
      <3>4. next.pc = "stop_sync" /\ next.row = i /\ next.sent = ports
        BY <3>2, IdleFields DEF Op
      <3>5. ASSUME ports \in SUBSET Ports PROVE next \in Op
        BY ZenonT(30), <3>2, <3>3, <3>5, IdleFields DEF Op, Pcs
      <3> QED
        BY <3>1, <3>4, <3>5
    <2> QED
      BY <2>1, <1>TakenOut DEF StopInstance, Actionable
  <1> QED
    BY <1>HealKeeps, <1>RestartInstanceStep, <1>StopInstanceStep

LEMMA InstanceKeeps ==
  ASSUME FleetInv, InstanceStep
  PROVE  FleetInv'
  <1>RestartStartedStep.
    ASSUME FleetInv, NEW reply \in Replies("start"), RestartStarted(reply)
    PROVE  FleetInv'
    <2> USE <1>RestartStartedStep
    <2>0. /\ Types /\ RowFits /\ ReleasesFit /\ op.pc = "restart_start" /\ op.row \in Rows
          /\ rows[op.row].status = "restarting" /\ AgentReplies("start", op.row, reply)
      BY DEF FleetInv, RowFits, RestartStarted
    <2>1. /\ proc' \in [Ports -> Nat] /\ late' \subseteq {"start", "stop"} \X Nat
          /\ Answered => late' = {}
          /\ \A p \in Ports : p # rows[op.row].port => proc'[p] = proc[p]
          /\ reply = "ok" => proc'[rows[op.row].port] = op.row
      BY <2>0, AgentStep
    <2>2. CASE reply = "ok"
      BY <2>0, <2>1, <2>2, RowServes DEF RestartStarted, db
    <2>3. CASE reply # "ok"
      <3>1. /\ Moves(op.row, "failed") /\ op' = Idle
            /\ UNCHANGED <<rels, active, desired, dep, gateway, polled>>
        BY ZenonT(30), <2>0, <2>3, SetMoves DEF RestartStarted, InstanceStatus, db
      <3>2. ReleasesFit'
        BY <2>0, <3>1, IdleFields, ReleasesKept
      <3>3. ~RouteFits(rows[op.row].port, op.row) /\ rows[op.row].status \notin Dead
        BY <2>0 DEF RouteFits, Dead, Serves
      <3>4. (\A j : Busy(j) => j = op.row) /\ op.pc \notin InDeploymentAt
        BY <2>0 DEF Busy, InDeploymentAt
      <3> QED
        BY ZenonT(30), <2>0, <2>1, <3>1, <3>2, <3>3, <3>4, RowGivenUp DEF Dead, Types
    <2> QED
      BY <2>2, <2>3
  <1>StopStoppedStep.
    ASSUME FleetInv, NEW reply \in Replies("stop"), StopStopped(reply)
    PROVE  FleetInv'
    <2> USE <1>StopStoppedStep
    <2>0. /\ Types /\ RowFits /\ ReleasesFit /\ op.pc = "stop_stop" /\ op.row \in Rows
          /\ rows[op.row].status = "draining" /\ AgentReplies("stop", op.row, reply)
      BY ZenonT(30) DEF FleetInv, RowFits, StopStopped
    <2>1. /\ proc' \in [Ports -> Nat] /\ late' \subseteq {"start", "stop"} \X Nat
          /\ Answered => late' = {}
          /\ \A p \in Ports : p # rows[op.row].port => proc'[p] = proc[p]
      BY ZenonT(30), <2>0, AgentStep
    <2>2. PICK s \in {"stopped", "failed"} : rows' = Set(op.row, s)
      BY DEF StopStopped
    <2>3. /\ Moves(op.row, s) /\ op' = Idle
          /\ UNCHANGED <<rels, active, desired, dep, gateway, polled>>
      BY <2>0, <2>2, SetMoves DEF StopStopped, InstanceStatus, db
    <2>4. ReleasesFit'
      BY <2>0, <2>3, IdleFields, ReleasesKept
    <2>5. ~RouteFits(rows[op.row].port, op.row) /\ rows[op.row].status \notin Dead
      BY <2>0 DEF RouteFits, Dead, Serves
    <2>6. (\A j : Busy(j) => j = op.row) /\ op.pc \notin InDeploymentAt
      BY <2>0 DEF Busy, InDeploymentAt
    <2> QED
      BY ZenonT(30), <2>0, <2>1, <2>2, <2>3, <2>4, <2>5, <2>6, RowGivenUp DEF Dead, Types
  <1>1. ASSUME NEW reply \in SyncReplies, RestartSynced(reply) PROVE FleetInv'
    BY <1>1, SyncGoesOn DEF RestartSynced
  <1>2. ASSUME NEW reply \in SyncReplies, RestartedSynced(reply) PROVE FleetInv'
    BY <1>2, SyncEnds DEF RestartedSynced
  <1>3. ASSUME NEW reply \in SyncReplies, StopSynced(reply) PROVE FleetInv'
    BY <1>3, SyncGoesOn DEF StopSynced
  <1> QED
    BY <1>1, <1>2, <1>3, <1>RestartStartedStep, <1>StopStoppedStep DEF InstanceStep
-----------------------------------------------------------------------------
(* What arrives late, and the restart *)

\* The rows that reconcile_stuck_instances leaves.
AllReconciled == [i \in Rows |-> Reconciled(rows[i])]

\* What the operation has in hand does not depend on processes and routes.
LEMMA FitsKept ==
  ASSUME FleetInv, UNCHANGED <<rows, rels, active, desired, dep, op, polled>>
  PROVE  PortsApart' /\ RowFits' /\ ListsFit' /\ ReleasesFit' /\ CountFits'
  <1>1. Rows' = Rows /\ Live' = Live
    BY DEF Rows, Live
  <1>2. PortsApart'
    BY <1>1 DEF FleetInv, PortsApart
  <1>3. RowFits'
    BY <1>1 DEF FleetInv, RowFits
  <1>4. ListsFit'
    BY <1>1 DEF FleetInv, ListsFit, Listed
  <1>5. ReleasesFit'
    BY DEF FleetInv, ReleasesFit, Ready
  <1>6. CountFits'
    BY <1>1 DEF FleetInv, CountFits
  <1> QED
    BY <1>2, <1>3, <1>4, <1>5, <1>6

LEMMA LateKeeps ==
  ASSUME FleetInv, Late
  PROVE  FleetInv'
  <1>LateCommandStep.
    ASSUME FleetInv, LateCommand
    PROVE  FleetInv'
    <2> USE <1>LateCommandStep
    <2>0. /\ UNCHANGED <<rows, rels, active, desired, dep, op, routed, inflight, polled>>
          /\ Types /\ rows \in Seq(Row) /\ Rows' = Rows /\ Live' = Live
      BY DEF LateCommand, db, gateway, FleetInv, Types, Rows, Live
    <2>1. PICK c \in late : proc' \in Attempts(c[1], c[2]) /\ late' = late \ {c}
      BY DEF LateCommand
    <2>2. ~Answered /\ ~Calm
      BY <2>1, CalmIsMore DEF FleetInv, Own
    <2>3. c[2] \in Nat
      BY <2>0, <2>1 DEF Types
    <2>4. proc' \in [Ports -> Nat] /\ late' \subseteq {"start", "stop"} \X Nat
      BY <2>0, <2>1, <2>3 DEF Types, Attempts, Done
    <2>5. Types'
      BY <2>0, <2>4 DEF Types
    <2>6. PortsApart' /\ RowFits' /\ ListsFit' /\ ReleasesFit' /\ CountFits'
      BY <2>0, FitsKept
    <2>7. (Orderly => Unmoved') /\ (Decisive => (PendingLeft \/ Underway)')
      BY <2>0 DEF FleetInv, Unmoved, PendingLeft, Underway, Busy
    <2> QED
      BY <2>2, <2>5, <2>6, <2>7 DEF FleetInv
  \* A reload nobody waits for, or one that is asked for, is not orderly.
  <1>GatewayDisturbed.
    ASSUME FleetInv, UNCHANGED <<rows, rels, active, desired, dep, op, proc, late, polled>>,
           routed' \subseteq Ports, inflight' \subseteq SUBSET Ports, ~Orderly
    PROVE  FleetInv'
    <2> USE <1>GatewayDisturbed
    <2>0. Types /\ Rows' = Rows /\ Live' = Live /\ ~Calm
      BY CalmIsMore DEF FleetInv, Rows, Live
    <2>1. Types'
      BY <2>0 DEF Types
    <2>2. PortsApart' /\ RowFits' /\ ListsFit' /\ ReleasesFit' /\ CountFits'
      BY FitsKept
    <2>3. (Answered => Own') /\ (Decisive => (PendingLeft \/ Underway)')
      BY <2>0 DEF FleetInv, Own, OwnProcess, PendingLeft, Underway, Busy
    <2> QED
      BY <2>0, <2>1, <2>2, <2>3 DEF FleetInv
  <1>0. Types /\ rows \in Seq(Row) /\ routed \subseteq Ports /\ inflight \subseteq SUBSET Ports
    BY DEF FleetInv, Types
  <1>1. CASE LateReload
    <2>1. inflight # {}
      BY <1>1 DEF LateReload
    <2>2. ~Orderly
      BY <2>1 DEF FleetInv, Unmoved
    <2> QED
      BY <1>0, <1>1, <2>2, <1>GatewayDisturbed DEF LateReload, db, agent
  <1>2. CASE ManualSync
    <2>1. Upstreams(rows, active) \in SUBSET Ports
      BY <1>0, UpstreamPorts
    <2>2. ~Orderly
      BY <1>2 DEF ManualSync, Orderly
    <2> QED
      BY <1>0, <1>2, <2>1, <2>2, <1>GatewayDisturbed DEF ManualSync, db, agent
  <1> QED
    BY <1>1, <1>2, <1>LateCommandStep DEF Late

LEMMA CrashKeeps ==
  ASSUME FleetInv, CrashAndReconcile
  PROVE  FleetInv'
  <1>RowsReconciled.
    ASSUME Types, PortsApart, rows' = AllReconciled
    PROVE  /\ rows' \in Seq(Row) /\ Len(rows') = Len(rows) /\ Rows' = Rows /\ PortsApart' /\ RowsStay
           /\ \A i \in Rows : rows'[i].status \notin Transient
    <2> USE <1>RowsReconciled
    <2>1. rows \in Seq(Row) /\ Len(rows) \in Nat
      BY DEF Types
    <2>2. \A i \in Rows : /\ rows'[i] \in Row
                          /\ rows'[i].port = rows[i].port /\ rows'[i].status \notin Transient
                          /\ rows'[i].status = rows[i].status \/ rows'[i].status = "failed"
      <3> SUFFICES ASSUME NEW i \in Rows
                   PROVE  /\ rows'[i] \in Row
                          /\ rows'[i].port = rows[i].port /\ rows'[i].status \notin Transient
                          /\ rows'[i].status = rows[i].status \/ rows'[i].status = "failed"
        OBVIOUS
      <3>1. rows[i] \in Row
        BY RowTypes
      <3>2. rows'[i] = Reconciled(rows[i])
        BY DEF AllReconciled
      <3>3. CASE rows[i].status \in Transient
        <4>1. rows'[i] = [rows[i] EXCEPT !.status = "failed"]
          BY <3>2, <3>3 DEF Reconciled
        <4> QED
          BY <3>1, <4>1 DEF Row, InstanceStatus, Transient
      <3>4. CASE rows[i].status \notin Transient
        BY <3>1, <3>2, <3>4 DEF Reconciled
      <3> QED
        BY <3>3, <3>4
    <2>3. rows' \in [1..Len(rows) -> Row]
      BY <2>2 DEF Rows, AllReconciled
    <2>4. rows' \in Seq(Row) /\ Len(rows') = Len(rows)
      BY <2>1, <2>3
    <2>5. Rows' = Rows
      BY <2>4 DEF Rows
    <2>6. RowsStay
      BY <2>1, <2>2, <2>4 DEF RowsStay
    <2>7. PortsApart'
      BY <2>2, <2>4, PortsKept DEF Dead
    <2> QED
      BY <2>2, <2>4, <2>5, <2>6, <2>7
  <1>0. /\ Types /\ PortsApart /\ RowFits /\ ListsFit /\ ReleasesFit /\ op \in Op
        /\ op' = Idle /\ polled' = 0 /\ UNCHANGED <<rels, active, desired, proc, routed>>
        /\ rows' = AllReconciled
    BY DEF FleetInv, Types, CrashAndReconcile, db, AllReconciled
  <1>1. ~Orderly /\ ~Answered /\ ~Calm
    BY DEF CrashAndReconcile, Orderly, Answered, Calm
  <1>2. /\ rows' \in Seq(Row) /\ Len(rows') = Len(rows) /\ Rows' = Rows /\ PortsApart' /\ RowsStay
        /\ \A i \in Rows : rows'[i].status \notin Transient
    BY <1>0, <1>RowsReconciled
  <1>3. op' \in Op /\ op'.pc = "idle" /\ RowFits' /\ ListsFit' /\ CountFits' /\ ReleasesFit'
    BY <1>0, <1>2, IdleFits, IdleFields, ReleasesKept
  <1>4. late' \subseteq {"start", "stop"} \X Nat
    <2>1. op.row \in Nat /\ late \subseteq {"start", "stop"} \X Nat
      BY <1>0 DEF Op, Types
    <2>2. op.pc \in AwaitsStop \ {"stop_stop"} => Head(op.todo) \in Nat
      <3>1. op.pc \in AwaitsStop \ {"stop_stop"} => op.todo # <<>>
        BY <1>0 DEF AwaitsStop, ListsFit
      <3>2. op.todo \in Seq(Nat)
        BY <1>0 DEF Op
      <3> QED
        BY <3>1, <3>2
    <2> QED
      BY <2>1, <2>2 DEF CrashAndReconcile
  <1>5. inflight' \subseteq SUBSET Ports
    <2>1. op.sent \in SUBSET Ports /\ inflight \subseteq SUBSET Ports
      BY <1>0 DEF Op, Types
    <2> QED
      BY <2>1 DEF CrashAndReconcile
  <1>6. dep' \in DeploymentStatus /\ dep' # "in_progress"
    BY <1>0 DEF CrashAndReconcile, Types, DeploymentStatus
  <1>7. Types'
    BY <1>0, <1>2, <1>3, <1>4, <1>5, <1>6 DEF Types
  <1>8. Underway'
    BY <1>2, <1>6 DEF Underway
  <1> QED
    BY <1>1, <1>2, <1>3, <1>7, <1>8 DEF FleetInv

LEMMA StutterKeeps ==
  ASSUME FleetInv, UNCHANGED vars
  PROVE  FleetInv'
  <1>1. Rows' = Rows /\ Live' = Live
        /\ UNCHANGED <<rows, rels, active, desired, dep, op, proc, late, routed, inflight, polled>>
    BY DEF vars, Rows, Live
  <1>2. Types' /\ PortsApart' /\ RowFits' /\ ListsFit' /\ ReleasesFit' /\ CountFits'
    <2>1. Types'
      BY <1>1 DEF FleetInv, Types
    <2> QED
      BY <1>1, <2>1, FitsKept
  <1>3. /\ (Orderly => Unmoved') /\ (Answered => Own')
        /\ (Decisive => (PendingLeft \/ Underway)')
    BY <1>1 DEF FleetInv, Unmoved, Own, OwnProcess, PendingLeft, Underway, Busy
  <1>4. Calm => RoutesFit'
    <2>1. \A p \in routed : RouteFits(p, proc[p]) => RouteFits(p, proc[p])'
      BY <1>1 DEF RouteFits, Serves
    <2> QED
      BY ZenonT(30), <1>1, <2>1 DEF FleetInv, RoutesFit, Serves
  <1> QED
    BY <1>2, <1>3, <1>4 DEF FleetInv
-----------------------------------------------------------------------------
(* What a step does to the rows and to their processes *)

\* A row keeps its port and follows the table, and a dead one stays as it is.
RowFollows(i) ==
    /\ rows'[i].port = rows[i].port
    /\ \/ rows'[i].status = rows[i].status
       \/ rows[i].status \notin Dead /\ May(i, rows'[i].status)

\* A row is new in one of two statuses.
RowBegins(i) ==
    \/ rows'[i].status = "starting"
    \/ rows'[i].status = "pending" /\ op'.pc = "deploy_build" /\ op'.row = i

\* The process of a row that becomes STOPPED is gone; none comes up for a STOPPED
\* row, and a start that is not answered in time has made its row FAILED.
ProcessesFollow ==
    /\ \A i \in Rows : rows'[i].status = "stopped" /\ rows[i].status # "stopped"
                         => proc'[rows[i].port] # i
    /\ \A p \in Ports : \/ proc'[p] \in {proc[p], 0}
                        \/ proc'[p] \in Rows /\ rows'[proc'[p]].status # "stopped"
    /\ \A c \in late' \ late :
         c[1] = "start" => c[2] \in Rows /\ rows'[c[2]].status = "failed"

\* The agent can stop what it is told to stop.
CanStop == "stop_fails" \notin Faults

\* All of it; what a command nobody waits for any more does is said where it is used.
RowsFollow ==
    /\ \A i \in Rows : i \in Rows' /\ RowFollows(i)
    /\ \A i \in Rows' \ Rows : RowBegins(i)
    /\ CanStop => ProcessesFollow \/ LateCommand

\* A step that touches neither rows nor processes.
LEMMA StillFollows ==
  ASSUME rows' = rows, UNCHANGED agent
  PROVE  RowsFollow
  BY DEF RowsFollow, RowFollows, ProcessesFollow, agent, Rows

\* A row moves along the table, to a status other than STOPPED.
LEMMA MoveFollows ==
  ASSUME FleetInv, NEW i \in Rows, NEW s \in InstanceStatus, Moves(i, s), UNCHANGED agent,
         s = rows[i].status \/ (s # "stopped" /\ rows[i].status \notin Dead /\ May(i, s))
  PROVE  RowsFollow
  <1>1. Rows' = Rows
    BY DEF Moves, Rows
  <1>2. \A j \in Rows : RowFollows(j) /\ (rows'[j].status = "stopped" => rows[j].status = "stopped")
    BY DEF Moves, RowFollows
  <1> QED
    BY ZenonT(30), <1>1, <1>2 DEF RowsFollow, ProcessesFollow, agent

\* The answer to a start; a row whose start has failed is FAILED.
LEMMA StartFollows ==
  ASSUME FleetInv, NEW i \in Rows, rows[i].status \in {"starting", "restarting"},
         NEW reply \in Replies("start"), AgentReplies("start", i, reply),
         \/ rows' = rows /\ reply = "ok"
         \/ rows' = Set(i, "running") /\ reply = "ok"
         \/ rows' = Set(i, "failed")
  PROVE  RowsFollow
  <1>0. Types /\ rows[i].port \in Ports /\ rows[i].status \in InstanceStatus
    BY RowTypes DEF FleetInv
  <1>1. PICK s \in {"starting", "restarting", "running", "failed"} :
          /\ Rows' = Rows /\ rows'[i].status = s /\ rows'[i].port = rows[i].port
          /\ s = rows[i].status \/ s \in {"running", "failed"}
          /\ s = "failed" \/ reply = "ok"
          /\ \A j \in Rows : j # i => rows'[j] = rows[j]
    <2>1. CASE rows' = rows /\ reply = "ok"
      BY <2>1 DEF Rows
    <2>2. CASE rows' = Set(i, "running") /\ reply = "ok"
      <3>1. Moves(i, "running")
        BY <1>0, <2>2, SetMoves DEF InstanceStatus
      <3> QED
        BY <2>2, <3>1 DEF Moves, Rows
    <2>3. CASE rows' = Set(i, "failed")
      <3>1. Moves(i, "failed")
        BY <1>0, <2>3, SetMoves DEF InstanceStatus
      <3> QED
        BY <2>3, <3>1 DEF Moves, Rows
    <2> QED
      BY <2>1, <2>2, <2>3
  <1>2. \A j \in Rows : RowFollows(j)
    <2>1. s # rows[i].status => May(i, s)
      BY <1>0, <1>1, Edges DEF May
    <2> QED
      BY <1>1, <2>1 DEF RowFollows, Dead
  <1>3. ProcessesFollow
    <2>1. \A p \in Ports : proc'[p] \in {proc[p], 0, i}
      BY <1>0 DEF Types, AgentReplies, Attempts, Done
    <2>2. \A c \in late' \ late : c[2] = i /\ reply # "ok"
      BY DEF AgentReplies
    <2> QED
      BY <1>1, <2>1, <2>2 DEF ProcessesFollow
  <1> QED
    BY <1>1, <1>2, <1>3 DEF RowsFollow

\* The answer to a stop; an answer that is late makes the row FAILED.
LEMMA StopFollows ==
  ASSUME FleetInv, NEW i \in Rows, rows[i].status \in {"running", "draining"},
         NEW reply \in Replies("stop"), AgentReplies("stop", i, reply),
         NEW s \in {"running", "stopped", "failed"},
         rows' = rows \/ (rows' = Set(i, s) /\ May(i, s)),
         reply = "late" => s # "stopped"
  PROVE  RowsFollow
  <1>0. Types /\ rows[i].port \in Ports /\ s \in InstanceStatus
    BY RowTypes DEF FleetInv, InstanceStatus
  <1>1. /\ Rows' = Rows /\ rows'[i].port = rows[i].port
        /\ rows'[i].status = rows[i].status \/ (rows'[i].status = s /\ May(i, s))
        /\ \A j \in Rows : j # i => rows'[j] = rows[j]
    <2>1. CASE rows' = rows
      BY <2>1 DEF Rows
    <2>2. CASE rows' = Set(i, s) /\ May(i, s)
      <3>1. Moves(i, s)
        BY <1>0, <2>2, SetMoves
      <3> QED
        BY <2>2, <3>1 DEF Moves, Rows
    <2> QED
      BY <2>1, <2>2
  <1>2. \A j \in Rows : RowFollows(j)
    BY <1>1 DEF RowFollows, Dead
  <1>3. ASSUME CanStop PROVE ProcessesFollow
    <2>1. reply \in {"ok", "late"}
      BY <1>3, AgentAnswers DEF CanStop
    <2>2. \A p \in Ports : proc'[p] \in {proc[p], 0}
      BY <1>0 DEF Types, AgentReplies, Attempts, Done
    <2>3. reply = "ok" => proc'[rows[i].port] = 0
      BY <1>0 DEF Types, AgentReplies, Done
    <2>4. i # 0
      BY DEF Rows
    <2>5. \A c \in late' \ late : c[1] = "stop"
      BY DEF AgentReplies
    <2>6. \A j \in Rows : rows'[j].status = "stopped" /\ rows[j].status # "stopped"
                            => j = i /\ reply = "ok"
      BY <1>1, <2>1
    <2>7. \A j \in Rows : rows'[j].status = "stopped" /\ rows[j].status # "stopped"
                            => proc'[rows[j].port] # j
      BY <2>3, <2>4, <2>6
    <2> QED
      BY <2>2, <2>5, <2>7 DEF ProcessesFollow
  <1> QED
    BY <1>1, <1>2, <1>3 DEF RowsFollow

\* A row is added.
LEMMA AddFollows ==
  ASSUME Counting, FleetInv, FreePorts # {}, NEW rel \in 0..MaxReleases,
         NEW s \in {"starting", "pending"}, NEW attempts \in 0..MaxRestarts,
         rows' = Allocated(rel, s, attempts), UNCHANGED agent,
         s = "pending" => op'.pc = "deploy_build" /\ op'.row = Len(rows')
  PROVE  RowsFollow
  <1>1. /\ Rows' = Rows \cup {Len(rows')} /\ rows'[Len(rows')].status = s
        /\ \A j \in Rows : rows'[j] = rows[j]
    BY RowAdded DEF InstanceStatus
  <1>2. \A j \in Rows : j \in Rows' /\ RowFollows(j)
    BY <1>1 DEF RowFollows
  <1>3. \A j \in Rows' \ Rows : RowBegins(j)
    BY <1>1 DEF RowBegins
  <1> QED
    BY <1>1, <1>2, <1>3 DEF RowsFollow, ProcessesFollow, agent

\* Rows are set DRAINING together.
LEMMA DrainFollows ==
  ASSUME FleetInv, NEW d \in SUBSET Rows, \A i \in d : rows[i].status \in {"running", "unhealthy"},
         rows' = Draining(d), UNCHANGED agent
  PROVE  RowsFollow
  <1>1. /\ Rows' = Rows
        /\ \A i \in Rows : /\ rows'[i].port = rows[i].port
                           /\ i \in d => rows'[i].status = "draining"
                           /\ i \notin d => rows'[i] = rows[i]
    BY RowsDraining DEF FleetInv, Dead
  <1>2. \A i \in d : May(i, "draining")
    BY Edges DEF May, InstanceStatus
  <1>3. \A i \in Rows : RowFollows(i) /\ (rows'[i].status = "stopped" => rows[i].status = "stopped")
    BY <1>1, <1>2 DEF RowFollows, Dead
  <1> QED
    BY <1>1, <1>3 DEF RowsFollow, ProcessesFollow, agent

\* The row at the head of a list of rows.
LEMMA HeadListed ==
  ASSUME Types, NEW status, op.todo # <<>>, Listed(op.todo, status)
  PROVE  Head(op.todo) \in Rows /\ rows[Head(op.todo)].status = status
  <1>1. op.todo \in Seq(Nat) /\ op.todo # <<>>
    BY DEF Types, Op
  <1>2. Head(op.todo) = op.todo[1] /\ 1 \in DOMAIN op.todo
    BY <1>1
  <1> QED
    BY <1>2 DEF Listed

\* The answer to the stop of a DRAINING row.
LEMMA DrainedFollows ==
  ASSUME FleetInv, op.todo # <<>>, Listed(op.todo, "draining"), NEW reply \in Replies("stop"),
         AgentReplies("stop", Head(op.todo), reply),
         rows' = Set(Head(op.todo), IF reply = "ok" THEN "stopped" ELSE "failed")
  PROVE  RowsFollow
  <1>1. PICK i : i = Head(op.todo)
    OBVIOUS
  <1>2. i \in Rows /\ rows[i].status = "draining"
    BY <1>1, HeadListed DEF FleetInv
  <1>3. PICK s \in {"stopped", "failed"} :
          rows' = Set(i, s) /\ (reply = "late" => s # "stopped")
    BY <1>1
  <1>4. May(i, s)
    BY <1>2, <1>3 DEF May, CanTransition, InstanceTransitions
  <1> QED
    BY <1>1, <1>2, <1>3, <1>4, StopFollows

\* The steps of a first deploy.
LEMMA DeploymentFollows ==
  ASSUME FleetInv, DeploymentStep
  PROVE  RowsFollow
  <1>0. Types /\ RowFits
    BY DEF FleetInv
  <1>1. ASSUME NEW reply \in Replies("build"), DeployBuilt(reply) PROVE RowsFollow
    <2>1. op.row \in Rows /\ rows[op.row].status = "pending"
      BY <1>0, <1>1 DEF DeployBuilt, RowFits
    <2>2. PICK s \in {"starting", "failed"} : rows' = Set(op.row, s)
      BY <1>1 DEF DeployBuilt
    <2>3. Moves(op.row, s) /\ s \in InstanceStatus
      BY <1>0, <2>1, <2>2, SetMoves DEF InstanceStatus
    <2>4. May(op.row, s)
      BY <2>1, <2>2 DEF May, CanTransition, InstanceTransitions
    <2> QED
      BY <1>1, <2>1, <2>3, <2>4, MoveFollows DEF DeployBuilt, Dead
  <1>2. ASSUME NEW reply \in Replies("start"), DeployStarted(reply) PROVE RowsFollow
    <2>1. op.row \in Rows /\ rows[op.row].status = "starting"
      BY <1>0, <1>2 DEF DeployStarted, RowFits
    <2> QED
      BY <1>2, <2>1, StartFollows DEF DeployStarted
  <1>3. ASSUME NEW reply \in SyncReplies, DeploySynced(reply) PROVE RowsFollow
    BY <1>3, StillFollows DEF DeploySynced
  <1> QED
    BY <1>1, <1>2, <1>3 DEF DeploymentStep

\* The steps of a restart and of a stop.
LEMMA InstanceFollows ==
  ASSUME FleetInv, InstanceStep
  PROVE  RowsFollow
  <1>0. Types /\ RowFits
    BY DEF FleetInv
  <1>1. ASSUME NEW reply \in SyncReplies,
               RestartSynced(reply) \/ RestartedSynced(reply) \/ StopSynced(reply)
        PROVE  RowsFollow
    BY <1>1, StillFollows DEF RestartSynced, RestartedSynced, StopSynced
  <1>2. ASSUME NEW reply \in Replies("start"), RestartStarted(reply) PROVE RowsFollow
    <2>1. op.row \in Rows /\ rows[op.row].status = "restarting"
      BY <1>0, <1>2 DEF RestartStarted, RowFits
    <2> QED
      BY <1>2, <2>1, StartFollows DEF RestartStarted
  <1>3. ASSUME NEW reply \in Replies("stop"), StopStopped(reply) PROVE RowsFollow
    <2>1. op.row \in Rows /\ rows[op.row].status = "draining"
      BY <1>0, <1>3 DEF StopStopped, RowFits
    <2>2. PICK s \in {"stopped", "failed"} :
            rows' = Set(op.row, s) /\ (reply = "late" => s # "stopped")
      BY <1>3 DEF StopStopped
    <2>3. May(op.row, s)
      BY <2>1, <2>2 DEF May, CanTransition, InstanceTransitions
    <2> QED
      BY <1>3, <2>1, <2>2, <2>3, StopFollows DEF StopStopped
  <1> QED
    BY <1>1, <1>2, <1>3 DEF InstanceStep

\* A first deploy's build is left with its row no longer PENDING.
LEMMA BuildEnds ==
  ASSUME FleetInv, [Next]_vars, op.pc = "deploy_build", "crash" \notin Faults
  PROVE  op' = op \/ rows'[op.row].status # "pending"
  <1>0. Types /\ op.row \in Rows /\ op # Idle
    BY IdleFields DEF FleetInv, RowFits
  <1>1. CASE DeploymentStep
    <2>1. PICK s \in {"starting", "failed"} : rows' = Set(op.row, s)
      BY <1>1 DEF DeploymentStep, DeployBuilt, DeployStarted, DeploySynced
    <2>2. Moves(op.row, s)
      BY <1>0, <2>1, SetMoves DEF InstanceStatus
    <2> QED
      BY <2>1, <2>2 DEF Moves
  <1>2. ~Request /\ ~CrashAndReconcile
    BY ZenonT(30), <1>0 DEF Request, Refuse, StartDeployment, StartScale, StartNewRelease, StartRollback,
                RestartInstance, StopInstance, CrashAndReconcile
  <1>3. CASE Monitor \/ Late \/ UNCHANGED vars
    BY ZenonT(30), <1>0, <1>3 DEF Monitor, Poll, PollEnds, Heal, Late, LateCommand, LateReload, ManualSync, vars
  <1>4. ~ScaleStep
    BY DEF ScaleStep, ScaleUpNext, ScaleUpStarted, ScaleUpChecked, ScaleDownSynced, ScaleSynced,
           ScaleDownStopped, ScaleDone
  <1>5. ~ReleaseStep
    BY DEF ReleaseStep, ReleaseBuilt, GateNext, GateStarted, GateChecked, AbortStopped,
           DrainStopped, SwitchSynced, DrainOldRelease, PruneRelease, PruneEnds
  <1>6. ~HealStep
    BY DEF HealStep, HealSynced, HealedSynced, HealDecides, HealStarted, ReplaceStarted,
           HealChecked, ReplaceChecked, Replace
  <1>7. ~InstanceStep
    BY DEF InstanceStep, RestartSynced, RestartedSynced, StopSynced, RestartStarted, StopStopped
  <1> QED
    BY <1>1, <1>2, <1>3, <1>4, <1>5, <1>6, <1>7 DEF Next, OperationStep

\* reconcile_on_startup fails the rows an operation has left mid-transition, the
\* one whose start is still on its way among them.
LEMMA CrashFollows ==
  ASSUME FleetInv, CrashAndReconcile
  PROVE  RowsFollow
  <1>0. /\ Types /\ RowFits /\ rows \in Seq(Row)
        /\ rows' = [i \in Rows |-> Reconciled(rows[i])] /\ proc' = proc
    BY DEF FleetInv, Types, CrashAndReconcile
  <1>1. Rows' = Rows
    BY <1>0 DEF Rows
  <1>2. ASSUME NEW i \in Rows
        PROVE  /\ RowFollows(i)
               /\ rows[i].status \in Transient => rows'[i].status = "failed"
               /\ rows'[i].status = "stopped" => rows[i].status = "stopped"
    <2>1. rows[i] \in Row /\ rows'[i] = Reconciled(rows[i])
      BY <1>0, <1>2, RowTypes
    <2>2. CASE rows[i].status \in Transient
      <3>1. rows'[i].status = "failed" /\ rows'[i].port = rows[i].port
        BY <2>1, <2>2 DEF Reconciled, Row
      <3>2. May(i, "failed")
        BY <2>2, Edges DEF May, Transient, InstanceStatus
      <3> QED
        BY <2>2, <3>1, <3>2 DEF RowFollows, Transient, Dead
    <2>3. CASE rows[i].status \notin Transient
      BY <2>1, <2>3 DEF Reconciled, RowFollows
    <2> QED
      BY <2>2, <2>3
  <1>3. \A c \in late' \ late : c[1] = "start" => op.pc \in AwaitsStart /\ c[2] = op.row
    BY DEF CrashAndReconcile
  <1>4. op.pc \in AwaitsStart => op.row \in Rows /\ rows[op.row].status \in Transient
    BY <1>0 DEF RowFits, AwaitsStart, Transient
  <1>5. ProcessesFollow
    BY <1>0, <1>2, <1>3, <1>4 DEF ProcessesFollow
  <1> QED
    BY <1>1, <1>2, <1>5 DEF RowsFollow
=============================================================================
