------------------------------- MODULE Fleet -------------------------------
(***************************************************************************)
(* What the operations on one application share: the Instance, Release,    *)
(* Application and Deployment rows, the processes the agent runs for it,   *)
(* the ports Nginx routes to, and the calls that connect them              *)
(* (deployment_service.py, scale_service.py, gateway_service.py,           *)
(* repositories/instance_repository.py).                                   *)
(*                                                                         *)
(* One operation runs at a time: the operation lock is the subject of      *)
(* OperationLock, and here it is taken and given back with op.  An action  *)
(* is the code between two awaits.  A reply of the agent or of the gateway *)
(* is taken together with its effect, except when the wait ends without    *)
(* one: the command or the reload then stays on its way and may take       *)
(* effect at any later time.  The application has a domain and a health    *)
(* check.                                                                  *)
(***************************************************************************)
EXTENDS Naturals, Sequences, FiniteSets, StateMachines

CONSTANTS
    NPorts,        \* port_range_start .. port_range_end is 1 .. NPorts
    MaxReplicas,   \* max_replicas (min_replicas is 1)
    MaxRestarts,   \* HealthCheck.max_restart_attempts
    Keep,          \* release_retention_count
    MaxRows,       \* bound: Instance rows ever created
    MaxReleases,   \* bound: Release rows ever created
    MaxLate,       \* bound: commands and reloads on their way unawaited
    Faults         \* what may go wrong

FaultKinds ==
    {"build_fails", "start_fails", "stop_fails", "late", "unhealthy",
     "gateway_rejects", "gateway_late", "manual_sync", "agent_gone", "crash"}

ASSUME FleetConstants ==
    /\ {NPorts, MaxReplicas, Keep, MaxRows, MaxReleases, MaxLate}
         \subseteq Nat \ {0}
    /\ MaxRestarts \in Nat
    /\ Faults \subseteq FaultKinds

VARIABLES
    rows,      \* the Instance rows, in order of creation
    rels,      \* the status of the Release rows, in order of creation
    active,    \* Application.active_release_id; 0 is NULL
    desired,   \* Application.desired_replicas
    dep,       \* the status of the newest Deployment row
    op,        \* the operation that holds the lock, and where it is
    proc,      \* the row whose process the agent last started on each port
    late,      \* agent commands nobody waits for any more
    routed,    \* the ports in the upstream Nginx has loaded
    inflight,  \* reloads nobody waits for any more
    polled     \* the instance the health monitor is polling

vars == <<rows, rels, active, desired, dep, op, proc, late, routed, inflight,
          polled>>
db == <<rels, active, desired>>
agent == <<proc, late>>
gateway == <<routed, inflight>>

Ports == 1..NPorts
Rows == 1..Len(rows)

\* The statuses the partial unique index leaves out: the port is free again.
Dead == {"stopped", "failed"}

\* _LIVE_STATUSES: the instances that count as replicas.
Live == {i \in Rows : rows[i].status \in
                        {"pending", "starting", "running", "unhealthy"}}

Idle == [pc |-> "idle", row |-> 0, todo |-> <<>>, new |-> <<>>, rel |-> 0,
         before |-> 0, was |-> {}, left |-> 0, ok |-> TRUE, sent |-> {}]

AwaitsStart ==
    {"deploy_start", "up_start", "gate_start", "heal_start", "replace_start",
     "restart_start"}
AwaitsStop == {"down_stop", "abort_stop", "drain_stop", "stop_stop"}
AwaitsSync ==
    {"deploy_sync", "down_sync", "scale_sync", "switch_sync", "heal_sync",
     "healed_sync", "restart_sync", "restarted_sync", "stop_sync"}
AwaitsElse ==
    {"idle", "deploy_build", "up_next", "up_health", "scale_done",
     "switch_build", "gate_next", "gate_health", "drain", "prune", "heal",
     "heal_health", "replace", "replace_health"}

TypeOK ==
    /\ Len(rows) <= MaxRows
    /\ \A i \in Rows :
         rows[i] \in [status : InstanceStatus, rel : 0..MaxReleases,
                      port : Ports, attempts : 0..MaxRestarts, tried : BOOLEAN]
    /\ Len(rels) <= MaxReleases
    /\ \A r \in DOMAIN rels :
         rels[r] \in {"building", "ready", "failed", "pruned"}
    /\ active \in 0..Len(rels)
    /\ desired \in 1..MaxReplicas
    /\ dep \in DeploymentStatus
    /\ op.pc \in AwaitsStart \cup AwaitsStop \cup AwaitsSync \cup AwaitsElse
    /\ op.row \in 0..Len(rows)
    /\ op.sent \subseteq Ports
    /\ proc \in [Ports -> 0..Len(rows)]
    /\ late \subseteq {"start", "stop"} \X Rows
    /\ routed \subseteq Ports
    /\ inflight \subseteq SUBSET Ports
    /\ polled \in 0..Len(rows)
    /\ \A i, j \in Rows :
         i # j /\ rows[i].status \notin Dead /\ rows[j].status \notin Dead
           => rows[i].port # rows[j].port

\* An application that was created and never deployed.
Init ==
    /\ rows = <<>>
    /\ rels = <<>>
    /\ active = 0
    /\ desired = 1
    /\ dep = "pending"
    /\ op = Idle
    /\ proc = [p \in Ports |-> 0]
    /\ late = {}
    /\ routed = {}
    /\ inflight = {}
    /\ polled = 0
-----------------------------------------------------------------------------
(* Rows *)

\* InstanceRepository.transition: an edge the table lacks raises.
May(i, s) == CanTransition(InstanceTransitions, rows[i].status, s)
Set(i, s) == [rows EXCEPT ![i].status = s]

\* _allocate_instance tries the ports in order; the unique index refuses those
\* a row that is neither STOPPED nor FAILED holds.
FreePorts ==
    Ports \ {rows[i].port : i \in {j \in Rows : rows[j].status \notin Dead}}

Allocated(rel, status, attempts) ==
    Append(rows,
      [status |-> status, rel |-> rel, attempts |-> attempts, tried |-> FALSE,
       port |-> CHOOSE p \in FreePorts : \A q \in FreePorts : p <= q])

\* Bound: an operation starts only when the rows it may create fit.
Room(n) == Len(rows) + n <= MaxRows

\* Replica i's turn is the newest live instance first.
NewestFirst(s, n) ==
    [k \in 1..n |-> CHOOSE i \in s : Cardinality({j \in s : j > i}) = k - 1]

\* The application's operation ends; its lock is released in a finally block.
End(status) == dep' = status /\ op' = Idle

\* An exception leaves the operation before it has written anything: the lock is
\* released and the Deployment row stays as it is.
Raise ==
    op' = Idle /\ UNCHANGED <<rows, db, dep, agent, gateway, polled>>

\* Bound: nothing more is sent without an answer while MaxLate are on their way.
RoomForLate == Cardinality(late) + Cardinality(inflight) < MaxLate
-----------------------------------------------------------------------------
(* The agent: submit_command_and_wait as the operations use it *)

FaultOf ==
    [build |-> "build_fails", start |-> "start_fails", stop |-> "stop_fails"]

Replies(type) ==
    {"ok"}
    \cup (IF FaultOf[type] \in Faults THEN {"failed"} ELSE {})
    \cup (IF "late" \in Faults THEN {"late"} ELSE {})

\* start_instance removes whatever runs under Healer-<slug>-<port> and starts
\* the row's own process; stop_instance removes it.
Done(type, i) ==
    [proc EXCEPT ![rows[i].port] = IF type = "start" THEN i ELSE 0]

\* A step that fails leaves the service as it was, removed, or started.
Attempts(type, i) ==
    {proc, [proc EXCEPT ![rows[i].port] = 0], Done(type, i)}

AgentReplies(type, i, reply) ==
    \/ reply = "ok" /\ proc' = Done(type, i) /\ late' = late
    \/ reply = "failed" /\ proc' \in Attempts(type, i) /\ late' = late
    \/ /\ reply = "late" /\ RoomForLate
       /\ proc' = proc /\ late' = late \cup {<<type, i>>}

\* A command nobody waits for is executed after all, fails, or is never sent.
LateCommand ==
    \E c \in late :
      /\ proc' \in Attempts(c[1], c[2])
      /\ late' = late \ {c}
      /\ UNCHANGED <<rows, db, dep, op, gateway, polled>>

\* wait_until_healthy's answer.
Verdicts == IF "unhealthy" \in Faults THEN BOOLEAN ELSE {TRUE}
-----------------------------------------------------------------------------
(* The gateway: gateway_service.py *)

\* _build_reload_payload: the RUNNING instances of the active release.
Upstreams(instances, release) ==
    {instances[i].port : i \in
       {j \in DOMAIN instances : /\ instances[j].status = "running"
                                 /\ release \in {0, instances[j].rel}}}

\* sync_gateway up to its await; pc is where the operation waits.
Sync(pc) ==
    op' = [op EXCEPT !.pc = pc, !.sent = Upstreams(rows', active')]

SyncReplies ==
    {"ok"}
    \cup (IF "gateway_rejects" \in Faults THEN {"rejected"} ELSE {})
    \cup (IF "gateway_late" \in Faults THEN {"late"} ELSE {})

\* sync_gateway's result: the reload was applied, was refused with the previous
\* file restored, or did not answer within 15 seconds.
GatewayReplies(reply) ==
    \/ reply = "ok" /\ routed' = op.sent /\ inflight' = inflight
    \/ reply = "rejected" /\ UNCHANGED gateway
    \/ /\ reply = "late" /\ RoomForLate
       /\ routed' = routed /\ inflight' = inflight \cup {op.sent}

\* A reload nobody waits for is applied or refused.
LateReload ==
    \E s \in inflight :
      /\ routed' \in {s, routed}
      /\ inflight' = inflight \ {s}
      /\ UNCHANGED <<rows, db, dep, op, agent, polled>>

\* POST /gateway/sync takes no lock: its reload may arrive at any later time.
ManualSync ==
    /\ "manual_sync" \in Faults /\ RoomForLate
    /\ inflight' = inflight \cup {Upstreams(rows, active)}
    /\ UNCHANGED <<rows, db, dep, op, agent, routed, polled>>
============================================================================
