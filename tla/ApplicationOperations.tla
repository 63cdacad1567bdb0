----------------------- MODULE ApplicationOperations -----------------------
(***************************************************************************)
(* All operations on one application, the commands and reloads that arrive *)
(* late, and the restart of the control plane with reconcile_on_startup    *)
(* (services/reconcile_service.py).                                        *)
(***************************************************************************)
EXTENDS DeploymentService, ScaleService, ReleaseService, HealingService,
        InstanceService

\* What reconcile_stuck_instances looks for.
Transient == {"starting", "restarting", "draining"}

\* Faulty variant: DRAINING instances are not looked for.
ReconciledUnlessDraining(row) ==
    IF row.status \in {"starting", "restarting"}
    THEN [row EXCEPT !.status = "failed"] ELSE row

Reconciled(row) ==
    IF row.status \in Transient THEN [row EXCEPT !.status = "failed"] ELSE row

\* The process dies; what an operation had sent is still on its way.  The next
\* process fails the Deployment and the instances it left mid-transition.
CrashAndReconcile ==
    /\ "crash" \in Faults /\ RoomForLate
    /\ op # Idle
    /\ op' = Idle
    /\ polled' = 0
    /\ dep' = IF dep = "in_progress" THEN "failed" ELSE dep
    /\ rows' = [i \in Rows |-> Reconciled(rows[i])]
    /\ late' = late
         \cup (IF op.pc \in AwaitsStart THEN {<<"start", op.row>>} ELSE {})
         \cup (IF op.pc = "stop_stop" THEN {<<"stop", op.row>>} ELSE {})
         \cup (IF op.pc \in AwaitsStop \ {"stop_stop"}
               THEN {<<"stop", Head(op.todo)>>} ELSE {})
    /\ inflight' = inflight
         \cup (IF op.pc \in AwaitsSync THEN {op.sent} ELSE {})
    /\ UNCHANGED <<db, proc, routed>>

\* A setup error (no agent connected, no release, no port, nothing to roll back
\* to): the route answers 409.  Nothing has changed, except that a first deploy
\* without a free port leaves a PENDING Release row, which nothing reads.
Refuse == op = Idle /\ UNCHANGED vars

Request ==
    \/ Refuse
    \/ StartDeployment
    \/ \E target \in 1..MaxReplicas : StartScale(target)
    \/ StartNewRelease
    \/ \E release \in DOMAIN rels : StartRollback(release)
    \/ \E i \in Rows : RestartInstance(i) \/ StopInstance(i)

Monitor ==
    \/ \E i \in Rows : Poll(i) \/ Heal(i)
    \/ PollEnds

OperationStep ==
    DeploymentStep \/ ScaleStep \/ ReleaseStep \/ HealStep \/ InstanceStep

Late == LateCommand \/ LateReload \/ ManualSync

Next == Request \/ Monitor \/ OperationStep \/ Late \/ CrashAndReconcile

Spec == Init /\ [][Next]_vars

\* Every await of an operation ends: agent waits by wait_seconds, reloads after
\* 15 seconds, health gates after healthy + unhealthy threshold polls.
FairSpec == Spec /\ WF_vars(OperationStep)
-----------------------------------------------------------------------------
\* No process is stopped or replaced while Nginx routes to its port: an instance
\* leaves the upstream before the agent touches it, in a scale-down, a switch,
\* a stop, a restart or a healing.
NeverStopRouted ==
    [][\A p \in routed : proc[p] # 0 => proc'[p] = proc[p]]_vars

\* When no operation runs and no reload is on its way, Nginx routes only to the
\* ports of RUNNING instances of the active release (_build_reload_payload).
RoutesAreUpstreams ==
    op = Idle /\ inflight = {} => routed \subseteq Upstreams(rows, active)

\* The same, except for instances that a scale-down which could not drain all of
\* its instances has left DRAINING.
RoutesAreCurrent ==
    op = Idle /\ inflight = {} =>
      routed \subseteq Upstreams(rows, active)
        \cup {rows[i].port : i \in {j \in Rows : rows[j].status = "draining"}}

\* A port that Nginx routes to is served by an instance that was RUNNING:
\* nothing that is still being started, or that failed, receives traffic.
TrafficIsGated ==
    \A p \in routed :
      /\ proc[p] # 0
      /\ rows[proc[p]].status \in
           {"running", "unhealthy", "restarting", "draining"}

\* The process on a RUNNING instance's port is that instance's own.
OwnProcess ==
    \A i \in Rows : rows[i].status = "running" => proc[rows[i].port] = i

\* A scale that reports success leaves exactly the replicas that were asked for.
ScaleMeetsTarget ==
    [][op.pc = "scale_sync" /\ dep' = "succeeded"
         => Cardinality(Live') = desired']_vars

\* The active release is one that was built and not pruned, whatever order of
\* deploys, rollbacks, rejected switches and prunings led to it.
ActiveIsBuilt == active # 0 => rels[active] = "ready"

\* A blue-green switch that fails leaves the active release and the upstream as
\* they were when it began.
FailedSwitchChangesNothing ==
    [][op.pc \in {"switch_build", "gate_next", "gate_start", "gate_health",
                  "abort_stop", "switch_sync"}
         /\ op' = Idle
         => active' = op.before /\ routed' = op.was]_vars

\* A switch that the health gate aborts leaves no process of the instances it
\* started.
AbortStopsAll ==
    [][op.pc \in {"gate_health", "abort_stop"} /\ op' = Idle
         => \A p \in Ports :
              proc'[p] \notin {op.row} \cup {op.new[k] : k \in DOMAIN op.new}]_vars

\* A switch that is aborted, whether a start or a health gate failed, ports ran
\* out or the reload was rejected, stops every instance that had passed its gate.
AbortStopsGated ==
    [][op.pc \in {"gate_next", "gate_start", "gate_health", "abort_stop",
                  "switch_sync"} /\ op' = Idle
         => \A p \in Ports : proc'[p] \notin {op.new[k] : k \in DOMAIN op.new}]_vars

\* A scale starts instances of the application's active release.
ScaleUsesActiveRelease ==
    [][op.pc = "up_next" /\ Len(rows') > Len(rows)
         => rows'[Len(rows')].rel = active]_vars

\* Every change of an instance's status is an edge of the state machine's table,
\* whoever holds the row and however stale the health monitor's pick of it is:
\* InstanceRepository.transition raises only where a service is ready for it.  An
\* instance keeps its port for good, and though the table would let a STOPPED or
\* FAILED one be started again, no operation revives it: its port may be taken.
RowsFollowTable ==
    [][\A i \in Rows :
         /\ rows'[i].port = rows[i].port
         /\ \/ rows'[i].status = rows[i].status
            \/ rows[i].status \notin Dead /\ May(i, rows'[i].status)]_vars

\* The process of an instance that is STOPPED is gone.
StoppedIsGone ==
    \A i \in Rows : rows[i].status = "stopped" => proc[rows[i].port] # i

\* Once an operation is over, nothing is left mid-transition: the Deployment is
\* settled and no instance waits for a task that is gone.
Settled ==
    op = Idle => /\ dep # "in_progress"
                 /\ \A i \in Rows : rows[i].status \notin Transient

\* The same, unless an instance that a crash left PENDING is about:
\* reconcile_stuck_instances does not look for those.
SettledUnlessPending ==
    (\A i \in Rows : rows[i].status # "pending") => Settled

\* An operation that has started ends.
OperationsEnd == op # Idle ~> op = Idle
============================================================================
