------------------------- MODULE DeploymentService -------------------------
(***************************************************************************)
(* The first deploy of an application: start_deployment and run_deployment *)
(* of services/deployment_service.py.                                      *)
(***************************************************************************)
EXTENDS Fleet

\* The request: refused once a release is active or when no port is free.  The
\* background task runs up to the deploy_release command.
StartDeployment ==
    /\ op = Idle
    /\ active = 0
    /\ FreePorts # {}
    /\ Room(1) /\ Len(rels) < MaxReleases
    /\ rels' = Append(rels, "building")
    /\ rows' = Allocated(Len(rels'), "pending", 0)
    /\ dep' = "in_progress"
    /\ op' = [Idle EXCEPT !.pc = "deploy_build", !.row = Len(rows'),
                          !.rel = Len(rels')]
    /\ UNCHANGED <<active, desired, agent, gateway, polled>>

\* A build that fails and one that does not answer are treated alike.
DeployBuilt(reply) ==
    /\ op.pc = "deploy_build"
    /\ \/ /\ reply = "ok"
          /\ rels' = [rels EXCEPT ![op.rel] = "ready"]
          /\ rows' = Set(op.row, "starting")
          /\ op' = [op EXCEPT !.pc = "deploy_start"]
          /\ dep' = dep
       \/ /\ reply # "ok"
          /\ rels' = [rels EXCEPT ![op.rel] = "failed"]
          /\ rows' = Set(op.row, "failed")
          /\ End("failed")
    /\ UNCHANGED <<active, desired, agent, gateway, polled>>

DeployStarted(reply) ==
    /\ op.pc = "deploy_start"
    /\ AgentReplies("start", op.row, reply)
    /\ \/ /\ reply = "ok"
          /\ rows' = Set(op.row, "running")
          /\ dep' = "succeeded"
          /\ active' = op.rel
          /\ Sync("deploy_sync")
       \/ /\ reply # "ok"
          /\ rows' = Set(op.row, "failed")
          /\ active' = active
          /\ End("failed")
    /\ UNCHANGED <<rels, desired, gateway, polled>>

\* _sync_gateway_step: its result is only logged.
DeploySynced(reply) ==
    /\ op.pc = "deploy_sync"
    /\ GatewayReplies(reply)
    /\ op' = Idle
    /\ UNCHANGED <<rows, db, dep, agent, polled>>

DeploymentStep ==
    \/ \E reply \in Replies("build") : DeployBuilt(reply)
    \/ \E reply \in Replies("start") : DeployStarted(reply)
    \/ \E reply \in SyncReplies : DeploySynced(reply)
============================================================================
