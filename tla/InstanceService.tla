-------------------------- MODULE InstanceService --------------------------
(***************************************************************************)
(* The administrator's restart and stop of one instance                    *)
(* (services/instance_service.py).                                         *)
(***************************************************************************)
EXTENDS Fleet

Actionable(i) == rows[i].status \in {"running", "unhealthy"}

\* Faulty variant: the upstream is computed before the instance leaves RUNNING.
RestartInstanceSyncingFirst(i) ==
    /\ op = Idle
    /\ Actionable(i) /\ rows[i].rel # 0
    /\ rows' = Set(i, "restarting")
    /\ op' = [Idle EXCEPT !.pc = "restart_sync", !.row = i,
                          !.sent = Upstreams(rows, active)]
    /\ UNCHANGED <<db, dep, agent, gateway, polled>>

\* The status is checked before the lock is acquired, with no await between.
RestartInstance(i) ==
    /\ op = Idle
    /\ Actionable(i) /\ rows[i].rel # 0
    /\ rows' = Set(i, "restarting")
    /\ op' = [Idle EXCEPT !.pc = "restart_sync", !.row = i,
                          !.sent = Upstreams(rows', active)]
    /\ UNCHANGED <<db, dep, agent, gateway, polled>>

RestartSynced(reply) ==
    /\ op.pc = "restart_sync"
    /\ GatewayReplies(reply)
    /\ op' = [op EXCEPT !.pc = "restart_start"]
    /\ UNCHANGED <<rows, db, dep, agent, polled>>

\* Faulty variant: any answer of the agent counts as success.
RestartStartedOnAnyAnswer(reply) ==
    /\ op.pc = "restart_start"
    /\ AgentReplies("start", op.row, reply)
    /\ rows' = Set(op.row, IF reply = "late" THEN "failed" ELSE "running")
    /\ UNCHANGED <<db, dep, gateway, polled>>
    /\ IF reply # "late" THEN Sync("restarted_sync") ELSE op' = Idle

RestartStarted(reply) ==
    /\ op.pc = "restart_start"
    /\ AgentReplies("start", op.row, reply)
    /\ rows' = Set(op.row, IF reply = "ok" THEN "running" ELSE "failed")
    /\ UNCHANGED <<db, dep, gateway, polled>>
    /\ IF reply = "ok" THEN Sync("restarted_sync") ELSE op' = Idle

RestartedSynced(reply) ==
    /\ op.pc = "restarted_sync"
    /\ GatewayReplies(reply)
    /\ op' = Idle
    /\ UNCHANGED <<rows, db, dep, agent, polled>>

\* Faulty variant: the upstream is computed before the instance leaves RUNNING.
StopInstanceSyncingFirst(i) ==
    /\ op = Idle
    /\ Actionable(i)
    /\ rows' = Set(i, "draining")
    /\ op' = [Idle EXCEPT !.pc = "stop_sync", !.row = i,
                          !.sent = Upstreams(rows, active)]
    /\ UNCHANGED <<db, dep, agent, gateway, polled>>

StopInstance(i) ==
    /\ op = Idle
    /\ Actionable(i)
    /\ rows' = Set(i, "draining")
    /\ op' = [Idle EXCEPT !.pc = "stop_sync", !.row = i,
                          !.sent = Upstreams(rows', active)]
    /\ UNCHANGED <<db, dep, agent, gateway, polled>>

StopSynced(reply) ==
    /\ op.pc = "stop_sync"
    /\ GatewayReplies(reply)
    /\ op' = [op EXCEPT !.pc = "stop_stop"]
    /\ UNCHANGED <<rows, db, dep, agent, polled>>

\* The command's own status decides.  A stop whose steps failed is a command
\* that succeeded with "ok": false, and counts as stopped; one that was rejected
\* or carries an error, or that nobody answered, leaves the row FAILED.
StopStopped(reply) ==
    /\ op.pc = "stop_stop"
    /\ AgentReplies("stop", op.row, reply)
    /\ \/ reply # "late" /\ rows' = Set(op.row, "stopped")
       \/ reply # "ok" /\ rows' = Set(op.row, "failed")
    /\ op' = Idle
    /\ UNCHANGED <<db, dep, gateway, polled>>

InstanceStep ==
    \/ \E reply \in SyncReplies :
         RestartSynced(reply) \/ RestartedSynced(reply) \/ StopSynced(reply)
    \/ \E reply \in Replies("start") : RestartStarted(reply)
    \/ \E reply \in Replies("stop") : StopStopped(reply)
============================================================================
