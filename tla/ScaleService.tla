---------------------------- MODULE ScaleService ----------------------------
(***************************************************************************)
(* Manual scaling: start_scale and run_scale of services/scale_service.py. *)
(***************************************************************************)
EXTENDS Fleet

ReadyReleases == {r \in DOMAIN rels : rels[r] = "ready"}
NewestReady == CHOOSE r \in ReadyReleases : \A s \in ReadyReleases : s <= r

\* _scale_down marks instances DRAINING one after the other and stops at the
\* first edge that is illegal.
Drainable(drain) ==
    {drain[k] : k \in {n \in DOMAIN drain : \A m \in 1..n : May(drain[m], "draining")}}

\* start_scale, and run_scale up to the first await.  When an instance cannot be
\* drained the task raises, and the release of the lock commits the others.
StartScale(target) ==
    LET current == Cardinality(Live)
        drain == IF target < current THEN NewestFirst(Live, current - target)
                 ELSE <<>>
        drained == Drainable(drain)
        base == [Idle EXCEPT !.rel = NewestReady]
    IN  /\ op = Idle
        /\ ReadyReleases # {}
        /\ target > current => Room(target - current)
        /\ desired' = target
        /\ dep' = "in_progress"
        /\ \/ /\ target > current
              /\ op' = [base EXCEPT !.pc = "up_next", !.left = target - current]
              /\ rows' = rows
           \/ /\ target < current
              /\ rows' = [i \in Rows |-> IF i \in drained
                            THEN [rows[i] EXCEPT !.status = "draining"]
                            ELSE rows[i]]
              /\ op' = IF Cardinality(drained) < Len(drain) THEN Idle
                       ELSE [base EXCEPT !.pc = "down_sync", !.todo = drain,
                                         !.sent = Upstreams(rows', active)]
           \/ /\ target = current
              /\ op' = [base EXCEPT !.pc = "scale_done"]
              /\ rows' = rows
        /\ UNCHANGED <<rels, active, agent, gateway, polled>>

\* The head of _scale_up's loop; no free port ends the loop.
ScaleUpNext ==
    /\ op.pc = "up_next"
    /\ \/ /\ op.left > 0 /\ FreePorts # {}
          /\ rows' = Allocated(op.rel, "starting", 0)
          /\ op' = [op EXCEPT !.pc = "up_start", !.row = Len(rows')]
       \/ /\ op.left > 0 /\ FreePorts = {}
          /\ rows' = rows
          /\ op' = [op EXCEPT !.pc = "scale_done", !.ok = FALSE]
       \/ /\ op.left = 0
          /\ rows' = rows
          /\ op' = [op EXCEPT !.pc = "scale_done"]
    /\ UNCHANGED <<db, dep, agent, gateway, polled>>

\* Faulty variant: a replica that does not start is skipped, not reported.
ScaleUpStartedSkipping(reply) ==
    /\ op.pc = "up_start"
    /\ AgentReplies("start", op.row, reply)
    /\ \/ /\ reply = "ok"
          /\ rows' = rows
          /\ op' = [op EXCEPT !.pc = "up_health"]
       \/ /\ reply # "ok"
          /\ rows' = Set(op.row, "failed")
          /\ op' = [op EXCEPT !.pc = "up_next", !.left = @ - 1]
    /\ UNCHANGED <<db, dep, gateway, polled>>

ScaleUpStarted(reply) ==
    /\ op.pc = "up_start"
    /\ AgentReplies("start", op.row, reply)
    /\ \/ /\ reply = "ok"
          /\ rows' = rows
          /\ op' = [op EXCEPT !.pc = "up_health"]
       \/ /\ reply # "ok"
          /\ rows' = Set(op.row, "failed")
          /\ op' = [op EXCEPT !.pc = "up_next", !.ok = FALSE, !.left = @ - 1]
    /\ UNCHANGED <<db, dep, gateway, polled>>

ScaleUpChecked(healthy) ==
    LET status == IF healthy THEN "running" ELSE "unhealthy"
    IN  /\ op.pc = "up_health"
        /\ \/ /\ May(op.row, status)
              /\ rows' = Set(op.row, status)
              /\ op' = [op EXCEPT !.pc = "up_next", !.ok = @ /\ healthy,
                                  !.left = @ - 1]
              /\ UNCHANGED <<db, dep, agent, gateway, polled>>
           \/ ~May(op.row, status) /\ Raise

\* The sync that takes the drained instances out of the upstream: its result is
\* not looked at.  The grace period follows.
ScaleDownSynced(reply) ==
    /\ op.pc = "down_sync"
    /\ GatewayReplies(reply)
    /\ op' = [op EXCEPT !.pc = "down_stop"]
    /\ UNCHANGED <<rows, db, dep, agent, polled>>

ScaleDownStopped(reply) ==
    /\ op.pc = "down_stop"
    /\ AgentReplies("stop", Head(op.todo), reply)
    /\ rows' = Set(Head(op.todo), IF reply = "ok" THEN "stopped" ELSE "failed")
    /\ op' = [op EXCEPT
                !.pc = IF Len(op.todo) = 1 THEN "scale_done" ELSE "down_stop",
                !.todo = Tail(@), !.ok = @ /\ reply = "ok"]
    /\ UNCHANGED <<db, dep, gateway, polled>>

ScaleDone ==
    /\ op.pc = "scale_done"
    /\ UNCHANGED <<rows, db, agent, gateway, polled>>
    /\ \/ op.ok /\ Sync("scale_sync") /\ dep' = dep
       \/ ~op.ok /\ End("failed")

\* Faulty variant: a rejected sync is repeated until it is accepted.
ScaleSyncedRetrying(reply) ==
    /\ op.pc = "scale_sync"
    /\ GatewayReplies(reply)
    /\ IF reply = "ok" THEN End("succeeded")
       ELSE op' = [op EXCEPT !.pc = "scale_done"] /\ dep' = dep
    /\ UNCHANGED <<rows, db, agent, polled>>

ScaleSynced(reply) ==
    /\ op.pc = "scale_sync"
    /\ GatewayReplies(reply)
    /\ End("succeeded")
    /\ UNCHANGED <<rows, db, agent, polled>>

ScaleStep ==
    \/ ScaleUpNext
    \/ \E reply \in Replies("start") : ScaleUpStarted(reply)
    \/ \E healthy \in Verdicts : ScaleUpChecked(healthy)
    \/ \E reply \in SyncReplies : ScaleDownSynced(reply) \/ ScaleSynced(reply)
    \/ \E reply \in Replies("stop") : ScaleDownStopped(reply)
    \/ ScaleDone
============================================================================
