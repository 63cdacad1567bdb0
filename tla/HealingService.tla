--------------------------- MODULE HealingService ---------------------------
(***************************************************************************)
(* Self-healing: the health monitor's poll (services/health_monitor.py)    *)
(* and handle_unhealthy_instance (services/self_healing_service.py).       *)
(***************************************************************************)
EXTENDS Fleet

\* tick picks an instance from the list of RUNNING ones it read, and polls it
\* in a thread.  Nothing keeps the instance RUNNING while the poll lasts.
Poll(i) ==
    /\ polled = 0
    /\ rows[i].status = "running"
    /\ polled' = i
    /\ UNCHANGED <<rows, db, dep, op, agent, gateway>>

\* The instance answered, or _heal found the lock held.
PollEnds ==
    /\ polled # 0
    /\ polled' = 0
    /\ UNCHANGED <<rows, db, dep, op, agent, gateway>>

\* _heal: the poll was the last failure the threshold allows, or tick found the
\* instance UNHEALTHY.  A RUNNING instance leaves the upstream first.
Heal(i) ==
    /\ op = Idle
    /\ Room(1)
    /\ polled = i \/ rows[i].status = "unhealthy"
    /\ polled' = IF polled = i THEN 0 ELSE polled
    /\ rows' = IF rows[i].status = "running" THEN Set(i, "unhealthy") ELSE rows
    /\ \E connected \in IF "agent_gone" \in Faults THEN BOOLEAN ELSE {TRUE} :
         op' = [Idle EXCEPT !.pc = "heal_sync", !.row = i, !.ok = connected,
                            !.sent = Upstreams(rows', active)]
    /\ UNCHANGED <<db, dep, agent, gateway>>

HealSynced(reply) ==
    /\ op.pc = "heal_sync"
    /\ GatewayReplies(reply)
    /\ op' = [op EXCEPT !.pc = "heal"]
    /\ UNCHANGED <<rows, db, dep, agent, polled>>

\* _give_up: FAILED, unless the table has no such edge.
GiveUp(i) ==
    /\ op' = Idle
    /\ rows' = IF May(i, "failed") THEN Set(i, "failed") ELSE rows
    /\ UNCHANGED <<db, dep, agent, gateway, polled>>

\* The last attempt is more recent than restart_cooldown_seconds.
CoolingDown ==
    op' = Idle /\ UNCHANGED <<rows, db, dep, agent, gateway, polled>>

\* Faulty variant: the status is set without transition()'s check.
HealDecidesUnchecked ==
    LET i == op.row
        counted(s) == [rows EXCEPT ![i].attempts = @ + 1, ![i].tried = TRUE,
                                   ![i].status = s]
    IN  /\ op.pc = "heal"
        /\ \/ ~op.ok /\ GiveUp(i)
           \/ op.ok /\ rows[i].tried /\ CoolingDown
           \/ op.ok /\ rows[i].attempts >= MaxRestarts /\ GiveUp(i)
           \/ /\ op.ok /\ rows[i].attempts < MaxRestarts
              /\ \/ rows[i].rel = 0 /\ rows' = counted("failed") /\ op' = Idle
                 \/ /\ rows[i].rel # 0
                    /\ rows' = counted("restarting")
                    /\ op' = [op EXCEPT !.pc = "heal_start"]
              /\ UNCHANGED <<db, dep, agent, gateway, polled>>

\* Everything handle_unhealthy_instance decides after the sync.  The attempt is
\* counted and committed before the instance moves to RESTARTING, which raises
\* when it is neither RUNNING nor UNHEALTHY any more.
HealDecides ==
    LET i == op.row
        counted(s) == [rows EXCEPT ![i].attempts = @ + 1, ![i].tried = TRUE,
                                   ![i].status = s]
        status == rows[i].status
    IN  /\ op.pc = "heal"
        /\ \/ ~op.ok /\ GiveUp(i)
           \/ op.ok /\ rows[i].tried /\ CoolingDown
           \/ op.ok /\ rows[i].attempts >= MaxRestarts /\ GiveUp(i)
           \/ /\ op.ok /\ rows[i].attempts < MaxRestarts
              /\ \/ /\ rows[i].rel = 0
                    /\ rows' = counted(IF May(i, "failed") THEN "failed"
                                       ELSE status)
                    /\ op' = Idle
                 \/ /\ rows[i].rel # 0 /\ ~May(i, "restarting")
                    /\ rows' = counted(status)
                    /\ op' = Idle
                 \/ /\ rows[i].rel # 0 /\ May(i, "restarting")
                    /\ rows' = counted("restarting")
                    /\ op' = [op EXCEPT !.pc = "heal_start"]
              /\ UNCHANGED <<db, dep, agent, gateway, polled>>

HealStarted(reply) ==
    /\ op.pc = "heal_start"
    /\ AgentReplies("start", op.row, reply)
    /\ \/ /\ reply = "ok"
          /\ rows' = rows
          /\ op' = [op EXCEPT !.pc = "heal_health"]
       \/ /\ reply # "ok"
          /\ rows' = Set(op.row, "failed")
          /\ op' = [op EXCEPT !.pc = "replace"]
    /\ UNCHANGED <<db, dep, gateway, polled>>

HealChecked(healthy) ==
    /\ op.pc = "heal_health"
    /\ rows' = Set(op.row, IF healthy THEN "running" ELSE "failed")
    /\ UNCHANGED <<db, dep, agent, gateway, polled>>
    /\ IF healthy THEN Sync("healed_sync")
       ELSE op' = [op EXCEPT !.pc = "replace"]

\* _replace: the replacement takes over the count of attempts.
Replace ==
    /\ op.pc = "replace"
    /\ \/ /\ FreePorts # {}
          /\ rows' = Allocated(rows[op.row].rel, "starting",
                               rows[op.row].attempts)
          /\ op' = [op EXCEPT !.pc = "replace_start", !.row = Len(rows')]
          /\ UNCHANGED <<db, dep, agent, gateway, polled>>
       \/ FreePorts = {} /\ GiveUp(op.row)

ReplaceStarted(reply) ==
    /\ op.pc = "replace_start"
    /\ AgentReplies("start", op.row, reply)
    /\ \/ /\ reply = "ok"
          /\ rows' = rows
          /\ op' = [op EXCEPT !.pc = "replace_health"]
       \/ /\ reply # "ok"
          /\ rows' = Set(op.row, "failed")
          /\ op' = Idle
    /\ UNCHANGED <<db, dep, gateway, polled>>

ReplaceChecked(healthy) ==
    LET status == IF healthy THEN "running" ELSE "unhealthy"
    IN  /\ op.pc = "replace_health"
        /\ \/ /\ May(op.row, status)
              /\ rows' = Set(op.row, status)
              /\ UNCHANGED <<db, dep, agent, gateway, polled>>
              /\ IF healthy THEN Sync("healed_sync") ELSE op' = Idle
           \/ ~May(op.row, status) /\ Raise

HealedSynced(reply) ==
    /\ op.pc = "healed_sync"
    /\ GatewayReplies(reply)
    /\ op' = Idle
    /\ UNCHANGED <<rows, db, dep, agent, polled>>

HealStep ==
    \/ \E reply \in SyncReplies : HealSynced(reply) \/ HealedSynced(reply)
    \/ HealDecides
    \/ \E reply \in Replies("start") : HealStarted(reply) \/ ReplaceStarted(reply)
    \/ \E healthy \in Verdicts : HealChecked(healthy) \/ ReplaceChecked(healthy)
    \/ Replace
============================================================================
