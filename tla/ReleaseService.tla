--------------------------- MODULE ReleaseService ---------------------------
(***************************************************************************)
(* Blue-green deploys and rollbacks: start_new_release, start_rollback and *)
(* run_release_switch of services/release_service.py.                      *)
(***************************************************************************)
EXTENDS Fleet

Switch(pc, release) ==
    [Idle EXCEPT !.pc = pc, !.rel = release, !.left = desired,
                 !.before = active, !.was = routed]

StartNewRelease ==
    /\ op = Idle
    /\ active # 0
    /\ Room(desired) /\ Len(rels) < MaxReleases
    /\ rels' = Append(rels, "building")
    /\ dep' = "in_progress"
    /\ op' = Switch("switch_build", Len(rels'))
    /\ UNCHANGED <<rows, active, desired, agent, gateway, polled>>

\* Any release that was built and not pruned, except the active one.
StartRollback(release) ==
    /\ op = Idle
    /\ active # 0
    /\ release # active /\ rels[release] = "ready"
    /\ Room(desired)
    /\ dep' = "in_progress"
    /\ op' = Switch("gate_next", release)
    /\ UNCHANGED <<rows, db, agent, gateway, polled>>

\* _build_release; a build without an answer has failed.
ReleaseBuilt(reply) ==
    /\ op.pc = "switch_build"
    /\ \/ /\ reply = "ok"
          /\ rels' = [rels EXCEPT ![op.rel] = "ready"]
          /\ op' = [op EXCEPT !.pc = "gate_next"]
          /\ dep' = dep
       \/ /\ reply # "ok"
          /\ rels' = [rels EXCEPT ![op.rel] = "failed"]
          /\ End("failed")
    /\ UNCHANGED <<rows, active, desired, agent, gateway, polled>>

\* _start_and_health_gate gives up, and run_release_switch calls _fail: the
\* instances in new are stopped one after the other.
Abort ==
    IF op.new = <<>> THEN End("failed")
    ELSE op' = [op EXCEPT !.pc = "abort_stop", !.todo = op.new] /\ dep' = dep

\* Faulty variants: the old release is drained before the gateway has followed;
\* the active release is switched before the gate is passed.
GateNextDraining ==
    /\ op.pc = "gate_next"
    /\ \/ /\ op.left > 0 /\ FreePorts # {}
          /\ rows' = Allocated(op.rel, "starting", 0)
          /\ op' = [op EXCEPT !.pc = "gate_start", !.row = Len(rows')]
          /\ UNCHANGED <<active, dep>>
       \/ /\ op.left = 0
          /\ UNCHANGED <<rows, dep>>
          /\ active' = op.rel
          /\ op' = [op EXCEPT !.pc = "drain"]
    /\ UNCHANGED <<rels, desired, agent, gateway, polled>>

GateNextSwitching ==
    /\ op.pc = "gate_next"
    /\ active' = op.rel
    /\ \/ /\ op.left > 0 /\ FreePorts # {}
          /\ rows' = Allocated(op.rel, "starting", 0)
          /\ op' = [op EXCEPT !.pc = "gate_start", !.row = Len(rows')]
          /\ dep' = dep
       \/ /\ op.left > 0 /\ FreePorts = {}
          /\ rows' = rows
          /\ Abort
       \/ /\ op.left = 0
          /\ UNCHANGED <<rows, dep>>
          /\ Sync("switch_sync")
    /\ UNCHANGED <<rels, desired, agent, gateway, polled>>

\* The head of the gate's loop.  When every instance has passed, the active
\* release is switched and the gateway is asked to follow.
GateNext ==
    /\ op.pc = "gate_next"
    /\ \/ /\ op.left > 0 /\ FreePorts # {}
          /\ rows' = Allocated(op.rel, "starting", 0)
          /\ op' = [op EXCEPT !.pc = "gate_start", !.row = Len(rows')]
          /\ UNCHANGED <<active, dep>>
       \/ /\ op.left > 0 /\ FreePorts = {}
          /\ UNCHANGED <<rows, active>>
          /\ Abort
       \/ /\ op.left = 0
          /\ UNCHANGED <<rows, dep>>
          /\ active' = op.rel
          /\ Sync("switch_sync")
    /\ UNCHANGED <<rels, desired, agent, gateway, polled>>

GateStarted(reply) ==
    /\ op.pc = "gate_start"
    /\ AgentReplies("start", op.row, reply)
    /\ \/ /\ reply = "ok"
          /\ op' = [op EXCEPT !.pc = "gate_health"]
          /\ UNCHANGED <<rows, dep>>
       \/ /\ reply # "ok"
          /\ rows' = Set(op.row, "failed")
          /\ Abort
    /\ UNCHANGED <<db, gateway, polled>>

GateChecked(healthy) ==
    /\ op.pc = "gate_health"
    /\ \/ /\ healthy
          /\ rows' = Set(op.row, "running")
          /\ op' = [op EXCEPT !.pc = "gate_next", !.left = @ - 1,
                              !.new = Append(@, op.row)]
          /\ dep' = dep
       \/ /\ ~healthy
          /\ rows' = Set(op.row, "failed")
          /\ Abort
    /\ UNCHANGED <<db, agent, gateway, polled>>

\* _stop_instances: the instances it stops are RUNNING, and RUNNING has no edge
\* to FAILED.
AbortStopped(reply) ==
    LET i == Head(op.todo)
        status == IF reply = "ok" THEN "stopped" ELSE "failed"
    IN  /\ op.pc = "abort_stop"
        /\ AgentReplies("stop", i, reply)
        /\ \/ /\ May(i, status)
              /\ rows' = Set(i, status)
              /\ IF Len(op.todo) = 1 THEN End("failed")
                 ELSE op' = [op EXCEPT !.todo = Tail(@)] /\ dep' = dep
           \/ /\ ~May(i, status)
              /\ op' = Idle
              /\ UNCHANGED <<rows, dep>>
        /\ UNCHANGED <<db, gateway, polled>>

\* Any result but success makes the database name the old release again.
SwitchSynced(reply) ==
    /\ op.pc = "switch_sync"
    /\ GatewayReplies(reply)
    /\ \/ /\ reply = "ok"
          /\ op' = [op EXCEPT !.pc = "drain"]
          /\ UNCHANGED <<active, dep>>
       \/ /\ reply # "ok"
          /\ active' = op.before
          /\ Abort
    /\ UNCHANGED <<rows, rels, desired, agent, polled>>

\* _drain_old_release: only the RUNNING instances of the old release.
DrainOldRelease ==
    LET old == {i \in Rows : /\ rows[i].rel = op.before
                             /\ rows[i].status = "running"}
    IN  /\ op.pc = "drain"
        /\ rows' = [i \in Rows |-> IF i \in old
                      THEN [rows[i] EXCEPT !.status = "draining"] ELSE rows[i]]
        /\ op' = [op EXCEPT !.pc = IF old = {} THEN "prune" ELSE "drain_stop",
                            !.todo = NewestFirst(old, Cardinality(old))]
        /\ UNCHANGED <<db, dep, agent, gateway, polled>>

DrainStopped(reply) ==
    /\ op.pc = "drain_stop"
    /\ AgentReplies("stop", Head(op.todo), reply)
    /\ rows' = Set(Head(op.todo), IF reply = "ok" THEN "stopped" ELSE "failed")
    /\ op' = [op EXCEPT
                !.pc = IF Len(op.todo) = 1 THEN "prune" ELSE "drain_stop",
                !.todo = Tail(@)]
    /\ UNCHANGED <<db, dep, gateway, polled>>

\* Faulty variant: the active release is not excepted.
PrunableWithActive ==
    {r \in DOMAIN rels :
       /\ rels[r] = "ready"
       /\ Cardinality({s \in DOMAIN rels : s > r /\ rels[s] = "ready"}) >= Keep}

\* _prune_old_releases: the READY releases beyond the newest Keep, the active
\* one excepted.  Deleting one of them leaves the others in the set.
Prunable ==
    {r \in DOMAIN rels :
       /\ rels[r] = "ready" /\ r # active
       /\ Cardinality({s \in DOMAIN rels : s > r /\ rels[s] = "ready"}) >= Keep}

\* One release at a time, here in any order: the agent is asked to remove its
\* image, and the next such command commits the deletion.  The rows of a deleted
\* release lose it (ON DELETE SET NULL).
PruneRelease(r) ==
    /\ op.pc = "prune"
    /\ r \in Prunable
    /\ rels' = [rels EXCEPT ![r] = "pruned"]
    /\ rows' = [i \in Rows |-> IF rows[i].rel = r
                  THEN [rows[i] EXCEPT !.rel = 0] ELSE rows[i]]
    /\ UNCHANGED <<active, desired, dep, op, agent, gateway, polled>>

\* The rest is kept: the agent has not removed those images.
PruneEnds ==
    /\ op.pc = "prune"
    /\ Prunable = {} \/ Replies("build") # {"ok"}
    /\ End("succeeded")
    /\ UNCHANGED <<rows, db, agent, gateway, polled>>

ReleaseStep ==
    \/ \E reply \in Replies("build") : ReleaseBuilt(reply)
    \/ GateNext
    \/ \E reply \in Replies("start") : GateStarted(reply)
    \/ \E healthy \in Verdicts : GateChecked(healthy)
    \/ \E reply \in Replies("stop") : AbortStopped(reply) \/ DrainStopped(reply)
    \/ \E reply \in SyncReplies : SwitchSynced(reply)
    \/ DrainOldRelease
    \/ \E r \in 1..MaxReleases : PruneRelease(r)
    \/ PruneEnds
============================================================================
