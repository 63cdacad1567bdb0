--------------------------- MODULE FleetSwitches ----------------------------
(***************************************************************************)
(* The steps of healing, of new releases and of rollbacks keep the         *)
(* invariant of FleetSteps; what they and the steps of scaling do to rows  *)
(* and processes, and how a switch is aborted.                             *)
(***************************************************************************)
EXTENDS FleetSteps

USE DEF StartingAt, RestartingAt, StoppingAt, HealingAt, DrainingAt, GatingAt,
        BuildingAt, BuiltAt, SwitchingAt, ScalingAt, StartedAt, BehindAt, CurrentAt
-----------------------------------------------------------------------------
(* The steps of healing *)

\* HealDecides counts an attempt.
Counted(i, s) ==
    [rows EXCEPT ![i].attempts = @ + 1, ![i].tried = TRUE, ![i].status = s]

\* A healing counts its attempt, and moves its row.
LEMMA CountMoves ==
  ASSUME Types, NEW i \in Rows, NEW s \in InstanceStatus, rows[i].attempts < MaxRestarts,
         rows' = Counted(i, s)
  PROVE  Moves(i, s)
  <1>1. rows \in Seq(Row) /\ rows[i] \in Row /\ rows[i].attempts \in 0..MaxRestarts
    BY RowTypes DEF Types
  <1>2. PICK n : n = rows[i].attempts + 1
    OBVIOUS
  <1>3. n \in 0..MaxRestarts
    BY <1>1, <1>2, FleetConstants
  <1>4. PICK row : row = [rows[i] EXCEPT !.attempts = n, !.tried = TRUE, !.status = s]
    OBVIOUS
  <1>5. row \in Row /\ row.status = s /\ row.port = rows[i].port /\ row.rel = rows[i].rel
    BY ZenonT(30), <1>1, <1>3, <1>4 DEF Row
  <1>6. rows' = [rows EXCEPT ![i] = row]
    BY ZenonT(30), <1>1, <1>2, <1>4 DEF Counted
  <1> QED
    BY <1>1, <1>5, <1>6 DEF Rows, Moves

LEMMA HealStepKeeps ==
  ASSUME Counting, FleetInv, HealStep
  PROVE  FleetInv'
  \* A healing's instance has failed, and is to be replaced.
  <1>RowReplaced.
    ASSUME FleetInv, op.pc \in {"heal_start", "heal_health"}, rows' = Set(op.row, "failed"),
           op' = [op EXCEPT !.pc = "replace"], UNCHANGED <<db, dep, gateway, polled>>,
           proc' \in [Ports -> Nat], late' \subseteq {"start", "stop"} \X Nat,
           Answered => late' = {},
           \A p \in Ports : p # rows[op.row].port => proc'[p] = proc[p]
    PROVE  FleetInv'
    <2> USE <1>RowReplaced
    <2>0. /\ Types /\ RowFits /\ ReleasesFit /\ op \in Op /\ op.row \in Rows
          /\ rows[op.row].status = "restarting" /\ rows[op.row].status \notin Dead
          /\ "failed" \in InstanceStatus \ {"pending"} /\ "failed" \in Dead
      BY DEF FleetInv, RowFits, Types, Dead, InstanceStatus
    <2>1. /\ rows \in Seq(Row) /\ rows' \in Seq(Row) /\ PortsApart /\ PortsApart'
          /\ Len(rows') = Len(rows) /\ Rows' = Rows /\ RowsStay /\ rows'[op.row].status = "failed"
          /\ \A j \in Rows : rows'[j].port = rows[j].port /\ (j # op.row => rows'[j] = rows[j])
      BY <2>0, RowMarked
    <2>2. op' \in Op /\ op'.pc = "replace" /\ op'.row = op.row
      BY ZenonT(30), <2>0 DEF Op, Pcs, AwaitsElse
    <2>3. Types'
      BY <2>0, <2>1, <2>2 DEF Types, gateway, db
    <2>4. RowFits' /\ ListsFit' /\ CountFits'
      <3>1. polled' # 0 => polled' \in Rows' /\ rows'[polled'].status # "pending"
        BY <2>0, <2>1, PolledKept
      <3> QED
        BY <2>0, <2>1, <2>2, <3>1 DEF RowFits, ListsFit, CountFits
    <2>5. ReleasesFit'
      BY <2>0, <2>2, ReleasesKept DEF db
    <2>6. Orderly => Unmoved'
      BY <2>2, UnmovedKept DEF FleetInv
    <2>7. Answered => Own'
      <3> SUFFICES ASSUME Answered PROVE Own'
        OBVIOUS
      <3>1. OwnProcess'
        BY <2>0, <2>1, OwnTouched DEF FleetInv, Own
      <3> QED
        BY <2>2, <3>1 DEF Own
    <2>8. Decisive => (PendingLeft \/ Underway)'
      <3>1. CASE PendingLeft
        <4>1. PendingLeft'
          BY <2>0, <2>1, <2>2, <3>1, PendingStays
        <4> QED
          BY <4>1
      <3>2. CASE Underway
        BY <2>0, <2>1, <2>2, <3>2 DEF Underway, Busy, InDeploymentAt, Transient
      <3> QED
        BY <3>1, <3>2 DEF FleetInv
    <2>9. Calm => RoutesFit'
      <3> SUFFICES ASSUME Calm PROVE RoutesFit'
        OBVIOUS
      <3>1. op'.pc \notin AwaitsSync
        BY <2>2 DEF AwaitsSync
      <3>2. RoutesFit /\ ~RouteFits(rows[op.row].port, op.row)
        BY <2>0 DEF FleetInv, RouteFits, Serves
      <3>3. rows[op.row].port \notin routed
        BY <2>0, <2>1, <3>2, NotRouted
      <3>4. \A p \in routed, j \in Rows :
              RouteFits(p, j) => p \in Ports /\ p # rows[op.row].port /\ j # op.row
        BY <2>0, <3>2, <3>3 DEF RouteFits, Types
      <3> QED
        BY <2>0, <2>1, <2>2, <3>1, <3>2, <3>4, RoutesKept DEF gateway, db
    <2> QED
      BY <2>1, <2>3, <2>4, <2>5, <2>6, <2>7, <2>8, <2>9 DEF FleetInv
  \* A healing ends with its instance FAILED, or as it was.
  <1>HealEnds.
    ASSUME FleetInv, op.pc \in {"heal", "replace"}, op' = Idle,
           UNCHANGED <<db, dep, agent, gateway, polled>>, NEW s, Moves(op.row, s),
           \/ s = rows[op.row].status
           \/ s = "failed" /\ May(op.row, "failed")
    PROVE  FleetInv'
    <2> USE <1>HealEnds
    <2>0. /\ Types /\ RowFits /\ ReleasesFit /\ op.row \in Rows /\ rows[op.row].status # "pending"
          /\ rows[op.row].status \in InstanceStatus
          /\ op.pc = "heal" => rows[op.row].status # "running"
          /\ op.pc = "replace" => rows[op.row].status = "failed"
      BY RowTypes DEF FleetInv, RowFits
    <2>1. ReleasesFit'
      BY <2>0, IdleFields, ReleasesKept DEF db
    <2>2. (\A j : ~Busy(j)) /\ op.pc \notin InDeploymentAt
      BY DEF Busy, InDeploymentAt
    <2>3. Answered => late' = {}
      BY DEF FleetInv, Own, agent
    <2>4. CASE s = rows[op.row].status
      <3>1. \A j \in Rows : /\ rows'[j].status = rows[j].status /\ rows'[j].port = rows[j].port
                            /\ rows'[j].rel = rows[j].rel
        BY <2>0, <2>4 DEF Moves
      <3>2. Rows' = Rows
        BY DEF Moves, Rows
      <3>3. Answered => OwnProcess'
        BY <3>1, <3>2 DEF FleetInv, Own, OwnProcess, agent
      <3> QED
        BY <2>0, <2>1, <2>2, <2>3, <3>1, <3>3, RowsLeft DEF Types, Moves, agent, db
    <2>5. CASE s = "failed" /\ May(op.row, "failed")
      <3>1. rows[op.row].status \in {"starting", "unhealthy", "restarting", "draining"}
        BY <2>0, <2>5, Edges DEF May
      <3>2. rows[op.row].status \notin Dead /\ op.pc = "heal"
        BY <2>0, <3>1 DEF Dead
      <3>3. ~RouteFits(rows[op.row].port, op.row)
        BY <3>1, <3>2 DEF RouteFits, Serves
      <3> QED
        BY <2>0, <2>1, <2>2, <2>3, <2>5, <3>2, <3>3, RowGivenUp DEF Types, agent, db, Dead
    <2> QED
      BY <2>4, <2>5
  <1>GiveUpStep.
    ASSUME FleetInv, op.pc \in {"heal", "replace"}, GiveUp(op.row)
    PROVE  FleetInv'
    <2> USE <1>GiveUpStep
    <2>0. Types /\ op.row \in Rows /\ rows[op.row].status \in InstanceStatus /\ rows \in Seq(Row)
      BY RowTypes DEF FleetInv, RowFits, Types
    <2>1. CASE May(op.row, "failed")
      <3>1. Moves(op.row, "failed")
        BY <2>0, <2>1, SetMoves DEF GiveUp, InstanceStatus
      <3> QED
        BY <2>1, <3>1, <1>HealEnds DEF GiveUp
    <2>2. CASE ~May(op.row, "failed")
      <3>1. Moves(op.row, rows[op.row].status)
        BY <2>0, <2>2 DEF GiveUp, Moves
      <3> QED
        BY <3>1, <1>HealEnds DEF GiveUp
    <2> QED
      BY <2>1, <2>2
  \* A healing restarts its instance.
  <1>HealRestarts.
    ASSUME FleetInv, op.pc = "heal", Moves(op.row, "restarting"), May(op.row, "restarting"),
           op' = [op EXCEPT !.pc = "heal_start"], UNCHANGED <<db, dep, agent, gateway, polled>>
    PROVE  FleetInv'
    <2> USE <1>HealRestarts
    <2>0. /\ Types /\ RowFits /\ ReleasesFit /\ op \in Op /\ op.row \in Rows
          /\ rows[op.row].status = "unhealthy" /\ rows[op.row].status \notin Dead
          /\ "restarting" \in InstanceStatus \ {"pending"}
      BY ZenonT(30), RowTypes, Edges DEF FleetInv, RowFits, Types, May, Dead, InstanceStatus
    <2>1. /\ rows \in Seq(Row) /\ rows' \in Seq(Row) /\ PortsApart /\ PortsApart'
          /\ Len(rows') = Len(rows) /\ Rows' = Rows /\ RowsStay
          /\ rows'[op.row].status = "restarting"
          /\ \A j \in Rows : rows'[j].port = rows[j].port /\ (j # op.row => rows'[j] = rows[j])
      BY <2>0, RowMoved
    <2>2. op' \in Op /\ op'.pc = "heal_start" /\ op'.row = op.row
      BY ZenonT(30), <2>0 DEF Op, Pcs, AwaitsStart
    <2>3. Types'
      BY <2>0, <2>1, <2>2 DEF Types, gateway, agent, db
    <2>4. RowFits' /\ ListsFit' /\ CountFits'
      <3>1. polled' # 0 => polled' \in Rows' /\ rows'[polled'].status # "pending"
        BY <2>0, <2>1, PolledKept
      <3> QED
        BY <2>0, <2>1, <2>2, <3>1 DEF RowFits, ListsFit, CountFits
    <2>5. ReleasesFit'
      BY <2>0, <2>2, ReleasesKept DEF db
    <2>6. Orderly => Unmoved'
      BY <2>2, UnmovedKept DEF FleetInv
    <2>7. Answered => Own'
      <3> SUFFICES ASSUME Answered PROVE Own'
        OBVIOUS
      <3>1. OwnProcess'
        BY <2>1, OwnKept DEF FleetInv, Own, agent
      <3> QED
        BY <2>2, <3>1 DEF FleetInv, Own, agent
    <2>8. Decisive => (PendingLeft \/ Underway)'
      <3>1. CASE PendingLeft
        <4>1. PendingLeft'
          BY <2>0, <2>1, <2>2, <3>1, PendingStays
        <4> QED
          BY <4>1
      <3>2. CASE Underway
        BY <2>0, <2>1, <2>2, <3>2 DEF Underway, Busy, InDeploymentAt, Transient
      <3> QED
        BY <3>1, <3>2 DEF FleetInv
    <2>9. Calm => RoutesFit'
      <3> SUFFICES ASSUME Calm PROVE RoutesFit'
        OBVIOUS
      <3>1. op'.pc \notin AwaitsSync
        BY <2>2 DEF AwaitsSync
      <3>2. \A p, j : RouteFits(p, j) => j # op.row
        BY <2>0 DEF RouteFits, Serves
      <3> QED
        BY <2>0, <2>1, <2>2, <3>1, <3>2, RoutesKept DEF FleetInv, gateway, agent, db
    <2> QED
      BY <2>1, <2>3, <2>4, <2>5, <2>6, <2>7, <2>8, <2>9 DEF FleetInv
  <1>HealDecidesStep.
    ASSUME FleetInv, HealDecides
    PROVE  FleetInv'
    <2> USE <1>HealDecidesStep
    <2>0. /\ Types /\ op.pc = "heal" /\ op.row \in Rows /\ rows \in Seq(Row)
          /\ rows[op.row].status \in InstanceStatus /\ "failed" \in InstanceStatus
          /\ "restarting" \in InstanceStatus
      BY RowTypes DEF HealDecides, FleetInv, RowFits, Types, InstanceStatus
    <2>1. CASE GiveUp(op.row)
      BY <2>0, <2>1, <1>GiveUpStep
    <2>2. CASE CoolingDown
      <3>1. Moves(op.row, rows[op.row].status)
        BY <2>0, <2>2 DEF CoolingDown, Moves
      <3> QED
        BY <2>0, <2>2, <3>1, <1>HealEnds DEF CoolingDown
    <2>3. CASE /\ rows[op.row].attempts < MaxRestarts /\ rows[op.row].rel = 0
               /\ rows' = Counted(op.row, IF May(op.row, "failed") THEN "failed"
                                          ELSE rows[op.row].status)
               /\ op' = Idle /\ UNCHANGED <<db, dep, agent, gateway, polled>>
      <3>1. PICK s : s = IF May(op.row, "failed") THEN "failed" ELSE rows[op.row].status
        OBVIOUS
      <3>2. Moves(op.row, s)
        BY <2>0, <2>3, <3>1, CountMoves
      <3> QED
        BY <2>0, <2>3, <3>1, <3>2, <1>HealEnds
    <2>4. CASE /\ rows[op.row].attempts < MaxRestarts
               /\ rows' = Counted(op.row, rows[op.row].status)
               /\ op' = Idle /\ UNCHANGED <<db, dep, agent, gateway, polled>>
      <3>1. Moves(op.row, rows[op.row].status)
        BY <2>0, <2>4, CountMoves
      <3> QED
        BY <2>0, <2>4, <3>1, <1>HealEnds
    <2>5. CASE /\ rows[op.row].attempts < MaxRestarts /\ May(op.row, "restarting")
               /\ rows' = Counted(op.row, "restarting")
               /\ op' = [op EXCEPT !.pc = "heal_start"]
               /\ UNCHANGED <<db, dep, agent, gateway, polled>>
      <3>1. Moves(op.row, "restarting")
        BY <2>0, <2>5, CountMoves
      <3> QED
        BY <2>0, <2>5, <3>1, <1>HealRestarts
    <2> QED
      BY <2>1, <2>2, <2>3, <2>4, <2>5 DEF HealDecides, Counted
  <1>HealStartedStep.
    ASSUME FleetInv, NEW reply \in Replies("start"), HealStarted(reply)
    PROVE  FleetInv'
    <2> USE <1>HealStartedStep
    <2>0. op.pc = "heal_start" /\ op.row \in Rows /\ AgentReplies("start", op.row, reply)
      BY DEF FleetInv, RowFits, HealStarted
    <2>1. CASE reply = "ok"
      BY <2>0, <2>1, ProcessStarted DEF HealStarted
    <2>2. CASE reply # "ok"
      BY <2>0, <2>2, AgentStep, <1>RowReplaced DEF HealStarted
    <2> QED
      BY <2>1, <2>2
  <1>HealCheckedStep.
    ASSUME FleetInv, NEW healthy \in BOOLEAN, HealChecked(healthy)
    PROVE  FleetInv'
    <2> USE <1>HealCheckedStep
    <2>0. /\ op.pc = "heal_health" /\ UNCHANGED <<rels, active, desired, dep, proc, late, gateway, polled>>
          /\ proc \in [Ports -> Nat] /\ late \subseteq {"start", "stop"} \X Nat
          /\ Answered => late = {} /\ proc[rows[op.row].port] = op.row
      BY DEF HealChecked, FleetInv, Types, Own, agent, db
    <2>1. CASE healthy
      BY <2>0, <2>1, RowServes DEF HealChecked
    <2>2. CASE ~healthy
      <3>1. rows' = Set(op.row, "failed") /\ op' = [op EXCEPT !.pc = "replace"]
        BY <2>2 DEF HealChecked
      <3> QED
        BY <2>0, <3>1, <1>RowReplaced DEF db
    <2> QED
      BY <2>1, <2>2
  <1>ReplaceStep.
    ASSUME FleetInv, Replace
    PROVE  FleetInv'
    <2> USE <1>ReplaceStep
    <2>0. /\ op.pc = "replace" /\ op.row \in Rows
          /\ rows[op.row].rel \in 0..MaxReleases /\ rows[op.row].attempts \in 0..MaxRestarts
      BY RowTypes DEF Replace, FleetInv, RowFits
    <2>1. CASE GiveUp(op.row)
      BY <2>0, <2>1, <1>GiveUpStep
    <2>2. CASE ~GiveUp(op.row)
      BY ZenonT(30), <2>0, <2>2, RowAllocated DEF Replace
    <2> QED
      BY <2>1, <2>2
  <1>ReplaceStartedStep.
    ASSUME FleetInv, NEW reply \in Replies("start"), ReplaceStarted(reply)
    PROVE  FleetInv'
    <2> USE <1>ReplaceStartedStep
    <2>0. /\ Types /\ RowFits /\ ReleasesFit /\ op.pc = "replace_start" /\ op.row \in Rows
          /\ rows[op.row].status = "starting" /\ AgentReplies("start", op.row, reply)
      BY DEF FleetInv, RowFits, ReplaceStarted
    <2>1. CASE reply = "ok"
      BY <2>0, <2>1, ProcessStarted DEF ReplaceStarted
    <2>2. CASE reply # "ok"
      <3>0. /\ proc' \in [Ports -> Nat] /\ late' \subseteq {"start", "stop"} \X Nat
            /\ Answered => late' = {}
            /\ \A p \in Ports : p # rows[op.row].port => proc'[p] = proc[p]
        BY <2>0, AgentStep
      <3>1. /\ Moves(op.row, "failed") /\ op' = Idle
            /\ UNCHANGED <<rels, active, desired, dep, gateway, polled>>
        BY <2>0, <2>2, SetMoves DEF ReplaceStarted, InstanceStatus, db
      <3>2. ReleasesFit'
        BY <2>0, <3>1, IdleFields, ReleasesKept
      <3>3. ~RouteFits(rows[op.row].port, op.row) /\ rows[op.row].status \notin Dead
        BY <2>0 DEF RouteFits, Dead
      <3>4. (\A j : Busy(j) => j = op.row) /\ op.pc \notin InDeploymentAt
        BY <2>0 DEF Busy, InDeploymentAt
      <3> QED
        BY ZenonT(30), <2>0, <3>0, <3>1, <3>2, <3>3, <3>4, RowGivenUp DEF Dead, Types
    <2> QED
      BY <2>1, <2>2
  <1>ReplaceCheckedStep.
    ASSUME FleetInv, NEW healthy \in Verdicts, ReplaceChecked(healthy)
    PROVE  FleetInv'
    <2> USE <1>ReplaceCheckedStep
    <2>0. /\ op.pc = "replace_health" /\ op.row \in Rows /\ rows[op.row].status = "starting"
          /\ rows[op.row].status \in InstanceStatus /\ healthy \in BOOLEAN
          /\ ~healthy => "unhealthy" \in Faults
      BY ZenonT(30), RowTypes DEF ReplaceChecked, FleetInv, RowFits, Verdicts
    <2>1. May(op.row, "running") /\ ~May(op.row, "unhealthy")
      BY <2>0, Edges DEF May
    <2>2. CASE healthy
      <3>1. /\ rows' = Set(op.row, "running") /\ Sync("healed_sync")
            /\ UNCHANGED <<rels, active, desired, dep, proc, late, gateway, polled>>
        BY <2>1, <2>2 DEF ReplaceChecked, db, agent
      <3>2. /\ proc \in [Ports -> Nat] /\ late \subseteq {"start", "stop"} \X Nat
            /\ Answered => late = {} /\ proc[rows[op.row].port] = op.row
        BY <2>0 DEF FleetInv, Types, Own
      <3> QED
        BY <2>0, <3>1, <3>2, RowServes
    <2>3. CASE ~healthy
      BY <2>0, <2>1, <2>3, Raised DEF ReplaceChecked
    <2> QED
      BY <2>2, <2>3
  <1>1. ASSUME NEW reply \in SyncReplies, HealSynced(reply) PROVE FleetInv'
    BY <1>1, SyncGoesOn DEF HealSynced
  <1>2. ASSUME NEW reply \in SyncReplies, HealedSynced(reply) PROVE FleetInv'
    BY <1>2, SyncEnds DEF HealedSynced
  <1>3. ASSUME NEW healthy \in Verdicts, HealChecked(healthy) PROVE FleetInv'
    BY ZenonT(30), <1>3, <1>HealCheckedStep DEF Verdicts
  <1> QED
    BY <1>1, <1>2, <1>3, <1>HealDecidesStep, <1>HealStartedStep, <1>ReplaceStep, <1>ReplaceStartedStep,
       <1>ReplaceCheckedStep DEF HealStep

\* A poll reads a RUNNING instance and changes nothing.
LEMMA PollKeeps ==
  ASSUME FleetInv, PollEnds \/ \E i \in Rows : Poll(i)
  PROVE  FleetInv'
  <1>1. UNCHANGED <<rows, rels, active, desired, dep, op, proc, late, routed, inflight>>
    BY DEF PollEnds, Poll, db, agent, gateway
  <1>2. polled' # 0 => polled' \in Rows /\ rows[polled'].status # "pending"
    BY DEF PollEnds, Poll
  <1>3. Rows' = Rows
    BY <1>1 DEF Rows
  <1>4. Types' /\ PortsApart' /\ RowFits' /\ ListsFit' /\ ReleasesFit'
    <2>1. Types' /\ PortsApart'
      BY <1>1, <1>3 DEF FleetInv, Types, PortsApart
    <2>2. RowFits'
      BY <1>1, <1>2, <1>3 DEF FleetInv, RowFits
    <2>3. ListsFit' /\ ReleasesFit'
      BY <1>1, <1>3 DEF FleetInv, ListsFit, Listed, ReleasesFit, Ready
    <2> QED
      BY <2>1, <2>2, <2>3
  <1>5. CountFits'
    <2>1. Live' = Live
      BY <1>1, <1>3 DEF Live
    <2> QED
      BY <1>1, <2>1 DEF FleetInv, CountFits
  <1>6. (Orderly => Unmoved') /\ (Answered => Own')
    BY <1>1, <1>3 DEF FleetInv, Unmoved, Own, OwnProcess
  <1>7. Decisive => (PendingLeft \/ Underway)'
    BY <1>1, <1>3 DEF FleetInv, PendingLeft, Underway, Busy
  <1>8. Calm => RoutesFit'
    <2>1. \A p \in routed : RouteFits(p, proc[p]) => RouteFits(p, proc[p])'
      BY <1>1, <1>3 DEF RouteFits, Serves
    <2> QED
      BY <1>1, <1>3, <2>1 DEF FleetInv, RoutesFit, Serves
  <1> QED
    BY <1>4, <1>5, <1>6, <1>7, <1>8 DEF FleetInv
-----------------------------------------------------------------------------
(* The steps of blue-green switches *)

LEMMA SwitchBegins ==
  ASSUME FleetInv, op = Idle, active # 0, NEW pc \in {"switch_build", "gate_next"},
         NEW rel \in 0..MaxReleases, op' = Switch(pc, rel), dep' = "in_progress",
         rels' \in Seq(ReleaseStatus), Len(rels') <= MaxReleases, Len(rels) <= Len(rels'),
         \A r \in DOMAIN rels : rels'[r] = rels[r],
         rel \in DOMAIN rels', rel # active, pc = "gate_next" => rels'[rel] = "ready",
         UNCHANGED <<rows, active, desired, proc, late, routed, inflight, polled>>
  PROVE  FleetInv'
  <1>0. /\ Types /\ PortsApart /\ RowFits /\ ReleasesFit /\ rows \in Seq(Row) /\ Rows' = Rows
        /\ RowsStay /\ op.pc = "idle" /\ Live' = Live /\ rels \in Seq(ReleaseStatus)
        /\ active \in 0..Len(rels) /\ active \in Nat /\ desired \in Nat /\ routed \in SUBSET Ports
    BY IdleFields DEF FleetInv, Types, Rows, RowsStay, Live
  <1>1. /\ op'.pc = pc /\ op'.rel = rel /\ op'.before = active /\ op'.was = routed
        /\ op'.new = <<>> /\ op' \in Op
    BY ZenonT(30), <1>0, IdleFields DEF Switch, Op, Pcs, AwaitsElse
  <1>2. Types'
    BY <1>0, <1>1 DEF Types, DeploymentStatus
  <1>3. PortsApart' /\ RowFits' /\ ListsFit' /\ CountFits'
    BY <1>0, <1>1, PolledKept DEF PortsApart, RowFits, ListsFit, Listed, CountFits
  <1>4. ReleasesFit'
    <2>1. DOMAIN rels \subseteq DOMAIN rels' /\ Ready(active)
      BY <1>0 DEF ReleasesFit
    <2> QED
      BY <1>1, <2>1 DEF ReleasesFit, Ready
  <1>5. (Orderly => Unmoved') /\ (Answered => Own')
    BY <1>0, <1>1 DEF FleetInv, Unmoved, Own, OwnProcess
  <1>6. Decisive => (PendingLeft \/ Underway)'
    BY <1>0, <1>1 DEF FleetInv, PendingLeft, Underway, Busy, InDeploymentAt
  <1>7. Calm => RoutesFit'
    BY <1>0, <1>1 DEF FleetInv, RoutesFit, RouteFits, Serves, AwaitsSync
  <1> QED
    BY <1>2, <1>3, <1>4, <1>5, <1>6, <1>7 DEF FleetInv

LEMMA StartNewReleaseStep ==
  ASSUME FleetInv, StartNewRelease
  PROVE  FleetInv'
  <1>0. /\ rels \in Seq(ReleaseStatus) /\ "building" \in ReleaseStatus /\ active \in 0..Len(rels)
        /\ Len(rels) < MaxReleases /\ MaxReleases \in Nat /\ op = Idle /\ active # 0
        /\ rels' = Append(rels, "building") /\ dep' = "in_progress"
        /\ UNCHANGED <<rows, active, desired, proc, late, routed, inflight, polled>>
    BY FleetConstants DEF FleetInv, Types, StartNewRelease, agent, gateway, ReleaseStatus
  <1>1. /\ rels' \in Seq(ReleaseStatus) /\ Len(rels') = Len(rels) + 1 /\ Len(rels) \in Nat
        /\ \A r \in DOMAIN rels : rels'[r] = rels[r]
    BY <1>0
  <1>2. PICK rel : rel = Len(rels')
    BY ZenonT(30)
  <1>3. /\ rel \in 0..MaxReleases /\ rel \in DOMAIN rels' /\ rel # active
        /\ Len(rels') <= MaxReleases /\ Len(rels) <= Len(rels')
    BY <1>0, <1>1, <1>2
  <1>4. op' = Switch("switch_build", rel)
    BY <1>2 DEF StartNewRelease
  <1> QED
    BY <1>0, <1>1, <1>3, <1>4, SwitchBegins

LEMMA StartRollbackStep ==
  ASSUME FleetInv, NEW release \in DOMAIN rels, StartRollback(release)
  PROVE  FleetInv'
  <1>0. /\ rels \in Seq(ReleaseStatus) /\ Len(rels) <= MaxReleases /\ MaxReleases \in Nat
        /\ op = Idle /\ active # 0 /\ release # active /\ rels[release] = "ready"
        /\ dep' = "in_progress" /\ op' = Switch("gate_next", release)
        /\ UNCHANGED <<rows, rels, active, desired, proc, late, routed, inflight, polled>>
    BY FleetConstants DEF FleetInv, Types, StartRollback, db, agent, gateway
  <1>1. release \in 0..MaxReleases /\ Len(rels) <= Len(rels)
    BY <1>0
  <1> QED
    BY <1>0, <1>1, SwitchBegins

\* The rows when some releases have been deleted.
RowsWithout(gone) ==
    [i \in Rows |-> IF rows[i].rel \in gone THEN [rows[i] EXCEPT !.rel = 0] ELSE rows[i]]

\* A pruned release is taken out of its rows.
LEMMA RowsPruned ==
  ASSUME Types, NEW gone, rows' = RowsWithout(gone)
  PROVE  /\ rows' \in Seq(Row) /\ Len(rows') = Len(rows)
         /\ \A i \in Rows : /\ rows'[i].status = rows[i].status /\ rows'[i].port = rows[i].port
                            /\ rows[i].rel \notin gone => rows'[i] = rows[i]
                            /\ rows[i].rel \in gone => rows'[i].rel = 0
  <1>1. rows \in Seq(Row) /\ Len(rows) \in Nat /\ 0 \in 0..MaxReleases
    BY FleetConstants DEF Types
  <1>2. \A i \in Rows : /\ rows'[i] \in Row
                        /\ rows'[i].status = rows[i].status /\ rows'[i].port = rows[i].port
                        /\ rows[i].rel \notin gone => rows'[i] = rows[i]
                        /\ rows[i].rel \in gone => rows'[i].rel = 0
    <2> SUFFICES ASSUME NEW i \in Rows
                 PROVE  /\ rows'[i] \in Row
                        /\ rows'[i].status = rows[i].status /\ rows'[i].port = rows[i].port
                        /\ rows[i].rel \notin gone => rows'[i] = rows[i]
                        /\ rows[i].rel \in gone => rows'[i].rel = 0
      OBVIOUS
    <2>1. rows[i] \in Row
      BY RowTypes
    <2>2. CASE rows[i].rel \in gone
      <3>1. rows'[i] = [rows[i] EXCEPT !.rel = 0]
        BY <2>2 DEF RowsWithout
      <3> QED
        BY ZenonT(30), <1>1, <2>1, <2>2, <3>1 DEF Row
    <2>3. CASE rows[i].rel \notin gone
      BY <2>1, <2>3 DEF RowsWithout
    <2> QED
      BY <2>2, <2>3
  <1>3. rows' \in [1..Len(rows) -> Row]
    BY <1>2 DEF Rows, RowsWithout
  <1> QED
    BY <1>1, <1>2, <1>3

LEMMA ReleaseKeeps ==
  ASSUME Counting, FleetInv, ReleaseStep
  PROVE  FleetInv'
  \* The switch is given up, and the instances it started are to be stopped.
  <1>Aborts.
    ASSUME FleetInv, op.pc \in GatingAt \ {"switch_build"}, op.new # <<>>,
           op' = [op EXCEPT !.pc = "abort_stop", !.todo = op.new], active' = op.before,
           UNCHANGED <<rels, desired, dep, polled>>,
           proc' \in [Ports -> Nat], late' \subseteq {"start", "stop"} \X Nat,
           Answered => late' = {},
           \A p \in Ports : proc'[p] # proc[p] => op.pc = "gate_start" /\ p = rows[op.row].port,
           rows' \in Seq(Row), Len(rows') = Len(rows), Rows' = Rows, RowsStay, PortsApart',
           \A j \in Rows : /\ rows'[j].port = rows[j].port /\ rows'[j].rel = rows[j].rel
                           /\ rows'[j] # rows[j] => /\ op.pc # "switch_sync" /\ j = op.row
                                                    /\ rows[j].status = "starting"
                                                    /\ rows'[j].status = "failed",
           op.pc \in {"gate_start", "gate_health"} => rows'[op.row].status = "failed",
           routed' \subseteq Ports, inflight' \subseteq SUBSET Ports,
           Orderly => UNCHANGED gateway,
           Calm => op.pc # "switch_sync" /\ UNCHANGED gateway
    PROVE  FleetInv'
    <2> USE <1>Aborts
    <2>0. /\ Types /\ RowFits /\ ListsFit /\ ReleasesFit /\ op \in Op /\ op.new \in Seq(Nat)
          /\ rows \in Seq(Row) /\ PortsApart
          /\ op.pc = "gate_start" => op.row \in Rows /\ rows[op.row].status = "starting"
      BY DEF FleetInv, Types, Op, RowFits
    <2>1. /\ op' \in Op /\ op'.pc = "abort_stop" /\ op'.todo = op.new /\ op'.before = op.before
          /\ op'.rel = op.rel /\ op'.was = op.was
      BY ZenonT(30), <2>0 DEF Op, Pcs, AwaitsStop
    <2>2. Types'
      BY <2>0, <2>1 DEF Types, ReleasesFit, Ready
    <2>3. RowFits'
      <3>1. polled' # 0 => polled' \in Rows' /\ rows'[polled'].status # "pending"
        BY <2>0, PolledKept
      <3> QED
        BY <2>1, <3>1 DEF RowFits
    <2>4. ListsFit'
      <3>1. Listed(op.new, "running")
        BY <2>0 DEF ListsFit
      <3>2. \A k \in DOMAIN op.new : op.new[k] \in Rows /\ rows'[op.new[k]].status = "running"
        BY <3>1 DEF Listed
      <3> QED
        BY <2>1, <3>1, <3>2 DEF ListsFit, Listed
    <2>5. ReleasesFit'
      BY <2>0, <2>1 DEF ReleasesFit, Ready
    <2>6. CountFits'
      BY <2>1 DEF CountFits
    <2>7. Orderly => Unmoved'
      BY <2>1 DEF FleetInv, Unmoved, gateway
    <2>8. Answered => Own'
      <3> SUFFICES ASSUME Answered PROVE Own'
        OBVIOUS
      <3>1. ASSUME NEW j \in Rows, rows'[j].status = "running" PROVE proc'[rows[j].port] = j
        <4>1. rows[j].status = "running" /\ rows[j].port \in Ports
          BY <2>0, <3>1, RowTypes
        <4>2. proc[rows[j].port] = j
          BY <4>1 DEF FleetInv, Own, OwnProcess
        <4>3. op.pc = "gate_start" => rows[j].port # rows[op.row].port
          BY ZenonT(30), <2>0, <4>1 DEF PortsApart, Dead
        <4> QED
          BY <4>1, <4>2, <4>3
      <3> QED
        BY <2>1, <3>1 DEF Own, OwnProcess
    <2>9. Decisive => (PendingLeft \/ Underway)'
      <3>1. CASE PendingLeft
        <4>1. PendingLeft'
          BY <2>0, <2>1, <3>1, PendingStays
        <4> QED
          BY <4>1
      <3>2. CASE Underway
        <4>1. ASSUME NEW j \in Rows, rows'[j].status \in Transient PROVE FALSE
          <5>1. rows[j].status \in Transient /\ rows'[j] = rows[j]
            BY <4>1 DEF Transient
          <5>2. Busy(j)
            BY <3>2, <5>1 DEF Underway
          <5> QED
            BY <4>1, <5>1, <5>2 DEF Busy, Transient
        <4> QED
          BY <2>1, <3>2, <4>1 DEF Underway, InDeploymentAt
      <3> QED
        BY <3>1, <3>2 DEF FleetInv
    <2>10. Calm => RoutesFit'
      <3> SUFFICES ASSUME Calm PROVE RoutesFit'
        OBVIOUS
      <3>1. op'.pc \notin AwaitsSync /\ active' = active
        BY <2>0, <2>1 DEF AwaitsSync, ReleasesFit
      <3>2. \A p, j : RouteFits(p, j) => rows'[j] = rows[j] /\ \A k \in DOMAIN op.new : op.new[k] # j
        BY DEF RouteFits
      <3>3. op.pc = "gate_start" => rows[op.row].port \notin routed
        <4>1. op.pc = "gate_start" => ~RouteFits(rows[op.row].port, op.row)
          BY <2>0 DEF RouteFits
        <4> QED
          BY ZenonT(30), <2>0, <4>1, NotRouted DEF FleetInv, Dead
      <3>4. \A p \in routed : proc'[p] = proc[p]
        BY <2>0, <3>3 DEF Types
      <3> QED
        BY <2>0, <2>1, <3>1, <3>2, <3>4, RoutesKept DEF FleetInv, gateway
    <2> QED
      BY <2>2, <2>3, <2>4, <2>5, <2>6, <2>7, <2>8, <2>9, <2>10 DEF FleetInv
  <1>ReleaseBuiltStep.
    ASSUME FleetInv, NEW reply, ReleaseBuilt(reply)
    PROVE  FleetInv'
    <2> USE <1>ReleaseBuiltStep
    <2>0. /\ Types /\ PortsApart /\ RowFits /\ ListsFit /\ ReleasesFit /\ op \in Op
          /\ rels \in Seq(ReleaseStatus) /\ op.pc = "switch_build" /\ rows \in Seq(Row)
          /\ op.rel \in DOMAIN rels /\ op.rel # active /\ Rows' = Rows /\ RowsStay /\ Live' = Live
          /\ UNCHANGED <<rows, active, desired, proc, late, routed, inflight, polled>>
      BY DEF FleetInv, ReleasesFit, ReleaseBuilt, Types, agent, gateway, Rows, RowsStay, Live
    <2>1. PICK r \in {"ready", "failed"} : rels' = [rels EXCEPT ![op.rel] = r]
      BY DEF ReleaseBuilt
    <2>2. /\ rels' \in Seq(ReleaseStatus) /\ Len(rels') = Len(rels)
          /\ \A x \in DOMAIN rels : x # op.rel => rels'[x] = rels[x]
          /\ rels'[op.rel] = r
      BY <2>0, <2>1 DEF ReleaseStatus
    <2>3. CASE reply # "ok"
      <3>1. op' = Idle /\ dep' = "failed" /\ op'.pc = "idle"
        BY <2>3, IdleFields DEF ReleaseBuilt, End
      <3>2. ReleasesFit'
        BY <2>0, <2>2, <3>1 DEF ReleasesFit, Ready
      <3>3. \A j : ~Busy(j)
        BY <2>0 DEF Busy
      <3>4. Answered => late' = {} /\ OwnProcess'
        BY <2>0 DEF FleetInv, Own, OwnProcess
      <3> QED
        BY <2>0, <2>2, <3>1, <3>2, <3>3, <3>4, RowsLeft DEF Types, gateway, DeploymentStatus
    <2>4. CASE reply = "ok"
      <3>1. op' = [op EXCEPT !.pc = "gate_next"] /\ dep' = dep
            /\ rels' = [rels EXCEPT ![op.rel] = "ready"]
        BY <2>4 DEF ReleaseBuilt
      <3>2. /\ op' \in Op /\ op'.pc = "gate_next" /\ op'.rel = op.rel /\ op'.before = op.before
            /\ op'.was = op.was /\ op'.new = op.new
        BY ZenonT(30), <2>0, <3>1 DEF Op, Pcs, AwaitsElse
      <3>3. Types'
        BY <2>0, <2>2, <3>1, <3>2 DEF Types
      <3>4. PortsApart' /\ RowFits' /\ ListsFit' /\ CountFits'
        BY <2>0, <3>2, PolledKept DEF PortsApart, RowFits, ListsFit, Listed, CountFits
      <3>5. ReleasesFit'
        BY <2>0, <2>2, <3>1, <3>2 DEF ReleasesFit, Ready
      <3>6. (Orderly => Unmoved') /\ (Answered => Own')
        BY <2>0, <3>2 DEF FleetInv, Unmoved, Own, OwnProcess
      <3>7. Decisive => (PendingLeft \/ Underway)'
        BY <2>0, <3>1, <3>2 DEF FleetInv, PendingLeft, Underway, Busy, InDeploymentAt
      <3>8. Calm => RoutesFit'
        BY <2>0, <3>2 DEF FleetInv, RoutesFit, RouteFits, Serves, AwaitsSync
      <3> QED
        BY <3>3, <3>4, <3>5, <3>6, <3>7, <3>8 DEF FleetInv
    <2> QED
      BY <2>3, <2>4
  \* Every instance has passed: the active release is switched and the gateway is
  \* told.
  <1>Switches.
    ASSUME FleetInv, op.pc = "gate_next", active' = op.rel, Sync("switch_sync"),
           UNCHANGED <<rows, rels, desired, dep, proc, late, routed, inflight, polled>>
    PROVE  FleetInv'
    <2> USE <1>Switches
    <2>0. /\ Types /\ PortsApart /\ RowFits /\ ListsFit /\ ReleasesFit /\ op \in Op
          /\ rows \in Seq(Row) /\ Rows' = Rows /\ RowsStay /\ Live' = Live
      BY DEF FleetInv, Types, Rows, RowsStay, Live
    <2>a. PICK ports : ports = Upstreams(rows', active')
      OBVIOUS
    <2>b. ports \in SUBSET Ports
      BY <2>0, <2>a, UpstreamPortsNext
    <2>c. op' = [op EXCEPT !.pc = "switch_sync", !.sent = ports]
      BY <2>a DEF Sync
    <2>1. /\ op' \in Op /\ op'.pc = "switch_sync" /\ op'.rel = op.rel /\ op'.before = op.before
          /\ op'.was = op.was /\ op'.new = op.new /\ op'.sent = ports
      BY ZenonT(30), <2>0, <2>b, <2>c DEF Op, Pcs, AwaitsSync
    <2>2. Types'
      BY <2>0, <2>1 DEF Types, ReleasesFit, Ready
    <2>3. PortsApart' /\ RowFits' /\ ListsFit' /\ CountFits'
      BY <2>0, <2>1, PolledKept DEF PortsApart, RowFits, ListsFit, Listed, CountFits
    <2>4. ReleasesFit'
      BY <2>0, <2>1 DEF ReleasesFit, Ready
    <2>5. (Orderly => Unmoved') /\ (Answered => Own')
      BY <2>0, <2>1 DEF FleetInv, Unmoved, Own, OwnProcess
    <2>6. Decisive => (PendingLeft \/ Underway)'
      BY <2>0, <2>1 DEF FleetInv, PendingLeft, Underway, Busy, InDeploymentAt
    <2>7. Calm => RoutesFit'
      <3> SUFFICES ASSUME Calm PROVE RoutesFit'
        OBVIOUS
      <3>1. op'.sent = Upstreams(rows', active')
        BY <2>a, <2>1
      <3>2. \A p \in op'.sent :
              proc'[p] \in Rows' /\ rows'[proc'[p]].port = p /\ Serves(proc[p])'
        BY <2>0, <2>5, <3>1, CalmIsMore, SentIsServed DEF Own
      <3>3. \A p \in routed' : RouteFits(p, proc[p])'
        BY <2>0, <2>1 DEF FleetInv, RoutesFit, RouteFits
      <3> QED
        BY <3>2, <3>3 DEF RoutesFit
    <2> QED
      BY <2>2, <2>3, <2>4, <2>5, <2>6, <2>7 DEF FleetInv
  <1>GateNextStep.
    ASSUME FleetInv, GateNext
    PROVE  FleetInv'
    <2> USE <1>GateNextStep
    <2>0. /\ Types /\ PortsApart /\ ReleasesFit /\ op \in Op /\ op.pc = "gate_next"
          /\ op.rel \in 0..MaxReleases /\ 0 \in 0..MaxRestarts /\ rows \in Seq(Row)
          /\ active = op.before
          /\ UNCHANGED <<rels, desired, proc, late, routed, inflight, polled>>
      BY FleetConstants DEF GateNext, FleetInv, Types, Op, ReleasesFit, agent, gateway
    <2>1. CASE /\ op.left > 0 /\ FreePorts # {} /\ rows' = Allocated(op.rel, "starting", 0)
               /\ op' = [op EXCEPT !.pc = "gate_start", !.row = Len(rows')]
               /\ UNCHANGED <<active, dep>>
      BY ZenonT(30), <2>0, <2>1, RowAllocated DEF db, agent, gateway
    <2>2. CASE UNCHANGED <<rows, active>> /\ Abort
      <3>0. Answered => late' = {} /\ OwnProcess'
        BY <2>0, <2>2 DEF FleetInv, Own, OwnProcess, Rows
      <3>1. CASE op.new = <<>>
        <4>1. op' = Idle /\ dep' = "failed"
          BY <2>2, <3>1 DEF Abort, End
        <4>2. ReleasesFit' /\ \A j : ~Busy(j)
          BY <2>0, <2>2, <4>1, IdleFields, ReleasesKept DEF Busy
        <4> QED
          BY <2>0, <2>2, <3>0, <4>1, <4>2, RowsLeft DEF Types, gateway, DeploymentStatus
      <3>2. CASE op.new # <<>>
        <4>1. op' = [op EXCEPT !.pc = "abort_stop", !.todo = op.new] /\ dep' = dep
          BY <2>2, <3>2 DEF Abort
        <4>2. /\ Rows' = Rows /\ RowsStay /\ PortsApart' /\ rows' \in Seq(Row)
              /\ Len(rows') = Len(rows)
          BY <2>0, <2>2 DEF Rows, RowsStay, PortsApart
        <4> QED
          BY <2>0, <2>2, <3>0, <3>2, <4>1, <4>2, <1>Aborts DEF Types, gateway
      <3> QED
        BY <3>1, <3>2
    <2>3. CASE UNCHANGED <<rows, dep>> /\ active' = op.rel /\ Sync("switch_sync")
      BY <2>0, <2>3, <1>Switches
    <2> QED
      BY <2>1, <2>2, <2>3 DEF GateNext
  \* An instance of the new release does not pass the gate.
  <1>GateFails.
    ASSUME FleetInv, op.pc \in {"gate_start", "gate_health"}, rows' = Set(op.row, "failed"), Abort,
           UNCHANGED <<db, gateway, polled>>,
           proc' \in [Ports -> Nat], late' \subseteq {"start", "stop"} \X Nat,
           Answered => late' = {},
           \A p \in Ports : proc'[p] # proc[p] => op.pc = "gate_start" /\ p = rows[op.row].port
    PROVE  FleetInv'
    <2> USE <1>GateFails
    <2>0. /\ Types /\ RowFits /\ ReleasesFit /\ op.row \in Rows /\ rows[op.row].status = "starting"
          /\ rows[op.row].status \notin Dead /\ "failed" \in InstanceStatus \ {"pending"}
          /\ "failed" \in Dead /\ active = op.before
          /\ UNCHANGED <<rels, active, desired, routed, inflight, polled>>
      BY DEF FleetInv, RowFits, Dead, InstanceStatus, ReleasesFit, db, gateway
    <2>1. CASE op.new = <<>>
      <3>1. op' = Idle /\ dep' = "failed" /\ Moves(op.row, "failed")
        BY <2>0, <2>1, SetMoves DEF Abort, End
      <3>2. ReleasesFit'
        BY <2>0, <3>1, IdleFields, ReleasesKept
      <3>3. ~RouteFits(rows[op.row].port, op.row)
        BY <2>0 DEF RouteFits
      <3>4. \A j : Busy(j) => j = op.row
        BY DEF Busy
      <3> QED
        BY ZenonT(30), <2>0, <3>1, <3>2, <3>3, <3>4, RowGivenUp DEF Types, DeploymentStatus
    <2>2. CASE op.new # <<>>
      <3>1. op' = [op EXCEPT !.pc = "abort_stop", !.todo = op.new] /\ dep' = dep
        BY <2>2 DEF Abort
      <3>2. /\ rows' \in Seq(Row) /\ PortsApart'
            /\ Len(rows') = Len(rows) /\ Rows' = Rows /\ RowsStay /\ rows'[op.row].status = "failed"
            /\ \A j \in Rows : rows'[j].port = rows[j].port /\ rows'[j].rel = rows[j].rel
                               /\ (j # op.row => rows'[j] = rows[j])
        BY <2>0, RowMarked
      <3> QED
        BY <2>0, <2>2, <3>1, <3>2, <1>Aborts DEF Types
    <2> QED
      BY <2>1, <2>2
  <1>GateStartedStep.
    ASSUME FleetInv, NEW reply \in Replies("start"), GateStarted(reply)
    PROVE  FleetInv'
    <2> USE <1>GateStartedStep
    <2>0. op.pc = "gate_start" /\ op.row \in Rows /\ AgentReplies("start", op.row, reply)
          /\ UNCHANGED <<db, gateway, polled>>
      BY DEF FleetInv, RowFits, GateStarted
    <2>1. CASE reply = "ok"
      BY <2>0, <2>1, ProcessStarted DEF GateStarted
    <2>2. CASE reply # "ok"
      <3>1. rows' = Set(op.row, "failed") /\ Abort
        BY <2>2 DEF GateStarted
      <3>2. /\ proc' \in [Ports -> Nat] /\ late' \subseteq {"start", "stop"} \X Nat
            /\ Answered => late' = {}
            /\ \A p \in Ports : p # rows[op.row].port => proc'[p] = proc[p]
        BY <2>0, AgentStep
      <3> QED
        BY <2>0, <3>1, <3>2, <1>GateFails
    <2> QED
      BY <2>1, <2>2
  \* An instance of the new release passes the gate.
  <1>GatePasses.
    ASSUME FleetInv, op.pc = "gate_health", rows' = Set(op.row, "running"),
           op' \in Op, op'.pc = "gate_next", op'.new = Append(op.new, op.row),
           op'.rel = op.rel, op'.before = op.before, op'.was = op.was,
           UNCHANGED <<rels, active, desired, dep, proc, late, routed, inflight, polled>>
    PROVE  FleetInv'
    <2> USE <1>GatePasses
    <2>0. /\ Types /\ RowFits /\ ListsFit /\ ReleasesFit /\ op \in Op /\ op.row \in Rows
          /\ rows[op.row].status = "starting" /\ rows[op.row].status \notin Dead
          /\ "running" \in InstanceStatus \ {"pending"} /\ Listed(op.new, "running")
      BY DEF FleetInv, RowFits, Types, Dead, InstanceStatus, ListsFit
    <2>a. op.new \in Seq(Nat) /\ op.row \in Nat
      BY <2>0 DEF Op
    <2>1. /\ rows \in Seq(Row) /\ rows' \in Seq(Row) /\ PortsApart /\ PortsApart'
          /\ Len(rows') = Len(rows) /\ Rows' = Rows /\ RowsStay /\ rows'[op.row].status = "running"
          /\ \A j \in Rows : rows'[j].port = rows[j].port /\ (j # op.row => rows'[j] = rows[j])
      BY <2>0, RowMarked
    <2>2. Types'
      BY <2>0, <2>1 DEF Types
    <2>3. RowFits' /\ CountFits'
      <3>1. polled' # 0 => polled' \in Rows' /\ rows'[polled'].status # "pending"
        BY <2>0, <2>1, PolledKept
      <3> QED
        BY <3>1 DEF RowFits, CountFits
    <2>4. \A k \in DOMAIN op'.new : \/ k \in DOMAIN op.new /\ op'.new[k] = op.new[k]
                                    \/ k = Len(op.new) + 1 /\ op'.new[k] = op.row
      BY <2>a
    <2>5. ListsFit'
      <3>1. \A k \in DOMAIN op.new : op.new[k] \in Rows /\ op.new[k] # op.row
                                     /\ rows[op.new[k]].status = "running"
        BY <2>0 DEF Listed
      <3>2. \A k \in DOMAIN op'.new : op'.new[k] \in Rows' /\ rows'[op'.new[k]].status = "running"
        BY <2>0, <2>1, <2>4, <3>1
      <3>3. \A k, l \in DOMAIN op.new : op.new[k] = op.new[l] => k = l
        BY <2>0 DEF Listed
      <3>4. \A k, l \in DOMAIN op'.new : op'.new[k] = op'.new[l] => k = l
        BY <2>4, <3>1, <3>3
      <3> QED
        BY <3>2, <3>4 DEF ListsFit, Listed
    <2>6. ReleasesFit'
      BY <2>0 DEF ReleasesFit, Ready
    <2>7. Orderly => Unmoved'
      BY DEF FleetInv, Unmoved
    <2>8. Answered => Own'
      <3> SUFFICES ASSUME Answered PROVE Own'
        OBVIOUS
      <3>1. OwnProcess'
        BY <2>1, OwnKept DEF FleetInv, Own
      <3> QED
        BY <3>1 DEF FleetInv, Own
    <2>9. Decisive => (PendingLeft \/ Underway)'
      <3>1. CASE PendingLeft
        <4>1. PendingLeft'
          BY <2>0, <2>1, <3>1, PendingStays
        <4> QED
          BY <4>1
      <3>2. CASE Underway
        BY <2>0, <2>1, <3>2 DEF Underway, Busy, InDeploymentAt, Transient
      <3> QED
        BY <3>1, <3>2 DEF FleetInv
    <2>10. Calm => RoutesFit'
      <3> SUFFICES ASSUME Calm PROVE RoutesFit'
        OBVIOUS
      <3>1. op'.pc \notin AwaitsSync
        BY DEF AwaitsSync
      <3>2. \A p, j : RouteFits(p, j) => j # op.row /\ \A k \in DOMAIN op.new : op.new[k] # j
        BY <2>0 DEF RouteFits
      <3>3. \A p, j : RouteFits(p, j) => \A k \in DOMAIN op'.new : op'.new[k] # j
        BY <2>4, <3>2
      <3>4. RoutesFit /\ op'.pc \notin BehindAt /\ op.pc \notin BehindAt
            /\ op'.pc \notin CurrentAt /\ op'.pc # "abort_stop"
        BY <2>0 DEF FleetInv
      <3>5. \A p \in routed, i \in Rows : RouteFits(p, i) /\ proc[p] = i =>
             /\ proc'[p] = i
             /\ rows'[i].port = rows[i].port /\ rows'[i].status = rows[i].status
             /\ rows'[i].rel = rows[i].rel
             /\ op'.pc \in GatingAt => \A k \in DOMAIN op'.new : op'.new[k] # i
        BY <2>0, <2>1, <3>2, <3>3
      <3>6. /\ Types /\ routed' = routed /\ active' = active
            /\ Len(rows) <= Len(rows') /\ rows' \in Seq(Row)
        BY <2>0, <2>1
      <3>7. /\ op'.pc \notin BehindAt => op.pc \notin BehindAt
            /\ op'.pc \in CurrentAt => op.pc \in CurrentAt
            /\ op'.pc \in AwaitsSync =>
                 \A p \in op'.sent :
                   proc'[p] \in Rows' /\ rows'[proc'[p]].port = p /\ Serves(proc[p])'
        BY <3>1, <3>4
      <3>8. \A p \in routed, i \in Rows : RouteFits(p, i) /\ proc[p] = i =>
             /\ proc'[p] = i
             /\ rows'[i].port = rows[i].port /\ rows'[i].status = rows[i].status
             /\ rows'[i].rel = rows[i].rel
             /\ op'.pc \in GatingAt => \A k \in DOMAIN op'.new : op'.new[k] # i
             /\ op'.pc = "abort_stop" => \A k \in DOMAIN op'.todo : op'.todo[k] # i
        BY <3>4, <3>5
      <3> QED
        BY ZenonT(30), <3>4, <3>6, <3>7, <3>8, RoutesKept
    <2> QED
      BY <2>1, <2>2, <2>3, <2>5, <2>6, <2>7, <2>8, <2>9, <2>10 DEF FleetInv
  <1>GateCheckedStep.
    ASSUME FleetInv, NEW healthy \in BOOLEAN, GateChecked(healthy)
    PROVE  FleetInv'
    <2> USE <1>GateCheckedStep
    <2>0. /\ op.pc = "gate_health" /\ op \in Op /\ op.row \in Rows /\ op.left > 0
          /\ UNCHANGED <<rels, active, desired, proc, late, routed, inflight, polled>>
          /\ proc \in [Ports -> Nat] /\ late \subseteq {"start", "stop"} \X Nat
          /\ Answered => late = {}
      BY DEF FleetInv, RowFits, CountFits, GateChecked, Types, Own, db, agent, gateway
    <2>1. CASE healthy
      <3>1. PICK n : n = op.left - 1
        OBVIOUS
      <3>2. PICK new : new = Append(op.new, op.row)
        BY ZenonT(30)
      <3>3. n \in Nat /\ new \in Seq(Nat)
        BY <2>0, <3>1, <3>2 DEF Op
      <3>4. rows' = Set(op.row, "running") /\ op' = [op EXCEPT !.pc = "gate_next", !.left = n, !.new = new]
            /\ dep' = dep
        BY <2>1, <3>1, <3>2 DEF GateChecked
      <3>5. /\ op' \in Op /\ op'.pc = "gate_next" /\ op'.new = new
            /\ op'.rel = op.rel /\ op'.before = op.before /\ op'.was = op.was
        BY ZenonT(30), <2>0, <3>3, <3>4 DEF Op, Pcs, AwaitsElse
      <3> QED
        BY <2>0, <3>2, <3>4, <3>5, <1>GatePasses
    <2>2. CASE ~healthy
      <3>1. rows' = Set(op.row, "failed") /\ Abort
        BY <2>2 DEF GateChecked
      <3> QED
        BY <2>0, <3>1, <1>GateFails DEF db, gateway
    <2> QED
      BY <2>1, <2>2
  <1>NotEmpty.
    ASSUME NEW t \in Seq(Nat), Len(t) # 0
    PROVE  t # <<>>
    BY <1>NotEmpty
  \* An instance of the switch that was given up is stopped, and others follow.
  <1>AbortGoesOn.
    ASSUME FleetInv, op.pc = "abort_stop", NEW reply \in Replies("stop"),
           AgentReplies("stop", Head(op.todo), reply), rows' = Set(Head(op.todo), "stopped"),
           Len(op.todo) # 1, NEW t \in Seq(Nat), t = Tail(op.todo),
           op' \in Op, op'.pc = "abort_stop", op'.todo = t, op'.rel = op.rel,
           op'.before = op.before, op'.was = op.was,
           UNCHANGED <<rels, active, desired, dep, gateway, polled>>
    PROVE  FleetInv'
    <2> USE <1>AbortGoesOn
    <2> DEFINE i == Head(op.todo)
    <2>0. /\ Types /\ RowFits /\ ListsFit /\ ReleasesFit /\ CountFits /\ op.todo # <<>>
          /\ Listed(op.todo, "running") /\ op \in Op
      BY DEF FleetInv, ListsFit, Types
    <2>a. op.todo \in Seq(Nat) /\ Len(op.todo) \in Nat \ {0} /\ i = op.todo[1] /\ 1 \in DOMAIN op.todo
          /\ Len(t) = Len(op.todo) - 1
          /\ \A k \in 1..(Len(op.todo) - 1) : t[k] = op.todo[k + 1]
      BY <2>0 DEF Types, Op
    <2>b. /\ i \in Rows /\ rows[i].status = "running" /\ rows[i].status \notin Dead
          /\ "stopped" \in InstanceStatus \ {"pending"}
      BY <2>0, <2>a DEF Listed, Dead, InstanceStatus
    <2> HIDE DEF i
    <2>1. /\ rows \in Seq(Row) /\ rows' \in Seq(Row) /\ PortsApart /\ PortsApart'
          /\ Len(rows') = Len(rows) /\ Rows' = Rows /\ RowsStay /\ rows'[i].status = "stopped"
          /\ \A j \in Rows : rows'[j].port = rows[j].port /\ (j # i => rows'[j] = rows[j])
      BY <2>b, RowMarked DEF i
    <2>2. /\ proc' \in [Ports -> Nat] /\ late' \subseteq {"start", "stop"} \X Nat
          /\ Answered => late' = {}
          /\ \A p \in Ports : p # rows[i].port => proc'[p] = proc[p]
      BY <2>b, AgentStep DEF i
    <2>3. Types'
      BY <2>0, <2>1, <2>2 DEF Types, gateway
    <2>4. RowFits' /\ ReleasesFit' /\ CountFits'
      <3>1. polled' # 0 => polled' \in Rows' /\ rows'[polled'].status # "pending"
        BY <2>0, <2>1, PolledKept
      <3> QED
        BY <2>0, <3>1 DEF RowFits, ReleasesFit, Ready, CountFits
    <2>5. DOMAIN t = 1..(Len(op.todo) - 1) /\ DOMAIN op.todo = 1..Len(op.todo)
      BY <2>a
    <2>6. \A k \in DOMAIN t : t[k] = op.todo[k + 1] /\ k + 1 \in DOMAIN op.todo /\ k + 1 # 1
      BY <2>a, <2>5
    <2>7. ListsFit'
      <3> SUFFICES t # <<>> /\ Listed(t, "running")'
        BY DEF ListsFit, Listed
      <3>1. \A k \in DOMAIN t : t[k] \in Rows /\ t[k] # i /\ rows[t[k]].status = "running"
        BY <2>0, <2>a, <2>6 DEF Listed
      <3>2. \A k, l \in DOMAIN t : t[k] = t[l] => k + 1 = l + 1
        BY <2>0, <2>6 DEF Listed
      <3>3. \A k, l \in DOMAIN t : k + 1 = l + 1 => k = l
        BY <2>a, <2>5
      <3>4. Listed(t, "running")'
        BY ZenonT(30), <2>1, <3>1, <3>2, <3>3 DEF Listed
      <3>5. t # <<>>
        <4>1. Len(t) # 0
          BY <2>a
        <4> QED
          BY ZenonT(30), <4>1, <1>NotEmpty
      <3> QED
        BY <3>4, <3>5
    <2>8. Orderly => Unmoved'
      BY DEF FleetInv, Unmoved, gateway
    <2>9. Answered => Own'
      <3> SUFFICES ASSUME Answered PROVE Own'
        OBVIOUS
      <3>1. OwnProcess'
        BY <2>0, <2>b, <2>1, <2>2, OwnTouched DEF FleetInv, Own
      <3> QED
        BY <2>2, <3>1 DEF Own
    <2>10. Decisive => (PendingLeft \/ Underway)'
      <3>1. CASE PendingLeft
        <4>1. PendingLeft'
          BY <2>b, <2>1, <3>1, PendingStays
        <4> QED
          BY <4>1
      <3>2. CASE Underway
        BY <2>1, <3>2 DEF Underway, Busy, InDeploymentAt, Transient
      <3> QED
        BY <3>1, <3>2 DEF FleetInv
    <2>11. Calm => RoutesFit'
      <3> SUFFICES ASSUME Calm PROVE RoutesFit'
        OBVIOUS
      <3>1. op'.pc \notin AwaitsSync
        BY DEF AwaitsSync
      <3>2. RoutesFit /\ ~RouteFits(rows[i].port, i)
        BY <2>a DEF FleetInv, RouteFits
      <3>3. rows[i].port \notin routed
        BY <2>0, <2>b, <2>1, <3>2, NotRouted
      <3>4. \A p \in routed, j \in Rows : RouteFits(p, j) =>
              p \in Ports /\ p # rows[i].port /\ j # i /\ \A k \in DOMAIN op.todo : op.todo[k] # j
        BY <2>0, <3>2, <3>3 DEF RouteFits, Types
      <3>5. \A p \in routed, j \in Rows : RouteFits(p, j) => \A k \in DOMAIN t : t[k] # j
        BY <2>6, <3>4
      <3> QED
        BY <2>0, <2>1, <2>2, <3>1, <3>2, <3>4, <3>5, RoutesKept DEF gateway
    <2> QED
      BY <2>1, <2>3, <2>4, <2>7, <2>8, <2>9, <2>10, <2>11 DEF FleetInv
  <1>AbortStoppedStep.
    ASSUME FleetInv, NEW reply \in Replies("stop"), AbortStopped(reply)
    PROVE  FleetInv'
    <2> USE <1>AbortStoppedStep
    <2> DEFINE i == Head(op.todo)
    <2>0. /\ Types /\ ReleasesFit /\ op \in Op /\ op.pc = "abort_stop" /\ op.todo # <<>>
          /\ Listed(op.todo, "running") /\ op.todo \in Seq(Nat) /\ rows \in Seq(Row)
          /\ AgentReplies("stop", i, reply)
          /\ UNCHANGED <<rels, active, desired, routed, inflight, polled>>
      BY DEF FleetInv, Types, ListsFit, Op, AbortStopped, db, gateway
    <2>1. i = op.todo[1] /\ 1 \in DOMAIN op.todo /\ Tail(op.todo) \in Seq(Nat)
      BY <2>0
    <2>2. i \in Rows /\ rows[i].status = "running"
      BY <2>0, <2>1 DEF Listed
    <2>3. May(i, "stopped") /\ ~May(i, "failed")
      BY <2>2, Edges DEF May, InstanceStatus
    <2>4. /\ proc' \in [Ports -> Nat] /\ late' \subseteq {"start", "stop"} \X Nat
          /\ Answered => late' = {}
          /\ \A p \in Ports : p # rows[i].port => proc'[p] = proc[p]
      BY <2>0, <2>2, AgentStep
    <2>5. \A j : ~Busy(j)
      BY <2>0 DEF Busy
    <2>6. CASE reply = "ok"
      <3>1. rows' = Set(i, "stopped")
            /\ IF Len(op.todo) = 1 THEN End("failed")
               ELSE op' = [op EXCEPT !.todo = Tail(@)] /\ dep' = dep
        BY <2>3, <2>6 DEF AbortStopped
      <3>2. CASE Len(op.todo) = 1
        <4>1. op' = Idle /\ dep' = "failed" /\ Moves(i, "stopped")
          BY <2>0, <2>2, <3>1, <3>2, SetMoves DEF End, InstanceStatus
        <4>2. ReleasesFit'
          BY <2>0, <4>1, IdleFields, ReleasesKept
        <4>3. ~RouteFits(rows[i].port, i)
          BY <2>0, <2>1 DEF RouteFits
        <4>4. "stopped" \in Dead /\ rows[i].status \notin Dead /\ rows[i].status # "pending"
          BY <2>2 DEF Dead
        <4> HIDE DEF i
        <4> QED
          BY ZenonT(30), <2>0, <2>2, <2>4, <2>5, <4>1, <4>2, <4>3, <4>4, RowGivenUp
          DEF Types, gateway, DeploymentStatus
      <3>3. CASE Len(op.todo) # 1
        <4>1. PICK t \in Seq(Nat) : t = Tail(op.todo)
          BY ZenonT(30), <2>1
        <4>2. op' = [op EXCEPT !.todo = t] /\ dep' = dep
          BY <2>0, <3>1, <3>3, <4>1
        <4>3. /\ op' \in Op /\ op'.pc = "abort_stop" /\ op'.todo = t /\ op'.rel = op.rel
              /\ op'.before = op.before /\ op'.was = op.was
          BY ZenonT(30), <2>0, <4>2 DEF Op
        <4> QED
          BY ZenonT(30), <2>0, <3>1, <3>3, <4>1, <4>2, <4>3, <1>AbortGoesOn DEF gateway
      <3> QED
        BY <3>2, <3>3
    <2>7. CASE reply # "ok"
      <3>1. op' = Idle /\ UNCHANGED <<rows, dep>>
        BY <2>3, <2>7 DEF AbortStopped
      <3>2. ~Answered /\ ~Calm /\ ~Decisive
        BY <2>7, AgentAnswers DEF Answered, Calm, Decisive
      <3>3. ReleasesFit'
        BY <2>0, <3>1, IdleFields, ReleasesKept
      <3> QED
        BY <2>0, <2>4, <3>1, <3>2, <3>3, RowsLeft DEF Types, gateway
    <2> QED
      BY <2>6, <2>7
  <1>SwitchSyncedStep.
    ASSUME FleetInv, NEW reply \in SyncReplies, SwitchSynced(reply)
    PROVE  FleetInv'
    <2> USE <1>SwitchSyncedStep
    <2>0. /\ Types /\ PortsApart /\ RowFits /\ ListsFit /\ ReleasesFit /\ op \in Op
          /\ op.pc = "switch_sync" /\ op.pc \in AwaitsSync /\ rows \in Seq(Row)
          /\ GatewayReplies(reply) /\ UNCHANGED <<rows, rels, desired, proc, late, polled>>
          /\ Ready(op.before)
      BY DEF FleetInv, Types, ReleasesFit, SwitchSynced, AwaitsSync, agent
    <2>1. Rows' = Rows /\ RowsStay /\ PortsApart' /\ Live' = Live
          /\ (polled' # 0 => polled' \in Rows' /\ rows'[polled'].status # "pending")
      BY <2>0 DEF Rows, RowsStay, PortsApart, Live, RowFits
    <2>2. routed' \subseteq Ports /\ inflight' \subseteq SUBSET Ports
      BY <2>0, GatewayTypes
    <2>3. Orderly => inflight' = {} /\ (reply # "ok" => UNCHANGED gateway)
      BY <2>0 DEF GatewayReplies, SyncReplies, Orderly, gateway, FleetInv, Unmoved
    <2>4. Answered => late' = {} /\ OwnProcess'
      BY <2>0, <2>1 DEF FleetInv, Own, OwnProcess
    <2>5. (\A j : ~Busy(j)) /\ (op'.pc # "deploy_build" => (PendingLeft => PendingLeft'))
      BY <2>0, <2>1, PendingStays DEF Busy
    <2>6. CASE reply = "ok"
      <3>1. op' = [op EXCEPT !.pc = "drain"] /\ UNCHANGED <<active, dep>>
        BY <2>6 DEF SwitchSynced
      <3>2. op' \in Op /\ op'.pc = "drain" /\ op'.rel = op.rel /\ op'.before = op.before
        BY <2>0, <3>1 DEF Op, Pcs, AwaitsElse
      <3>3. Types'
        BY <2>0, <2>2, <3>1, <3>2 DEF Types
      <3>4. RowFits' /\ ListsFit' /\ CountFits' /\ ReleasesFit'
        BY <2>0, <2>1, <3>1, <3>2 DEF RowFits, ListsFit, CountFits, ReleasesFit, Ready
      <3>5. (Orderly => Unmoved') /\ (Answered => Own')
        BY <2>3, <2>4, <3>2 DEF Unmoved, Own
      <3>6. Decisive => (PendingLeft \/ Underway)'
        BY <2>0, <2>1, <2>5, <3>1, <3>2 DEF FleetInv, Underway, InDeploymentAt
      <3>7. Calm => RoutesFit'
        BY <2>0, <3>1, <3>2, RoutesSynced DEF FleetInv, AwaitsSync
      <3> QED
        BY <2>1, <3>3, <3>4, <3>5, <3>6, <3>7 DEF FleetInv
    <2>7. CASE reply # "ok"
      <3>0. active' = op.before /\ Abort /\ ~Calm
        BY <2>7 DEF SwitchSynced, SyncReplies, Calm
      <3>1. CASE op.new = <<>>
        <4>1. op' = Idle /\ dep' = "failed"
          BY <3>0, <3>1 DEF Abort, End
        <4>2. op' \in Op /\ op'.pc = "idle" /\ RowFits' /\ ListsFit' /\ CountFits'
          BY <2>0, <2>1, <4>1, IdleFits, IdleFields
        <4>3. Types'
          BY <2>0, <2>2, <3>0, <4>1, <4>2 DEF Types, Ready, DeploymentStatus
        <4>4. ReleasesFit'
          BY <2>0, <3>0, <4>2 DEF ReleasesFit, Ready
        <4>5. (Orderly => Unmoved') /\ (Answered => Own')
          BY ZenonT(30), <2>3, <2>4, <4>2 DEF Unmoved, Own
        <4>6. Decisive => (PendingLeft \/ Underway)'
          BY ZenonT(30), <2>0, <2>1, <2>5, <4>1, <4>2 DEF FleetInv, Underway
        <4> QED
          BY <2>1, <3>0, <4>2, <4>3, <4>4, <4>5, <4>6 DEF FleetInv
      <3>2. CASE op.new # <<>>
        <4>1. op' = [op EXCEPT !.pc = "abort_stop", !.todo = op.new] /\ dep' = dep
          BY <3>0, <3>2 DEF Abort
        <4>2. proc \in [Ports -> Nat] /\ late \subseteq {"start", "stop"} \X Nat
          BY <2>0 DEF Types
        <4> QED
          BY <2>0, <2>1, <2>2, <2>3, <2>4, <2>7, <3>0, <3>2, <4>1, <4>2, <1>Aborts
      <3> QED
        BY <3>1, <3>2
    <2> QED
      BY <2>6, <2>7
  \* NewestFirst lists all of a set of rows.
  <1>AllListed.
    ASSUME Types, NEW d \in SUBSET Rows, NEW list, list = NewestFirst(d, Cardinality(d))
    PROVE  /\ list \in Seq(Nat)
           /\ d # {} => list # <<>>
           /\ \A k \in DOMAIN list : list[k] \in d
           /\ \A k, l \in DOMAIN list : list[k] = list[l] => k = l
           /\ \A i \in d : \E k \in DOMAIN list : i = list[k]
    <2> USE <1>AllListed
    <2> DEFINE n == Cardinality(d)
    <2>1. Sized(d) /\ Divided(d) /\ NewestListed(d) /\ n \in Nat /\ d \in SUBSET Nat
      <3>1. Len(rows) \in Nat /\ d \in SUBSET (1..Len(rows))
        BY DEF Types, Rows
      <3>2. Sized(d) /\ Divided(d) /\ NewestListed(d)
        BY ZenonT(30), <3>1 DEF Counting
      <3>3. n \in Nat
        BY <3>2 DEF Sized
      <3> QED
        BY <3>1, <3>2, <3>3
    <2>2. n \in 0..Cardinality(d)
      BY <2>1
    <2>a. ListsOf(list, d, n)
      BY <2>1, <2>2 DEF NewestListed
    <2>3. list \in [1..n -> d] /\ \A k, l \in 1..n : list[k] = list[l] => k = l
      BY <2>a DEF ListsOf
    <2>4. list \in Seq(Nat) /\ Len(list) = n /\ DOMAIN list = 1..n
      <3>1. list \in [1..n -> Nat]
        BY ZenonT(30), <2>1, <2>3
      <3> QED
        BY <2>1, <3>1
    <2>5. d # {} => list # <<>>
      <3>1. d # {} => n # 0
        BY <2>1 DEF Sized
      <3> QED
        BY <2>4, <3>1, <1>NotEmpty
    <2>6. \A i \in d : \E k \in 1..n : i = list[k]
      <3> DEFINE all == {list[k] : k \in 1..n}
      <3>1. all \in SUBSET d
        BY <2>3
      <3>2. Cardinality(all) = Cardinality(d)
        BY ZenonT(30), <2>a DEF ListsOf
      <3>3. all = d
        BY ZenonT(30), <2>1, <3>1, <3>2 DEF Divided
      <3> QED
        BY <3>3
    <2> QED
      BY <2>3, <2>4, <2>5, <2>6
  <1>DrainOldReleaseStep.
    ASSUME FleetInv, DrainOldRelease
    PROVE  FleetInv'
    <2> USE <1>DrainOldReleaseStep
    <2>0. /\ Types /\ PortsApart /\ RowFits /\ ReleasesFit /\ op \in Op /\ op.pc = "drain"
          /\ active = op.rel /\ op.before # op.rel /\ active # 0
          /\ UNCHANGED <<rels, active, desired, dep, proc, late, routed, inflight, polled>>
      BY DEF FleetInv, Types, ReleasesFit, Ready, DrainOldRelease, db, agent, gateway
    <2>1. PICK d : d = {i \in Rows : rows[i].rel = op.before /\ rows[i].status = "running"}
      BY ZenonT(30)
    <2>2. PICK list : list = NewestFirst(d, Cardinality(d))
      OBVIOUS
    <2>3. PICK to \in {"prune", "drain_stop"} : to = (IF d = {} THEN "prune" ELSE "drain_stop")
      OBVIOUS
    <2>4. rows' = Draining(d) /\ op' = [op EXCEPT !.pc = to, !.todo = list]
      BY <2>1, <2>2, <2>3 DEF DrainOldRelease, Draining
    <2>5. d \in SUBSET Rows /\ (\A i \in d : rows[i].status \notin Dead /\ rows[i].status = "running")
          /\ \A i \in d : rows[i].rel # active
      BY <2>0, <2>1 DEF Dead
    <2>6. /\ list \in Seq(Nat) /\ (d # {} => list # <<>>)
          /\ \A k \in DOMAIN list : list[k] \in d
          /\ \A k, l \in DOMAIN list : list[k] = list[l] => k = l
          /\ \A i \in d : \E k \in DOMAIN list : i = list[k]
      BY <2>0, <2>2, <2>5, <1>AllListed
    <2>7. op' \in Op /\ op'.pc = to /\ op'.todo = list
      BY ZenonT(30), <2>0, <2>4, <2>6 DEF Op, Pcs, AwaitsElse, AwaitsStop
    <2>8. /\ rows \in Seq(Row) /\ rows' \in Seq(Row) /\ Len(rows') = Len(rows) /\ Rows' = Rows
          /\ RowsStay /\ PortsApart'
          /\ \A i \in Rows : /\ rows'[i].port = rows[i].port /\ rows'[i].rel = rows[i].rel
                             /\ i \in d => rows'[i].status = "draining"
                             /\ i \notin d => rows'[i] = rows[i]
      BY <2>0, <2>4, <2>5, RowsDraining
    <2>9. Types'
      BY <2>0, <2>7, <2>8 DEF Types
    <2>10. RowFits' /\ ReleasesFit' /\ CountFits'
      <3>1. polled' # 0 => polled' \in Rows' /\ rows'[polled'].status # "pending"
        BY <2>0, <2>8, PolledKept
      <3> QED
        BY <2>0, <2>7, <3>1, ReleasesKept DEF RowFits, CountFits
    <2>11. ListsFit'
      <3>1. op'.pc = "drain_stop" => list # <<>>
        BY <2>3, <2>6, <2>7
      <3>2. Listed(list, "draining")'
        BY <2>5, <2>6, <2>8 DEF Listed
      <3> QED
        BY <2>7, <3>1, <3>2 DEF ListsFit, Listed
    <2>12. Orderly => Unmoved'
      BY <2>0, <2>7, UnmovedKept DEF FleetInv, gateway
    <2>13. Answered => Own'
      <3> SUFFICES ASSUME Answered PROVE Own'
        OBVIOUS
      <3>1. OwnProcess'
        BY <2>0, <2>8, OwnKept DEF FleetInv, Own
      <3> QED
        BY <2>0, <2>7, <3>1 DEF FleetInv, Own
    <2>14. Decisive => (PendingLeft \/ Underway)'
      <3>1. CASE PendingLeft
        <4>1. PendingLeft'
          BY <2>0, <2>5, <2>7, <2>8, <3>1, PendingStays
        <4> QED
          BY <4>1
      <3>2. CASE Underway
        <4>1. ASSUME NEW j \in Rows, rows'[j].status \in Transient PROVE Busy(j)'
          <5>1. j \in d
            BY <2>0, <2>8, <3>2, <4>1 DEF Underway, Busy
          <5> QED
            BY <2>3, <2>6, <2>7, <5>1 DEF Busy
        <4> QED
          BY <2>0, <2>7, <2>8, <3>2, <4>1 DEF Underway, InDeploymentAt
      <3> QED
        BY <3>1, <3>2 DEF FleetInv
    <2>15. Calm => RoutesFit'
      <3> SUFFICES ASSUME Calm PROVE RoutesFit'
        OBVIOUS
      <3>1. op'.pc \notin AwaitsSync
        BY <2>7 DEF AwaitsSync
      <3>2. \A p, j : RouteFits(p, j) => j \notin d
        BY <2>0, <2>5 DEF RouteFits, Serves
      <3> QED
        BY <2>0, <2>7, <2>8, <3>1, <3>2, RoutesKept DEF FleetInv
    <2> QED
      BY <2>8, <2>9, <2>10, <2>11, <2>12, <2>13, <2>14, <2>15 DEF FleetInv
  <1>DrainStoppedStep.
    ASSUME FleetInv, NEW reply \in Replies("stop"), DrainStopped(reply)
    PROVE  FleetInv'
    <2> USE <1>DrainStoppedStep
    <2>0. op \in Op /\ op.pc = "drain_stop" /\ op.todo # <<>> /\ op.todo \in Seq(Nat)
      BY DEF FleetInv, Types, ListsFit, Op, DrainStopped
    <2>a. PICK t \in Seq(Nat) : t = Tail(op.todo)
      <3>1. Tail(op.todo) \in Seq(Nat)
        BY <2>0
      <3> QED
        BY ZenonT(30), <3>1
    <2>b. PICK to \in {"prune", "drain_stop"} :
            to = (IF Len(op.todo) = 1 THEN "prune" ELSE "drain_stop")
      OBVIOUS
    <2>1. t = Tail(op.todo) /\ to = (IF Len(op.todo) = 1 THEN "prune" ELSE "drain_stop")
      BY <2>a, <2>b
    <2>2. op' = [op EXCEPT !.pc = to, !.todo = t]
      BY <2>0, <2>1 DEF DrainStopped
    <2>3. op' \in Op /\ op'.pc = to /\ op'.todo = t /\ op'.ok = op.ok
      BY ZenonT(30), <2>0, <2>1, <2>2 DEF Op, Pcs, AwaitsElse, AwaitsStop
    <2>4. PICK s \in Dead : rows' = Set(Head(op.todo), s)
      BY DEF DrainStopped, Dead
    <2>5. op'.pc = IF Len(op.todo) # 1 THEN op.pc
                   ELSE IF op.pc = "down_stop" THEN "scale_done" ELSE "prune"
      BY <2>0, <2>1, <2>3
    <2> QED
      BY <2>0, <2>1, <2>3, <2>4, <2>5, Drained DEF DrainStopped, db
  <1>PruneReleaseStep.
    ASSUME FleetInv, NEW r, PruneRelease(r)
    PROVE  FleetInv'
    <2> USE <1>PruneReleaseStep
    <2>0. /\ Types /\ ReleasesFit /\ RowFits /\ PortsApart
          /\ rels \in Seq(ReleaseStatus) /\ rows \in Seq(Row)
          /\ op.pc = "prune" /\ r \in DOMAIN rels /\ r # active
          /\ UNCHANGED <<active, desired, dep, op, proc, late, routed, inflight, polled>>
      BY DEF FleetInv, Types, PruneRelease, Prunable, agent, gateway
    <2>1. rows' = RowsWithout({r}) /\ rels' = [rels EXCEPT ![r] = "pruned"]
      BY ZenonT(30) DEF PruneRelease, RowsWithout
    <2>2. /\ rows' \in Seq(Row) /\ Len(rows') = Len(rows)
          /\ \A i \in Rows : /\ rows'[i].status = rows[i].status /\ rows'[i].port = rows[i].port
                             /\ active \in {0, rows[i].rel} => active \in {0, rows'[i].rel}
      <3>1. /\ rows' \in Seq(Row) /\ Len(rows') = Len(rows)
            /\ \A i \in Rows : /\ rows'[i].status = rows[i].status /\ rows'[i].port = rows[i].port
                               /\ rows[i].rel \notin {r} => rows'[i] = rows[i]
        BY ZenonT(30), <2>0, <2>1, RowsPruned
      <3> QED
        BY <2>0, <3>1
    <2>3. /\ Rows' = Rows /\ RowsStay
          /\ \A i \in Rows : active \in {0, rows[i].rel} => active' \in {0, rows'[i].rel}
      BY <2>0, <2>2 DEF Rows, RowsStay
    <2>4. rels' \in Seq(ReleaseStatus) /\ Len(rels') = Len(rels) /\ ReleasesFit'
      <3>1. "pruned" \in ReleaseStatus
        BY DEF ReleaseStatus
      <3>2. rels' \in Seq(ReleaseStatus) /\ Len(rels') = Len(rels) /\ DOMAIN rels' = DOMAIN rels
        BY <2>0, <2>1, <3>1
      <3>3. active # 0 => Ready(active)'
        BY <2>0, <2>1, <3>2 DEF ReleasesFit, Ready
      <3> QED
        BY <2>0, <3>2, <3>3
           DEF ReleasesFit, BuildingAt, BuiltAt, SwitchingAt
    <2>5. Types' /\ PortsApart'
      BY <2>0, <2>2, <2>4, PortsKept DEF Types
    <2>6. RowFits'
      <3>1. polled' # 0 => polled' \in Rows' /\ rows'[polled'].status # "pending"
        BY <2>0, <2>2, <2>3, PolledKept
      <3> QED
        BY <2>0, <3>1 DEF RowFits, StartingAt, RestartingAt, StoppingAt, HealingAt
    <2>7. ListsFit' /\ CountFits'
      BY <2>0 DEF ListsFit, CountFits, DrainingAt, GatingAt, ScalingAt
    <2>8. Orderly => Unmoved'
      BY <2>0, UnmovedKept DEF FleetInv, gateway
    <2>9. Answered => Own'
      BY <2>0, <2>2, <2>3 DEF FleetInv, Own, OwnProcess, StartedAt
    <2>10. Decisive => (PendingLeft \/ Underway)'
      <3>1. CASE PendingLeft
        BY <2>0, <2>2, <3>1, PendingStays
      <3>2. CASE Underway
        BY <2>0, <2>2, <2>3, <3>2 DEF Underway, Busy
      <3> QED
        BY <3>1, <3>2 DEF FleetInv
    <2>11. Calm => RoutesFit'
      <3> SUFFICES ASSUME Calm PROVE RoutesFit'
        OBVIOUS
      <3>1. op'.pc \notin AwaitsSync
        BY <2>0 DEF AwaitsSync
      <3>2. ASSUME NEW p \in routed' PROVE RouteFits(p, proc[p])'
        <4>1. PICK i : i = proc[p]
          OBVIOUS
        <4>2. RouteFits(p, i) /\ i \in Rows /\ proc'[p] = i
          BY <2>0, <3>2, <4>1 DEF FleetInv, RoutesFit, RouteFits
        <4>3. RouteFits(p, i)'
          BY <2>0, <2>2, <2>3, <4>2 DEF RouteFits, Serves, BehindAt, CurrentAt, GatingAt
        <4> QED
          BY <4>2, <4>3
      <3> QED
        BY <3>1, <3>2 DEF RoutesFit
    <2> QED
      BY <2>4, <2>5, <2>6, <2>7, <2>8, <2>9, <2>10, <2>11 DEF FleetInv
  <1>PruneEndsStep.
    ASSUME FleetInv, PruneEnds
    PROVE  FleetInv'
    <2> USE <1>PruneEndsStep
    <2>0. /\ Types /\ ReleasesFit /\ rels \in Seq(ReleaseStatus) /\ rows \in Seq(Row)
          /\ op.pc = "prune" /\ op' = Idle /\ dep' = "succeeded" /\ op'.pc = "idle"
          /\ UNCHANGED <<rows, rels, active, desired, proc, late, routed, inflight, polled>>
      BY IdleFields DEF FleetInv, Types, PruneEnds, End, db, agent, gateway
    <2>1. ReleasesFit'
      BY <2>0 DEF ReleasesFit, Ready, BuildingAt, BuiltAt, SwitchingAt
    <2>2. Answered => late' = {} /\ OwnProcess'
      BY <2>0 DEF FleetInv, Own, OwnProcess, Rows
    <2>3. \A j : ~Busy(j)
      BY <2>0 DEF Busy
    <2>4. op.pc \notin BehindAt \cup {"deploy_build"}
      BY <2>0 DEF BehindAt
    <2> QED
      BY ZenonT(30), <2>0, <2>1, <2>2, <2>3, <2>4, RowsLeft DEF Types, gateway, DeploymentStatus
  <1>1. \A healthy \in Verdicts : healthy \in BOOLEAN
    BY ZenonT(30) DEF Verdicts
  <1> QED
    BY <1>1, <1>ReleaseBuiltStep, <1>GateNextStep, <1>GateStartedStep, <1>GateCheckedStep,
       <1>AbortStoppedStep, <1>DrainStoppedStep, <1>SwitchSyncedStep, <1>DrainOldReleaseStep,
       <1>PruneReleaseStep, <1>PruneEndsStep DEF ReleaseStep
-----------------------------------------------------------------------------
(* What these steps do to the rows and to their processes *)

\* The steps of healing.
LEMMA HealFollows ==
  ASSUME Counting, FleetInv, HealStep
  PROVE  RowsFollow
  <1>0. Types /\ RowFits
    BY DEF FleetInv
  <1>GiveUp. ASSUME op.row \in Rows, GiveUp(op.row) PROVE RowsFollow
    <2>1. CASE rows' = rows
      BY <1>GiveUp, <2>1, StillFollows DEF GiveUp
    <2>2. CASE May(op.row, "failed") /\ rows' = Set(op.row, "failed")
      <3>1. Moves(op.row, "failed") /\ "failed" \in InstanceStatus
        BY <1>0, <1>GiveUp, <2>2, SetMoves DEF InstanceStatus
      <3>2. rows[op.row].status \notin Dead
        BY <1>0, <1>GiveUp, <2>2, RowTypes, Edges DEF May, Dead
      <3> QED
        BY <1>GiveUp, <2>2, <3>1, <3>2, MoveFollows DEF GiveUp
    <2> QED
      BY <1>GiveUp, <2>1, <2>2 DEF GiveUp
  <1>1. ASSUME NEW reply \in SyncReplies, HealSynced(reply) \/ HealedSynced(reply) PROVE RowsFollow
    BY <1>1, StillFollows DEF HealSynced, HealedSynced
  <1>2. CASE HealDecides
    <2>1. op.row \in Rows /\ rows[op.row].status # "pending" /\ rows[op.row].status \in InstanceStatus
      BY <1>0, <1>2, RowTypes DEF HealDecides, RowFits
    <2>2. CASE GiveUp(op.row)
      BY <1>GiveUp, <2>1, <2>2
    <2>3. CASE CoolingDown
      BY <2>3, StillFollows DEF CoolingDown
    <2>4. ASSUME NEW s, rows[op.row].attempts < MaxRestarts, rows' = Counted(op.row, s),
                 \/ s = rows[op.row].status
                 \/ s \in {"failed", "restarting"} /\ May(op.row, s),
                 UNCHANGED agent
          PROVE  RowsFollow
      <3>1. s \in InstanceStatus
        BY <2>1, <2>4 DEF InstanceStatus
      <3>2. Moves(op.row, s)
        BY <1>0, <2>1, <2>4, <3>1, CountMoves
      <3>3. s = rows[op.row].status \/ (s # "stopped" /\ rows[op.row].status \notin Dead /\ May(op.row, s))
        BY <2>1, <2>4, Edges DEF May, Dead
      <3> QED
        BY <2>1, <2>4, <3>1, <3>2, <3>3, MoveFollows
    <2> QED
      BY ZenonT(30), <1>2, <2>2, <2>3, <2>4 DEF HealDecides, Counted
  <1>3. ASSUME NEW reply \in Replies("start"), HealStarted(reply) \/ ReplaceStarted(reply)
        PROVE  RowsFollow
    <2>1. op.row \in Rows /\ rows[op.row].status \in {"starting", "restarting"}
      BY <1>0, <1>3 DEF HealStarted, ReplaceStarted, RowFits
    <2> QED
      BY <1>3, <2>1, StartFollows DEF HealStarted, ReplaceStarted
  <1>4. ASSUME NEW healthy \in Verdicts, HealChecked(healthy) \/ ReplaceChecked(healthy)
        PROVE  RowsFollow
    <2>1. op.row \in Rows /\ rows[op.row].status \in {"starting", "restarting"}
      BY <1>0, <1>4 DEF HealChecked, ReplaceChecked, RowFits
    <2>2. CASE Raise
      BY <2>2, StillFollows DEF Raise
    <2>3. ASSUME NEW s \in {"running", "unhealthy", "failed"}, May(op.row, s),
                 rows' = Set(op.row, s), UNCHANGED agent
          PROVE  RowsFollow
      <3>1. Moves(op.row, s) /\ s \in InstanceStatus
        BY <1>0, <2>1, <2>3, SetMoves DEF InstanceStatus
      <3> QED
        BY <2>1, <2>3, <3>1, MoveFollows DEF Dead
    <2>4. May(op.row, "running") /\ May(op.row, "failed")
      BY <2>1, Edges DEF May, InstanceStatus
    <2> QED
      BY <1>4, <2>2, <2>3, <2>4 DEF HealChecked, ReplaceChecked
  <1>5. CASE Replace
    <2>1. op.row \in Rows /\ rows[op.row].rel \in 0..MaxReleases
                          /\ rows[op.row].attempts \in 0..MaxRestarts
      BY <1>0, <1>5, RowTypes DEF Replace, RowFits
    <2>2. CASE GiveUp(op.row)
      BY <1>GiveUp, <2>1, <2>2
    <2>3. CASE ~GiveUp(op.row)
      BY <1>5, <2>1, <2>3, AddFollows DEF Replace
    <2> QED
      BY <2>2, <2>3
  <1> QED
    BY <1>1, <1>2, <1>3, <1>4, <1>5 DEF HealStep

\* The steps of scaling.
LEMMA ScaleFollows ==
  ASSUME Counting, FleetInv, ScaleStep
  PROVE  RowsFollow
  <1>0. Types /\ RowFits /\ ListsFit /\ op.rel \in 0..MaxReleases
    BY DEF FleetInv, Types, Op
  <1>1. CASE ScaleUpNext
    <2>1. CASE rows' = rows
      BY <1>1, <2>1, StillFollows DEF ScaleUpNext
    <2>2. CASE FreePorts # {} /\ rows' = Allocated(op.rel, "starting", 0)
      <3>1. 0 \in 0..MaxRestarts /\ "starting" # "pending"
        BY FleetConstants
      <3> QED
        BY <1>0, <1>1, <2>2, <3>1, AddFollows DEF ScaleUpNext
    <2> QED
      BY <1>1, <2>1, <2>2 DEF ScaleUpNext
  <1>2. ASSUME NEW reply \in Replies("start"), ScaleUpStarted(reply) PROVE RowsFollow
    <2>1. op.row \in Rows /\ rows[op.row].status = "starting"
      BY <1>0, <1>2 DEF ScaleUpStarted, RowFits
    <2> QED
      BY <1>2, <2>1, StartFollows DEF ScaleUpStarted
  <1>3. ASSUME NEW healthy \in Verdicts, ScaleUpChecked(healthy) PROVE RowsFollow
    <2>1. op.row \in Rows /\ rows[op.row].status = "starting"
      BY <1>0, <1>3 DEF ScaleUpChecked, RowFits
    <2>2. CASE Raise
      BY <2>2, StillFollows DEF Raise
    <2>3. ASSUME NEW s \in {"running", "unhealthy"}, May(op.row, s), rows' = Set(op.row, s),
                 UNCHANGED agent
          PROVE  RowsFollow
      <3>1. Moves(op.row, s) /\ s \in InstanceStatus
        BY <1>0, <2>1, <2>3, SetMoves DEF InstanceStatus
      <3> QED
        BY <2>1, <2>3, <3>1, MoveFollows DEF Dead
    <2> QED
      BY <1>3, <2>2, <2>3 DEF ScaleUpChecked
  <1>4. ASSUME NEW reply \in SyncReplies, ScaleDownSynced(reply) \/ ScaleSynced(reply)
        PROVE  RowsFollow
    BY <1>4, StillFollows DEF ScaleDownSynced, ScaleSynced
  <1>5. ASSUME NEW reply \in Replies("stop"), ScaleDownStopped(reply) PROVE RowsFollow
    BY <1>0, <1>5, DrainedFollows DEF ScaleDownStopped, ListsFit
  <1>6. CASE ScaleDone
    BY <1>6, StillFollows DEF ScaleDone
  <1> QED
    BY <1>1, <1>2, <1>3, <1>4, <1>5, <1>6 DEF ScaleStep

\* The steps of a new release and of a rollback.
LEMMA ReleaseFollows ==
  ASSUME Counting, FleetInv, ReleaseStep
  PROVE  RowsFollow
  <1>0. Types /\ RowFits /\ ListsFit /\ op.rel \in 0..MaxReleases
    BY DEF FleetInv, Types, Op
  <1>1. ASSUME NEW reply \in Replies("build"), ReleaseBuilt(reply) PROVE RowsFollow
    BY <1>1, StillFollows DEF ReleaseBuilt
  <1>2. CASE GateNext
    <2>1. CASE rows' = rows
      BY <1>2, <2>1, StillFollows DEF GateNext
    <2>2. CASE FreePorts # {} /\ rows' = Allocated(op.rel, "starting", 0)
      <3>1. 0 \in 0..MaxRestarts /\ "starting" # "pending"
        BY FleetConstants
      <3> QED
        BY <1>0, <1>2, <2>2, <3>1, AddFollows DEF GateNext
    <2> QED
      BY <1>2, <2>1, <2>2 DEF GateNext
  <1>3. ASSUME NEW reply \in Replies("start"), GateStarted(reply) PROVE RowsFollow
    <2>1. op.row \in Rows /\ rows[op.row].status = "starting"
      BY <1>0, <1>3 DEF GateStarted, RowFits
    <2> QED
      BY <1>3, <2>1, StartFollows DEF GateStarted
  <1>4. ASSUME NEW healthy \in Verdicts, GateChecked(healthy) PROVE RowsFollow
    <2>1. op.row \in Rows /\ rows[op.row].status = "starting"
      BY <1>0, <1>4 DEF GateChecked, RowFits
    <2>2. PICK s \in {"running", "failed"} : rows' = Set(op.row, s)
      BY <1>4 DEF GateChecked
    <2>3. Moves(op.row, s) /\ s \in InstanceStatus
      BY <1>0, <2>1, <2>2, SetMoves DEF InstanceStatus
    <2>4. May(op.row, s)
      BY <2>1, <2>2 DEF May, CanTransition, InstanceTransitions
    <2> QED
      BY <1>4, <2>1, <2>3, <2>4, MoveFollows DEF GateChecked, Dead
  <1>5. ASSUME NEW reply \in Replies("stop"), AbortStopped(reply) PROVE RowsFollow
    <2>1. PICK i : i = Head(op.todo)
      OBVIOUS
    <2>2. i \in Rows /\ rows[i].status = "running"
      BY <1>0, <1>5, <2>1, HeadListed DEF AbortStopped, ListsFit
    <2>3. PICK s \in {"stopped", "failed"} :
            /\ AgentReplies("stop", i, reply)
            /\ rows' = rows \/ (rows' = Set(i, s) /\ May(i, s))
            /\ reply = "late" => s # "stopped"
      BY <1>5, <2>1 DEF AbortStopped
    <2> QED
      BY <2>2, <2>3, StopFollows
  <1>6. ASSUME NEW reply \in Replies("stop"), DrainStopped(reply) PROVE RowsFollow
    BY <1>0, <1>6, DrainedFollows DEF DrainStopped, ListsFit
  <1>7. ASSUME NEW reply \in SyncReplies, SwitchSynced(reply) PROVE RowsFollow
    BY <1>7, StillFollows DEF SwitchSynced
  <1>8. CASE DrainOldRelease
    <2>1. PICK old : /\ old = {i \in Rows : rows[i].rel = op.before /\ rows[i].status = "running"}
                     /\ rows' = Draining(old) /\ UNCHANGED agent
      BY ZenonT(30), <1>8 DEF DrainOldRelease, Draining
    <2>2. old \in SUBSET Rows /\ \A i \in old : rows[i].status \in {"running", "unhealthy"}
      BY <2>1
    <2> QED
      BY <2>1, <2>2, DrainFollows
  <1>9. ASSUME NEW r, PruneRelease(r) PROVE RowsFollow
    <2>1. rows' = RowsWithout({r}) /\ UNCHANGED agent
      BY ZenonT(30), <1>9 DEF PruneRelease, RowsWithout
    <2>2. Len(rows') = Len(rows)
      BY ZenonT(30), <1>0, <2>1, RowsPruned
    <2>3. \A i \in Rows : rows'[i].status = rows[i].status /\ rows'[i].port = rows[i].port
      BY ZenonT(30), <1>0, <2>1, RowsPruned
    <2>4. Rows' = Rows
      BY <2>2 DEF Rows
    <2> QED
      BY <2>1, <2>3, <2>4 DEF RowsFollow, RowFollows, ProcessesFollow, agent
  <1>10. CASE PruneEnds
    BY <1>10, StillFollows DEF PruneEnds
  <1> QED
    BY <1>1, <1>2, <1>3, <1>4, <1>5, <1>6, <1>7, <1>8, <1>9, <1>10 DEF ReleaseStep
-----------------------------------------------------------------------------
(* How a switch is aborted *)

\* Where an abort comes from.
LEMMA AbortBegins ==
  ASSUME FleetInv, [Next]_vars, op.pc # "abort_stop", op'.pc = "abort_stop"
  PROVE  op'.new = op.new /\ op'.todo = op.new
  <1>0. op \in Op /\ Idle \in Op
    BY IdleFields DEF FleetInv, Types
  <1>1. CASE Request
    BY ZenonT(30), <1>0, <1>1 DEF Request, Refuse, StartDeployment, StartScale, StartNewRelease,
       StartRollback, RestartInstance, StopInstance, Switch, Op, vars
  <1>2. CASE Monitor \/ Late \/ CrashAndReconcile \/ UNCHANGED vars
    BY ZenonT(30), <1>0, <1>2, IdleFields DEF Monitor, Poll, PollEnds, Heal, Late, LateCommand, LateReload,
       ManualSync, CrashAndReconcile, vars, Op
  <1>3. CASE DeploymentStep
    BY ZenonT(30), <1>0, <1>3, IdleFields DEF DeploymentStep, DeployBuilt, DeployStarted, DeploySynced, End,
       Sync, Op
  <1>4. CASE ScaleStep
    BY ZenonT(30), <1>0, <1>4, IdleFields DEF ScaleStep, ScaleUpNext, ScaleUpStarted, ScaleUpChecked,
       ScaleDownSynced, ScaleSynced, ScaleDownStopped, ScaleDone, Raise, End, Sync, Op
  <1>5. CASE ReleaseStep
    <2>1. CASE Abort
      BY ZenonT(30), <1>0, <2>1, IdleFields DEF Abort, End, Op
    <2>2. CASE ~Abort
      BY ZenonT(30), <1>0, <1>5, <2>2, IdleFields DEF ReleaseStep, ReleaseBuilt, GateNext, GateStarted,
         GateChecked, AbortStopped, DrainStopped, SwitchSynced, DrainOldRelease,
         PruneRelease, PruneEnds, End, Sync, Op
    <2> QED
      BY <2>1, <2>2
  <1>6. CASE HealStep
    BY ZenonT(30), <1>0, <1>6, IdleFields DEF HealStep, HealSynced, HealedSynced, HealDecides, HealStarted,
       ReplaceStarted, HealChecked, ReplaceChecked, Replace, GiveUp, CoolingDown, Raise, Sync, Op
  <1>7. CASE InstanceStep
    BY ZenonT(30), <1>0, <1>7, IdleFields DEF InstanceStep, RestartSynced, RestartedSynced, StopSynced,
       RestartStarted, StopStopped, Sync, Op
  <1> QED
    BY <1>1, <1>2, <1>3, <1>4, <1>5, <1>6, <1>7 DEF Next, OperationStep

\* During an abort either nothing happens to the operation, or one stop is
\* answered.
LEMMA AbortGoesOn ==
  ASSUME FleetInv, [Next]_vars, op.pc = "abort_stop", Answered
  PROVE  \/ op' = op /\ proc' = proc
         \/ \E reply \in Replies("stop") : AbortStopped(reply)
  <1>0. op # Idle /\ late = {} /\ "crash" \notin Faults
    BY IdleFields DEF FleetInv, Own, Answered
  <1>1. ~Request /\ ~CrashAndReconcile
    BY ZenonT(30), <1>0 DEF Request, Refuse, StartDeployment, StartScale, StartNewRelease, StartRollback,
                RestartInstance, StopInstance, CrashAndReconcile
  <1>2. CASE Monitor \/ Late \/ UNCHANGED vars
    BY ZenonT(30), <1>0, <1>2 DEF Monitor, Poll, PollEnds, Heal, Late, LateCommand, LateReload, ManualSync,
       agent, vars
  <1>3. ~DeploymentStep /\ ~InstanceStep
    BY DEF DeploymentStep, DeployBuilt, DeployStarted, DeploySynced, InstanceStep,
           RestartSynced, RestartedSynced, StopSynced, RestartStarted, StopStopped
  <1>4. ~ScaleStep
    BY DEF ScaleStep, ScaleUpNext, ScaleUpStarted, ScaleUpChecked, ScaleDownSynced, ScaleSynced,
           ScaleDownStopped, ScaleDone
  <1>5. ReleaseStep => \E reply \in Replies("stop") : AbortStopped(reply)
    BY DEF ReleaseStep, ReleaseBuilt, GateNext, GateStarted, GateChecked,
           DrainStopped, SwitchSynced, DrainOldRelease, PruneRelease, PruneEnds
  <1>6. ~HealStep
    BY DEF HealStep, HealSynced, HealedSynced, HealDecides, HealStarted, ReplaceStarted,
           HealChecked, ReplaceChecked, Replace
  <1> QED
    BY <1>1, <1>2, <1>3, <1>4, <1>5, <1>6 DEF Next, OperationStep

\* A switch that ends at its gates has nothing to stop.
LEMMA GateEnds ==
  ASSUME FleetInv, [Next]_vars, op.pc \in {"gate_next", "gate_start", "gate_health", "switch_sync"},
         op' = Idle, "crash" \notin Faults
  PROVE  op.new = <<>>
  <1>0. op # Idle /\ op \in Op /\ op'.pc = "idle"
    BY IdleFields DEF FleetInv, Types
  <1>1. ~Request /\ ~CrashAndReconcile /\ ~(Monitor \/ Late \/ UNCHANGED vars)
    BY ZenonT(30), <1>0 DEF Request, Refuse, StartDeployment, StartScale, StartNewRelease, StartRollback,
                RestartInstance, StopInstance, CrashAndReconcile, Monitor, Poll, PollEnds, Heal,
                Late, LateCommand, LateReload, ManualSync, vars
  <1>2. ~DeploymentStep /\ ~InstanceStep
    BY DEF DeploymentStep, DeployBuilt, DeployStarted, DeploySynced, InstanceStep,
           RestartSynced, RestartedSynced, StopSynced, RestartStarted, StopStopped
  <1>3. ~ScaleStep
    BY ZenonT(30) DEF ScaleStep, ScaleUpNext, ScaleUpStarted, ScaleUpChecked, ScaleDownSynced, ScaleSynced,
           ScaleDownStopped, ScaleDone
  <1>4. ~HealStep
    BY DEF HealStep, HealSynced, HealedSynced, HealDecides, HealStarted, ReplaceStarted,
           HealChecked, ReplaceChecked, Replace
  <1>5. ReleaseStep => Abort
    BY ZenonT(30), <1>0 DEF ReleaseStep, ReleaseBuilt, GateNext, GateStarted, GateChecked, AbortStopped,
       DrainStopped, SwitchSynced, DrainOldRelease, PruneRelease, PruneEnds, Sync, Op
  <1>6. Abort => op.new = <<>>
    BY ZenonT(30), <1>0 DEF Abort, Op
  <1> QED
    BY <1>1, <1>2, <1>3, <1>4, <1>5, <1>6 DEF Next, OperationStep
=============================================================================
