---------------------------- MODULE FleetProofs -----------------------------
(***************************************************************************)
(* Theorems about ApplicationOperations, for any number of ports, replicas,*)
(* rows and releases, each with the faults it holds for, and the steps of  *)
(* scaling.  The invariant is in FleetSteps, and its other steps are there *)
(* and in FleetSwitches.                                                   *)
(***************************************************************************)
EXTENDS FleetSwitches

USE DEF StartingAt, RestartingAt, StoppingAt, HealingAt, DrainingAt, GatingAt,
        BuildingAt, BuiltAt, SwitchingAt, ScalingAt, StartedAt, BehindAt, CurrentAt
-----------------------------------------------------------------------------
(* The steps of scaling *)

\* What _scale_down drains: all that are too many, unless one of them is
\* PENDING or STARTING.
DrainsTo(target, drain, d) ==
    /\ drain \in Seq(Nat) /\ drain # <<>>
    /\ \A k \in DOMAIN drain : drain[k] \in Live
    /\ \A k, l \in DOMAIN drain : drain[k] = drain[l] => k = l
    /\ d \in SUBSET Live /\ \A i \in d : rows[i].status \in {"running", "unhealthy"}
    /\ ~(Cardinality(d) < Len(drain)) =>
         /\ d = {drain[k] : k \in DOMAIN drain}
         /\ Cardinality(Live \ d) = target
    /\ Cardinality(d) < Len(drain) =>
         \E i \in Live : rows[i].status \in {"pending", "starting"}

\* What a scale-down picks.
LEMMA ScaleDrains ==
  ASSUME Counting, Types, NEW target \in Nat, target < Cardinality(Live),
         NEW drain, drain = NewestFirst(Live, Cardinality(Live) - target),
         NEW d, d = Drainable(drain)
  PROVE  DrainsTo(target, drain, d)
  <1> DEFINE n == Cardinality(Live) - target
             all == {drain[k] : k \in 1..n}
  <1>1. /\ rows \in Seq(Row) /\ Divided(Live) /\ NewestListed(Live)
        /\ Cardinality(Live) \in Nat /\ Live \in SUBSET Nat
        /\ Live \in SUBSET Rows
    BY LiveSized DEF Types, Live
  <1>2. n \in Nat \ {0} /\ n \in 0..Cardinality(Live)
    BY <1>1
  <1>a. ListsOf(drain, Live, n)
    BY <1>1, <1>2 DEF NewestListed
  <1>3. drain \in [1..n -> Live] /\ \A k, l \in 1..n : drain[k] = drain[l] => k = l
    BY <1>a DEF ListsOf
  <1>4. drain \in Seq(Nat) /\ Len(drain) = n /\ DOMAIN drain = 1..n /\ drain # <<>>
    <2>1. drain \in [1..n -> Nat]
      BY ZenonT(30), <1>1, <1>3
    <2>2. drain \in Seq(Nat) /\ Len(drain) = n /\ DOMAIN drain = 1..n
      BY <1>2, <2>1
    <2> QED
      BY <1>2, <2>2
  <1>5. Cardinality(all) = n /\ all \in SUBSET Live
    <2>1. Cardinality(all) = n
      BY ZenonT(30), <1>a DEF ListsOf
    <2>2. \A k \in 1..n : drain[k] \in Live
      BY ZenonT(30), <1>3
    <2> QED
      BY <2>1, <2>2
  <1> HIDE DEF all
  <1>6. /\ \A i \in d : \E k \in 1..n : i = drain[k] /\ \A m \in 1..k : May(drain[m], "draining")
        /\ \A k \in 1..n : (\A m \in 1..k : May(drain[m], "draining")) => drain[k] \in d
    BY <1>4 DEF Drainable
  <1>7. \A i \in Live : May(i, "draining") <=> rows[i].status \in {"running", "unhealthy"}
    <2> SUFFICES ASSUME NEW i \in Live
                 PROVE  May(i, "draining") <=> rows[i].status \in {"running", "unhealthy"}
      OBVIOUS
    <2>1. rows[i].status \in InstanceStatus
      BY <1>1, RowTypes
    <2> QED
      BY <2>1, Edges DEF May
  <1>8. d \in SUBSET all /\ \A i \in d : rows[i].status \in {"running", "unhealthy"}
    <2> SUFFICES ASSUME NEW i \in d PROVE i \in all /\ rows[i].status \in {"running", "unhealthy"}
      OBVIOUS
    <2>1. PICK k \in 1..n : i = drain[k] /\ \A m \in 1..k : May(drain[m], "draining")
      BY <1>6
    <2>2. i \in all /\ May(i, "draining")
      BY <1>2, <2>1 DEF all
    <2> QED
      BY <1>5, <1>7, <2>2
  <1>9. ASSUME ~(Cardinality(d) < Len(drain))
        PROVE  d = {drain[k] : k \in DOMAIN drain} /\ Cardinality(Live \ d) = target
    <2>1. Divided(all) /\ d \in SUBSET all
      <3>1. Len(rows) \in Nat /\ all \in SUBSET (1..Len(rows))
        BY <1>1, <1>5 DEF Rows
      <3> QED
        BY ZenonT(30), <1>8, <3>1 DEF Counting
    <2>2. Cardinality(d) \in 0..n /\ (Cardinality(d) = n => d = all)
      BY ZenonT(30), <1>5, <2>1 DEF Divided
    <2>3. d = all /\ Cardinality(d) = n
      BY <1>2, <1>4, <1>9, <2>2
    <2>4. Cardinality(Live \ d) = Cardinality(Live) - n
      BY <1>1, <1>5, <2>3 DEF Divided
    <2> QED
      BY <1>1, <1>4, <2>3, <2>4 DEF all
  <1>10. ASSUME Cardinality(d) < Len(drain)
         PROVE  \E i \in Live : rows[i].status \in {"pending", "starting"}
    <2>1. d # all
      BY <1>2, <1>4, <1>5, <1>10
    <2>2. PICK k \in 1..n : drain[k] \notin d
      BY <1>8, <2>1 DEF all
    <2>3. PICK m \in 1..k : ~May(drain[m], "draining")
      BY <1>6, <2>2
    <2>4. m \in 1..n /\ drain[m] \in Live
      BY <1>2, <1>3, <2>3
    <2>5. rows[drain[m]].status \notin {"running", "unhealthy"}
      BY <1>7, <2>3, <2>4
    <2> QED
      BY ZenonT(30), <2>4, <2>5 DEF Live
  <1>11. d \in SUBSET Live
    BY <1>5, <1>8
  <1> QED
    BY <1>3, <1>4, <1>8, <1>9, <1>10, <1>11 DEF DrainsTo

LEMMA StartScaleStep ==
  ASSUME Counting, FleetInv, NEW replicas \in 1..MaxReplicas, StartScale(replicas)
  PROVE  FleetInv'
  <1>NewestReadyExists.
    ASSUME Types, ReadyReleases # {}
    PROVE  NewestReady \in 0..MaxReleases
    <2> USE <1>NewestReadyExists
    <2>1. Len(rels) \in Nat /\ Len(rels) <= MaxReleases /\ MaxReleases \in Nat
      BY FleetConstants DEF Types
    <2>2. ReadyReleases \in SUBSET (1..Len(rels))
      BY DEF ReadyReleases, Types
    <2>3. Sized(ReadyReleases)
      BY ZenonT(30), <2>1, <2>2 DEF Counting
    <2>4. \E r \in ReadyReleases : \A s \in ReadyReleases : s <= r
      BY <2>3 DEF Sized
    <2>5. NewestReady \in ReadyReleases
      BY <2>4 DEF NewestReady
    <2> QED
      BY <2>1, <2>2, <2>5
  <1>ScaleBegins.
    ASSUME FleetInv, op = Idle, op' \in Op, op'.pc \in {"up_next", "scale_done"},
           desired' \in 1..MaxReplicas, dep' = "in_progress",
           UNCHANGED <<rows, rels, active, proc, late, routed, inflight, polled>>,
           op'.pc = "up_next" => Cardinality(Live) + op'.left = desired',
           op'.pc = "scale_done" => Cardinality(Live) = desired'
    PROVE  FleetInv'
    <2> USE <1>ScaleBegins
    <2>0. /\ Types /\ PortsApart /\ RowFits /\ ReleasesFit /\ rows \in Seq(Row) /\ Rows' = Rows
          /\ RowsStay /\ op.pc = "idle" /\ Live' = Live
      BY IdleFields DEF FleetInv, Types, Rows, RowsStay, Live
    <2>1. Types' /\ PortsApart' /\ RowFits' /\ ListsFit' /\ ReleasesFit' /\ CountFits'
      BY <2>0, PolledKept, ReleasesKept
         DEF Types, PortsApart, RowFits, ListsFit, CountFits, DeploymentStatus
    <2>2. (Orderly => Unmoved') /\ (Answered => Own')
      BY <2>0 DEF FleetInv, Unmoved, Own, OwnProcess
    <2>3. Decisive => (PendingLeft \/ Underway)'
      BY <2>0 DEF FleetInv, PendingLeft, Underway, Busy, InDeploymentAt
    <2>4. Calm => RoutesFit'
      BY <2>0 DEF FleetInv, RoutesFit, RouteFits, Serves, AwaitsSync
    <2> QED
      BY <2>1, <2>2, <2>3, <2>4 DEF FleetInv
  <1>ScaleDownBegins.
    ASSUME FleetInv, op = Idle, NEW d \in SUBSET Live,
           \A i \in d : rows[i].status \in {"running", "unhealthy"}, rows' = Draining(d),
           desired' \in 1..MaxReplicas, dep' = "in_progress",
           UNCHANGED <<rels, active, proc, late, routed, inflight, polled>>,
           \/ op' = Idle /\ \E i \in Live : rows[i].status \in {"pending", "starting"}
           \/ /\ op' \in Op /\ op'.pc = "down_sync" /\ op'.sent = Upstreams(rows', active')
              /\ op'.todo # <<>> /\ d = {op'.todo[k] : k \in DOMAIN op'.todo}
              /\ \A k, l \in DOMAIN op'.todo : op'.todo[k] = op'.todo[l] => k = l
              /\ Cardinality(Live \ d) = desired'
    PROVE  FleetInv'
    <2> USE <1>ScaleDownBegins
    <2>0. /\ Types /\ PortsApart /\ RowFits /\ ReleasesFit /\ op.pc = "idle"
          /\ d \in SUBSET Rows /\ \A i \in d : rows[i].status \notin Dead
      BY IdleFields DEF FleetInv, Dead, Live
    <2>1. /\ rows \in Seq(Row) /\ rows' \in Seq(Row) /\ Len(rows') = Len(rows) /\ Rows' = Rows
          /\ RowsStay /\ PortsApart'
          /\ \A i \in Rows : /\ rows'[i].port = rows[i].port /\ rows'[i].rel = rows[i].rel
                             /\ i \in d => rows'[i].status = "draining"
                             /\ i \notin d => rows'[i] = rows[i]
      BY <2>0, RowsDraining
    <2>2. op' \in Op /\ op'.pc \in {"idle", "down_sync"}
      BY IdleFields
    <2>3. Types'
      BY <2>0, <2>1, <2>2 DEF Types, DeploymentStatus
    <2>4. RowFits' /\ ReleasesFit'
      <3>1. polled' # 0 => polled' \in Rows' /\ rows'[polled'].status # "pending"
        BY <2>0, <2>1, PolledKept
      <3> QED
        BY <2>0, <2>2, <3>1, ReleasesKept DEF RowFits
    <2>5. ListsFit'
      <3> SUFFICES ASSUME op'.pc = "down_sync"
                   PROVE  op'.todo # <<>> /\ Listed(op.todo, "draining")'
        BY <2>2 DEF ListsFit
      <3>1. op' # Idle
        BY IdleFields
      <3> QED
        BY <2>0, <2>1, <3>1 DEF Listed
    <2>6. CountFits'
      <3> SUFFICES ASSUME op'.pc = "down_sync" PROVE Cardinality(Live') = desired'
        BY <2>2 DEF CountFits
      <3>1. op' # Idle
        BY IdleFields
      <3>2. Live' = Live \ d
        BY <2>0, <2>1 DEF Live
      <3> QED
        BY <3>1, <3>2
    <2>7. Orderly => Unmoved'
      BY <2>2 DEF FleetInv, Unmoved
    <2>8. Answered => Own'
      <3> SUFFICES ASSUME Answered PROVE Own'
        OBVIOUS
      <3>1. OwnProcess'
        BY <2>0, <2>1, OwnKept DEF FleetInv, Own
      <3> QED
        BY <2>2, <3>1 DEF FleetInv, Own
    <2>9. Decisive => (PendingLeft \/ Underway)'
      <3>1. CASE PendingLeft
        <4>1. PendingLeft'
          BY <2>0, <2>1, <2>2, <3>1, PendingStays
        <4> QED
          BY <4>1
      <3>2. CASE Underway
        <4>0. \A i \in Rows : rows[i].status \notin Transient
          BY <2>0, <3>2 DEF Underway, Busy
        <4>1. CASE op' = Idle
          <5>1. PICK i \in Live : rows[i].status = "pending"
            BY <4>0, <4>1, IdleFields DEF Transient, Live
          <5>2. i \in Rows /\ i \notin d
            BY <5>1 DEF Live
          <5>3. op'.pc # "deploy_build"
            BY <2>2
          <5> QED
            BY <2>1, <5>1, <5>2, <5>3 DEF PendingLeft
        <4>2. CASE op' # Idle
          <5>1. \A i \in Rows' : rows'[i].status \in Transient => i \in d
            BY <2>1, <4>0
          <5>2. \A i \in d : \E k \in DOMAIN op'.todo : i = op'.todo[k]
            BY <4>2
          <5>3. op'.pc = "down_sync"
            BY <4>2
          <5> QED
            BY <5>1, <5>2, <5>3 DEF Underway, Busy, InDeploymentAt
        <4> QED
          BY <4>1, <4>2
      <3> QED
        BY <3>1, <3>2 DEF FleetInv
    <2>10. Calm => RoutesFit'
      <3> SUFFICES ASSUME Calm PROVE RoutesFit'
        OBVIOUS
      <3>1. op'.pc \in AwaitsSync =>
              \A p \in op'.sent :
                proc'[p] \in Rows' /\ rows'[proc'[p]].port = p /\ Serves(proc[p])'
        <4> SUFFICES ASSUME op'.pc \in AwaitsSync
                     PROVE  \A p \in op'.sent :
                              proc'[p] \in Rows' /\ rows'[proc'[p]].port = p /\ Serves(proc[p])'
          OBVIOUS
        <4>1. op' # Idle
          BY IdleFields DEF AwaitsSync
        <4> QED
          BY <2>1, <2>8, <4>1, CalmIsMore, SentIsServed DEF Own
      <3>2. ASSUME NEW p \in routed' PROVE RouteFits(p, proc[p])'
        <4>1. PICK i : i = proc[p]
          OBVIOUS
        <4>2. RouteFits(p, i) /\ i \in Rows /\ proc'[p] = i
          BY <3>2, <4>1 DEF FleetInv, RoutesFit, RouteFits
        <4>3. RouteFits(p, i)'
          <5>1. CASE i \in d
            BY <2>0, <2>1, <2>2, <4>2, <5>1 DEF RouteFits, Serves
          <5>2. CASE i \notin d
            BY <2>0, <2>1, <2>2, <4>2, <5>2 DEF RouteFits, Serves
          <5> QED
            BY <5>1, <5>2
        <4> QED
          BY <4>2, <4>3
      <3> QED
        BY <3>1, <3>2 DEF RoutesFit
    <2> QED
      BY <2>1, <2>3, <2>4, <2>5, <2>6, <2>7, <2>8, <2>9, <2>10 DEF FleetInv
  <1> DEFINE current == Cardinality(Live)
  <1>0. /\ Types /\ op = Idle /\ ReadyReleases # {} /\ rows \in Seq(Row)
        /\ desired' = replicas /\ dep' = "in_progress" /\ MaxReplicas \in Nat
        /\ UNCHANGED <<rels, active, proc, late, routed, inflight, polled>>
    BY FleetConstants DEF FleetInv, Types, StartScale, agent, gateway
  <1>1. current \in Nat /\ replicas \in Nat
    BY <1>0, LiveSized
  <1>2. PICK rel \in 0..MaxReleases : rel = NewestReady
    BY <1>0, <1>NewestReadyExists
  <1>3. PICK base : base = [Idle EXCEPT !.rel = rel]
    BY ZenonT(30)
  <1>4. /\ base \in Op /\ base.ok = TRUE /\ base.todo = <<>>
    BY <1>2, <1>3, IdleFields DEF Op
  <1>5. CASE replicas > current
    <2>1. PICK n \in Nat : n = replicas - current
      BY <1>1, <1>5
    <2>2. op' = [base EXCEPT !.pc = "up_next", !.left = n] /\ rows' = rows
      BY <1>1, <1>2, <1>3, <1>5, <2>1 DEF StartScale
    <2>3. op' \in Op /\ op'.pc = "up_next" /\ op'.left = n
      BY ZenonT(30), <1>4, <2>2 DEF Op, Pcs, AwaitsElse
    <2>4. current + op'.left = replicas
      BY <1>1, <2>1, <2>3
    <2> QED
      BY <1>0, <2>2, <2>3, <2>4, <1>ScaleBegins
  <1>6. CASE replicas = current
    <2>1. op' = [base EXCEPT !.pc = "scale_done"] /\ rows' = rows
      BY <1>1, <1>2, <1>3, <1>6 DEF StartScale
    <2>2. op' \in Op /\ op'.pc = "scale_done"
      BY <1>4, <2>1 DEF Op, Pcs, AwaitsElse
    <2> QED
      BY <1>0, <1>6, <2>1, <2>2, <1>ScaleBegins
  <1>7. CASE replicas < current
    <2>1. PICK drain : drain = NewestFirst(Live, Cardinality(Live) - replicas)
      OBVIOUS
    <2>2. PICK d : d = Drainable(drain)
      OBVIOUS
    <2>3. PICK ports : ports = Upstreams(rows', active')
      OBVIOUS
    <2>4. /\ rows' = Draining(d)
          /\ op' = IF Cardinality(d) < Len(drain) THEN Idle
                   ELSE [base EXCEPT !.pc = "down_sync", !.todo = drain, !.sent = ports]
      BY <1>0, <1>1, <1>2, <1>3, <1>7, <2>1, <2>2, <2>3 DEF StartScale, Draining
    <2>5. /\ drain \in Seq(Nat) /\ drain # <<>>
          /\ \A k \in DOMAIN drain : drain[k] \in Live
          /\ \A k, l \in DOMAIN drain : drain[k] = drain[l] => k = l
          /\ d \in SUBSET Live /\ \A i \in d : rows[i].status \in {"running", "unhealthy"}
          /\ ~(Cardinality(d) < Len(drain)) =>
               /\ d = {drain[k] : k \in DOMAIN drain}
               /\ Cardinality(Live \ d) = replicas
          /\ Cardinality(d) < Len(drain) =>
               \E i \in Live : rows[i].status \in {"pending", "starting"}
      <3>1. Types /\ replicas \in Nat /\ replicas < Cardinality(Live)
        BY <1>0, <1>1, <1>7
      <3>2. DrainsTo(replicas, drain, d)
        BY <2>1, <2>2, <3>1, ScaleDrains
      <3> QED
        BY <3>2 DEF DrainsTo
    <2>6. CASE Cardinality(d) < Len(drain)
      BY ZenonT(30), <1>0, <2>4, <2>5, <2>6, <1>ScaleDownBegins
    <2>7. CASE ~(Cardinality(d) < Len(drain))
      <3>1. PortsApart /\ d \in SUBSET Rows /\ \A i \in d : rows[i].status \notin Dead
        BY <2>5 DEF FleetInv, Dead, Live
      <3>2. rows' \in Seq(Row)
        BY <1>0, <2>4, <3>1, RowsDraining
      <3>3. ports \in SUBSET Ports
        BY <2>3, <3>2, UpstreamPortsNext
      <3>4. op' \in Op /\ op'.pc = "down_sync" /\ op'.todo = drain /\ op'.sent = ports
        BY ZenonT(30), <1>4, <2>4, <2>5, <2>7, <3>3 DEF Op, Pcs, AwaitsSync
      <3> QED
        BY <1>0, <2>3, <2>4, <2>5, <2>7, <3>4, <1>ScaleDownBegins
    <2> QED
      BY <2>6, <2>7
  <1> QED
    BY <1>1, <1>5, <1>6, <1>7

LEMMA ScaleKeeps ==
  ASSUME Counting, FleetInv, ScaleStep
  PROVE  FleetInv'
  <1>ScaleUpNextStep.
    ASSUME FleetInv, ScaleUpNext
    PROVE  FleetInv'
    <2> USE <1>ScaleUpNextStep
    <2>0. /\ Types /\ PortsApart /\ RowFits /\ ReleasesFit /\ CountFits /\ op \in Op
          /\ op.pc = "up_next" /\ op.rel \in 0..MaxReleases /\ 0 \in 0..MaxRestarts
          /\ rows \in Seq(Row) /\ op.left \in Nat
      <3>1. Types /\ PortsApart /\ RowFits /\ ReleasesFit /\ CountFits
        BY DEF FleetInv
      <3>2. op.pc = "up_next"
        BY DEF ScaleUpNext
      <3>3. op \in Op /\ rows \in Seq(Row)
        BY <3>1 DEF Types
      <3>4. op.rel \in 0..MaxReleases /\ op.left \in Nat
        BY <3>3 DEF Op
      <3>5. 0 \in 0..MaxRestarts
        BY FleetConstants
      <3> QED
        BY <3>1, <3>2, <3>3, <3>4, <3>5
    <2>1. CASE /\ op.left > 0 /\ FreePorts # {} /\ rows' = Allocated(op.rel, "starting", 0)
               /\ op' = [op EXCEPT !.pc = "up_start", !.row = Len(rows')]
      BY ZenonT(30), <2>0, <2>1, RowAllocated DEF ScaleUpNext
    <2>2. CASE /\ rows' = rows
               /\ \/ op' = [op EXCEPT !.pc = "scale_done", !.ok = FALSE]
                  \/ op.left = 0 /\ op' = [op EXCEPT !.pc = "scale_done"]
      <3>1. /\ UNCHANGED <<rows, rels, active, desired, dep, proc, late, routed, inflight, polled>>
            /\ op' \in Op /\ op'.pc = "scale_done" /\ (op'.ok => op.ok /\ op.left = 0)
        BY ZenonT(30), <2>0, <2>2 DEF ScaleUpNext, db, agent, gateway, Op, Pcs, AwaitsElse
      <3>2. Rows' = Rows /\ RowsStay
        BY <2>0, <3>1 DEF Rows, RowsStay
      <3>3. Types' /\ PortsApart' /\ RowFits' /\ ListsFit' /\ ReleasesFit'
        BY <2>0, <3>1, <3>2, PolledKept, ReleasesKept DEF Types, PortsApart, RowFits, ListsFit
      <3>4. CountFits'
        <4>1. Live' = Live /\ Cardinality(Live) \in Nat
          BY <2>0, <3>1, <3>2, LiveSized DEF Live
        <4>2. desired \in Nat
          BY <2>0 DEF Types
        <4> QED
          BY <2>0, <3>1, <4>1, <4>2 DEF CountFits
      <3>5. (Orderly => Unmoved') /\ (Answered => Own')
        BY <3>1, <3>2 DEF FleetInv, Unmoved, Own, OwnProcess
      <3>6. Decisive => (PendingLeft \/ Underway)'
        BY <2>0, <3>1, <3>2 DEF FleetInv, PendingLeft, Underway, Busy, InDeploymentAt
      <3>7. Calm => RoutesFit'
        BY <2>0, <3>1, <3>2 DEF FleetInv, RoutesFit, RouteFits, Serves, AwaitsSync
      <3> QED
        BY <3>3, <3>4, <3>5, <3>6, <3>7 DEF FleetInv
    <2> QED
      BY <2>1, <2>2 DEF ScaleUpNext
  \* One more replica is RUNNING, or has failed; the loop goes on.
  <1>ReplicaSettled.
    ASSUME FleetInv, op.pc \in {"up_start", "up_health"}, NEW s \in {"running", "failed"},
           rows' = Set(op.row, s), op'.pc = "up_next", op'.left = op.left - 1, op' \in Op,
           op'.ok => op.ok /\ s = "running",
           UNCHANGED <<rels, active, desired, dep, gateway, polled>>,
           proc' \in [Ports -> Nat], late' \subseteq {"start", "stop"} \X Nat,
           Answered => late' = {} /\ (s = "running" => proc'[rows[op.row].port] = op.row),
           \A p \in Ports : p # rows[op.row].port => proc'[p] = proc[p]
    PROVE  FleetInv'
    <2> USE <1>ReplicaSettled
    <2>0. /\ Types /\ RowFits /\ ReleasesFit /\ CountFits /\ op \in Op /\ op.row \in Rows
          /\ rows[op.row].status = "starting" /\ rows[op.row].status \notin Dead
          /\ s \in InstanceStatus \ {"pending"} /\ desired \in Nat
      BY DEF FleetInv, RowFits, Types, Dead, InstanceStatus
    <2>a. op.left \in Nat
      BY <2>0 DEF Op
    <2>1. /\ rows \in Seq(Row) /\ rows' \in Seq(Row) /\ PortsApart /\ PortsApart'
          /\ Len(rows') = Len(rows) /\ Rows' = Rows /\ RowsStay /\ rows'[op.row].status = s
          /\ \A j \in Rows : rows'[j].port = rows[j].port /\ (j # op.row => rows'[j] = rows[j])
      BY <2>0, RowMarked
    <2>2. Types'
      BY <2>0, <2>1 DEF Types, gateway
    <2>3. RowFits' /\ ListsFit' /\ ReleasesFit'
      <3>1. polled' # 0 => polled' \in Rows' /\ rows'[polled'].status # "pending"
        BY <2>0, <2>1, PolledKept
      <3> QED
        BY <2>0, <3>1, ReleasesKept DEF RowFits, ListsFit
    <2>4. CountFits'
      <3>1. op'.ok => Live' = Live
        BY <2>0, <2>1 DEF Live
      <3>2. Cardinality(Live) \in Nat
        BY <2>1, LiveSized
      <3>3. dep = "in_progress" /\ (op.ok => Cardinality(Live) + op.left = desired + 1)
        BY <2>0 DEF CountFits
      <3>4. op'.ok => Cardinality(Live') + op'.left = desired'
        BY <2>0, <2>a, <3>1, <3>2, <3>3
      <3> QED
        BY <3>3, <3>4 DEF CountFits
    <2>5. Orderly => Unmoved'
      BY UnmovedKept DEF FleetInv
    <2>6. Answered => Own'
      <3> SUFFICES ASSUME Answered PROVE Own'
        OBVIOUS
      <3>1. \A j \in Rows' : rows'[j].status = "running" =>
              /\ j \in Rows /\ rows'[j].port = rows[j].port
              /\ j # op.row => rows[j].status = "running"
              /\ j = op.row => proc'[rows[op.row].port] = op.row
        BY <2>1
      <3>2. OwnProcess
        BY DEF FleetInv, Own
      <3>3. OwnProcess'
        BY <2>0, <2>1, <3>1, <3>2, OwnTouched
      <3> QED
        BY <3>3 DEF Own
    <2>7. Decisive => (PendingLeft \/ Underway)'
      <3>1. CASE PendingLeft
        <4>1. PendingLeft'
          BY <2>0, <2>1, <3>1, PendingStays
        <4> QED
          BY <4>1
      <3>2. CASE Underway
        BY <2>0, <2>1, <3>2 DEF Underway, Busy, InDeploymentAt, Transient
      <3> QED
        BY <3>1, <3>2 DEF FleetInv
    <2>8. Calm => RoutesFit'
      <3> SUFFICES ASSUME Calm PROVE RoutesFit'
        OBVIOUS
      <3>1. op'.pc \notin AwaitsSync
        BY DEF AwaitsSync
      <3>2. RoutesFit /\ ~RouteFits(rows[op.row].port, op.row)
        BY <2>0 DEF FleetInv, RouteFits
      <3>3. rows[op.row].port \notin routed
        BY <2>0, <2>1, <3>2, NotRouted
      <3>4. \A p \in routed, j \in Rows :
              RouteFits(p, j) => p \in Ports /\ p # rows[op.row].port /\ j # op.row
        BY <2>0, <3>2, <3>3 DEF RouteFits, Types
      <3> QED
        BY <2>0, <2>1, <3>1, <3>2, <3>4, RoutesKept DEF gateway
    <2> QED
      BY <2>1, <2>2, <2>3, <2>4, <2>5, <2>6, <2>7, <2>8 DEF FleetInv
  <1>ScaleUpStartedStep.
    ASSUME FleetInv, NEW reply \in Replies("start"), ScaleUpStarted(reply)
    PROVE  FleetInv'
    <2> USE <1>ScaleUpStartedStep
    <2>0. /\ Types /\ op.pc = "up_start" /\ op.row \in Rows /\ AgentReplies("start", op.row, reply)
          /\ op \in Op /\ op.left \in Nat /\ op.left > 0
      BY DEF FleetInv, RowFits, ScaleUpStarted, Types, CountFits, Op
    <2>1. CASE reply = "ok"
      BY <2>0, <2>1, ProcessStarted DEF ScaleUpStarted
    <2>2. CASE reply # "ok"
      <3>1. PICK n \in Nat : n = op.left - 1
        BY <2>0
      <3>2. /\ rows' = Set(op.row, "failed")
            /\ op' = [op EXCEPT !.pc = "up_next", !.ok = FALSE, !.left = n]
            /\ UNCHANGED <<rels, active, desired, dep, gateway, polled>>
        BY <2>0, <2>2, <3>1 DEF ScaleUpStarted, db
      <3>3. op'.pc = "up_next" /\ op'.left = n /\ op' \in Op /\ op'.ok = FALSE
        BY ZenonT(30), <2>0, <3>2 DEF Op, Pcs, AwaitsElse
      <3>4. /\ proc' \in [Ports -> Nat] /\ late' \subseteq {"start", "stop"} \X Nat
            /\ Answered => late' = {}
            /\ \A p \in Ports : p # rows[op.row].port => proc'[p] = proc[p]
        BY <2>0, AgentStep
      <3> QED
        BY <2>0, <3>1, <3>2, <3>3, <3>4, <1>ReplicaSettled
    <2> QED
      BY <2>1, <2>2
  <1>ScaleUpCheckedStep.
    ASSUME FleetInv, NEW healthy \in Verdicts, ScaleUpChecked(healthy)
    PROVE  FleetInv'
    <2> USE <1>ScaleUpCheckedStep
    <2>0. /\ Types /\ op.pc = "up_health" /\ op.row \in Rows /\ rows[op.row].status = "starting"
          /\ rows[op.row].status \in InstanceStatus /\ healthy \in BOOLEAN
          /\ ~healthy => "unhealthy" \in Faults
          /\ op \in Op /\ op.left \in Nat /\ op.left > 0
      BY ZenonT(30), RowTypes DEF ScaleUpChecked, FleetInv, RowFits, Verdicts, Types, CountFits, Op
    <2>1. May(op.row, "running") /\ ~May(op.row, "unhealthy")
      BY <2>0, Edges DEF May
    <2>2. CASE healthy
      <3>a. PICK n \in Nat : n = op.left - 1
        BY <2>0
      <3>b. PICK b \in BOOLEAN : b = (op.ok /\ healthy)
        BY ZenonT(30)
      <3>1. /\ rows' = Set(op.row, "running")
            /\ op' = [op EXCEPT !.pc = "up_next", !.ok = b, !.left = n]
            /\ UNCHANGED <<rels, active, desired, dep, proc, late, gateway, polled>>
        BY <2>0, <2>1, <2>2, <3>a, <3>b DEF ScaleUpChecked, db, agent
      <3>c. op'.pc = "up_next" /\ op'.left = n /\ op' \in Op /\ op'.ok = b
        BY ZenonT(30), <2>0, <3>1 DEF Op, Pcs, AwaitsElse
      <3>2. op'.pc = "up_next" /\ op'.left = op.left - 1 /\ op' \in Op /\ (op'.ok => op.ok)
        BY ZenonT(30), <3>a, <3>b, <3>c
      <3>3. /\ proc \in [Ports -> Nat] /\ late \subseteq {"start", "stop"} \X Nat
            /\ Answered => late = {} /\ proc[rows[op.row].port] = op.row
        BY <2>0 DEF FleetInv, Types, Own
      <3> QED
        BY <2>0, <3>1, <3>2, <3>3, <1>ReplicaSettled
    <2>3. CASE ~healthy
      BY <2>0, <2>1, <2>3, Raised DEF ScaleUpChecked
    <2> QED
      BY <2>2, <2>3
  <1>ScaleDoneStep.
    ASSUME FleetInv, ScaleDone
    PROVE  FleetInv'
    <2> USE <1>ScaleDoneStep
    <2>0. /\ Types /\ PortsApart /\ RowFits /\ ReleasesFit /\ CountFits /\ op \in Op
          /\ op.pc = "scale_done" /\ rows \in Seq(Row) /\ Rows' = Rows /\ RowsStay
          /\ UNCHANGED <<rows, rels, active, desired, proc, late, routed, inflight, polled>>
      BY DEF FleetInv, Types, ScaleDone, db, agent, gateway, Rows, RowsStay
    <2>1. (Answered => Own) => (Answered => late' = {} /\ OwnProcess')
      BY <2>0 DEF Own, OwnProcess
    <2>2. CASE ~op.ok
      <3>1. op' = Idle /\ dep' = "failed"
        BY <2>2 DEF ScaleDone, End
      <3>2. ReleasesFit' /\ \A j : ~Busy(j)
        BY <2>0, <3>1, IdleFields, ReleasesKept DEF Busy
      <3> QED
        BY <2>0, <2>1, <3>1, <3>2, RowsLeft DEF FleetInv, Types, gateway, DeploymentStatus
    <2>3. CASE op.ok
      <3>a. PICK ports : ports = Upstreams(rows', active')
        OBVIOUS
      <3>b. ports \in SUBSET Ports
        BY <2>0, <3>a, UpstreamPortsNext
      <3>c. op' = [op EXCEPT !.pc = "scale_sync", !.sent = ports] /\ dep' = dep
        BY <2>3, <3>a DEF ScaleDone, Sync
      <3>2. op' \in Op /\ op'.pc = "scale_sync" /\ dep' = dep /\ op'.sent = ports
        BY ZenonT(30), <2>0, <3>b, <3>c DEF Op, Pcs, AwaitsSync
      <3>1. op'.sent = Upstreams(rows', active')
        BY <3>a, <3>2
      <3>3. Types' /\ PortsApart' /\ RowFits' /\ ListsFit' /\ ReleasesFit'
        BY <2>0, <3>2, PolledKept, ReleasesKept DEF Types, PortsApart, RowFits, ListsFit
      <3>4. CountFits'
        <4>1. Live' = Live
          BY <2>0 DEF Live
        <4> QED
          BY <2>0, <2>3, <3>2, <4>1 DEF CountFits
      <3>5. (Orderly => Unmoved') /\ (Answered => Own')
        BY <2>0, <3>2 DEF FleetInv, Unmoved, Own, OwnProcess
      <3>6. Decisive => (PendingLeft \/ Underway)'
        BY <2>0, <3>2 DEF FleetInv, PendingLeft, Underway, Busy, InDeploymentAt
      <3>7. Calm => RoutesFit'
        <4> SUFFICES ASSUME Calm PROVE RoutesFit'
          OBVIOUS
        <4>1. \A p \in op'.sent :
                proc'[p] \in Rows' /\ rows'[proc'[p]].port = p /\ Serves(proc[p])'
          BY <2>0, <3>1, <3>5, CalmIsMore, SentIsServed DEF Own
        <4> QED
          BY <2>0, <3>2, <4>1, RoutesKept DEF FleetInv
      <3> QED
        BY <3>3, <3>4, <3>5, <3>6, <3>7 DEF FleetInv
    <2> QED
      BY <2>2, <2>3
  <1>ScaleDownStoppedStep.
    ASSUME FleetInv, NEW reply \in Replies("stop"), ScaleDownStopped(reply)
    PROVE  FleetInv'
    <2> USE <1>ScaleDownStoppedStep
    <2>0. op \in Op /\ op.pc = "down_stop" /\ op.todo # <<>> /\ op.todo \in Seq(Nat)
      BY DEF FleetInv, Types, ListsFit, Op, ScaleDownStopped
    <2>a. PICK t \in Seq(Nat) : t = Tail(op.todo)
      <3>1. Tail(op.todo) \in Seq(Nat)
        BY <2>0
      <3> QED
        BY ZenonT(30), <3>1
    <2>b. PICK to \in {"scale_done", "down_stop"} :
            to = (IF Len(op.todo) = 1 THEN "scale_done" ELSE "down_stop")
      OBVIOUS
    <2>c. PICK b \in BOOLEAN : b = (op.ok /\ reply = "ok")
      BY ZenonT(30)
    <2>1. /\ t = Tail(op.todo) /\ to = (IF Len(op.todo) = 1 THEN "scale_done" ELSE "down_stop")
          /\ b = (op.ok /\ reply = "ok")
      BY <2>a, <2>b, <2>c
    <2>2. op' = [op EXCEPT !.pc = to, !.todo = t, !.ok = b]
      BY <2>0, <2>1 DEF ScaleDownStopped
    <2>3. op' \in Op /\ op'.pc = to /\ op'.todo = t /\ op'.ok = b
      BY ZenonT(30), <2>0, <2>1, <2>2 DEF Op, Pcs, AwaitsElse, AwaitsStop
    <2>4. PICK s \in Dead : rows' = Set(Head(op.todo), s)
      BY DEF ScaleDownStopped, Dead
    <2>5. /\ op'.ok => op.ok
          /\ op'.pc = IF Len(op.todo) # 1 THEN op.pc
                      ELSE IF op.pc = "down_stop" THEN "scale_done" ELSE "prune"
      BY ZenonT(30), <2>0, <2>1, <2>3
    <2> QED
      BY <2>0, <2>1, <2>3, <2>4, <2>5, Drained DEF ScaleDownStopped, db
  <1>1. ASSUME NEW reply \in SyncReplies, ScaleDownSynced(reply) PROVE FleetInv'
    BY <1>1, SyncGoesOn DEF ScaleDownSynced
  <1>2. ASSUME NEW reply \in SyncReplies, ScaleSynced(reply) PROVE FleetInv'
    BY <1>2, SyncEnds DEF ScaleSynced, End
  <1> QED
    BY <1>1, <1>2, <1>ScaleUpNextStep, <1>ScaleUpStartedStep, <1>ScaleUpCheckedStep,
       <1>ScaleDownStoppedStep, <1>ScaleDoneStep DEF ScaleStep
-----------------------------------------------------------------------------
(* What requests and the other steps do to the rows *)

\* Requests and the health monitor's healing take a row as it now is.
LEMMA RequestFollows ==
  ASSUME Counting, FleetInv, Request \/ Monitor
  PROVE  RowsFollow
  <1>0. Types
    BY DEF FleetInv
  <1>Take. ASSUME NEW i \in Rows, NEW s \in {"unhealthy", "restarting", "draining"},
                  rows' = Set(i, s), UNCHANGED agent, May(i, s)
           PROVE  RowsFollow
    <2>1. Moves(i, s) /\ s \in InstanceStatus
      BY <1>0, <1>Take, SetMoves DEF InstanceStatus
    <2>2. rows[i].status \notin Dead
      BY <1>0, <1>Take, RowTypes, Edges DEF May, Dead
    <2> QED
      BY <1>Take, <2>1, <2>2, MoveFollows
  <1>1. CASE Refuse \/ StartNewRelease
    BY <1>1, StillFollows DEF Refuse, StartNewRelease, vars, agent
  <1>2. CASE StartDeployment
    <2>1. Len(rels') \in 0..MaxReleases /\ 0 \in 0..MaxRestarts
      BY <1>0, <1>2, FleetConstants DEF StartDeployment, Types
    <2>2. op'.pc = "deploy_build" /\ op'.row = Len(rows')
      BY <1>2 DEF StartDeployment, Idle
    <2> QED
      BY <1>2, <2>1, <2>2, AddFollows DEF StartDeployment
  <1>3. ASSUME NEW target \in 1..MaxReplicas, StartScale(target) PROVE RowsFollow
    <2>1. CASE rows' = rows
      BY <1>3, <2>1, StillFollows DEF StartScale
    <2>2. CASE rows' # rows
      <3>1. PICK drain, d : /\ drain = NewestFirst(Live, Cardinality(Live) - target)
                            /\ d = Drainable(drain) /\ rows' = Draining(d)
        BY <1>3, <2>2 DEF StartScale, Draining
      <3>2. target \in Nat /\ target < Cardinality(Live)
        BY <1>3, <2>2, FleetConstants DEF StartScale
      <3>3. d \in SUBSET Live /\ \A i \in d : rows[i].status \in {"running", "unhealthy"}
        <4>1. DrainsTo(target, drain, d)
          BY <1>0, <3>1, <3>2, ScaleDrains
        <4> QED
          BY <4>1 DEF DrainsTo
      <3>4. d \in SUBSET Rows
        BY <3>3 DEF Live
      <3> QED
        BY <1>3, <3>1, <3>3, <3>4, DrainFollows DEF StartScale
    <2> QED
      BY <2>1, <2>2
  <1>4. ASSUME NEW release \in DOMAIN rels, StartRollback(release) PROVE RowsFollow
    BY <1>4, StillFollows DEF StartRollback
  <1>5. ASSUME NEW i \in Rows, RestartInstance(i) \/ StopInstance(i) PROVE RowsFollow
    <2>1. May(i, "restarting") /\ May(i, "draining")
      BY <1>5, Edges DEF RestartInstance, StopInstance, Actionable, May, InstanceStatus
    <2> QED
      BY <1>Take, <1>5, <2>1 DEF RestartInstance, StopInstance
  <1>6. ASSUME NEW i \in Rows, Poll(i) PROVE RowsFollow
    BY <1>6, StillFollows DEF Poll
  <1>7. ASSUME NEW i \in Rows, Heal(i) PROVE RowsFollow
    <2>1. CASE rows[i].status = "running"
      <3>1. May(i, "unhealthy")
        BY <2>1, Edges DEF May, InstanceStatus
      <3> QED
        BY <1>Take, <1>7, <2>1, <3>1 DEF Heal
    <2>2. CASE rows[i].status # "running"
      BY <1>7, <2>2, StillFollows DEF Heal
    <2> QED
      BY <2>1, <2>2
  <1>8. CASE PollEnds
    BY <1>8, StillFollows DEF PollEnds
  <1> QED
    BY <1>1, <1>2, <1>3, <1>4, <1>5, <1>6, <1>7, <1>8 DEF Request, Monitor

\* Every step.
LEMMA NextFollows ==
  ASSUME Counting, FleetInv, [Next]_vars
  PROVE  RowsFollow
  <1>1. CASE LateCommand
    <2>1. rows' = rows
      BY <1>1 DEF LateCommand
    <2> QED
      BY <1>1, <2>1 DEF RowsFollow, RowFollows, Rows
  <1>2. CASE LateReload \/ ManualSync \/ UNCHANGED vars
    BY <1>2, StillFollows DEF LateReload, ManualSync, vars, agent
  <1> QED
    BY <1>1, <1>2, RequestFollows, DeploymentFollows, ScaleFollows, ReleaseFollows, HealFollows,
       InstanceFollows, CrashFollows DEF Next, OperationStep, Late
-----------------------------------------------------------------------------
(* What touches a process *)

\* The agent's answer to the operation that waits for it.
Touched ==
    \/ /\ op.pc \in AwaitsStart
       /\ \E reply \in Replies("start") : AgentReplies("start", op.row, reply)
    \/ /\ op.pc = "stop_stop"
       /\ \E reply \in Replies("stop") : AgentReplies("stop", op.row, reply)
    \/ /\ op.pc \in AwaitsStop \ {"stop_stop"}
       /\ \E reply \in Replies("stop") : AgentReplies("stop", Head(op.todo), reply)

\* Only an answer, or a command nobody waits for, touches a process.
LEMMA NextTouches ==
  ASSUME [Next]_vars
  PROVE  UNCHANGED proc \/ LateCommand \/ Touched
  <1>1. CASE Request
    <2>1. ASSUME NEW target, StartScale(target) PROVE UNCHANGED proc
      BY <2>1 DEF StartScale, agent
    <2>2. ASSUME NEW i, RestartInstance(i) \/ StopInstance(i) PROVE UNCHANGED proc
      BY <2>2 DEF RestartInstance, StopInstance, agent
    <2>3. ASSUME NEW release, StartRollback(release) PROVE UNCHANGED proc
      BY <2>3 DEF StartRollback, agent
    <2>4. CASE Refuse \/ StartDeployment \/ StartNewRelease
      BY <2>4 DEF Refuse, StartDeployment, StartNewRelease, agent, vars
    <2> QED
      BY <1>1, <2>1, <2>2, <2>3, <2>4 DEF Request
  <1>2. CASE Monitor
    BY ZenonT(30), <1>2 DEF Monitor, Poll, Heal, PollEnds, agent
  <1>3. CASE DeploymentStep
    BY <1>3 DEF DeploymentStep, DeployBuilt, DeployStarted, DeploySynced, agent, Touched, AwaitsStart
  <1>4. CASE ScaleStep
    BY ZenonT(30), <1>4 DEF ScaleStep, ScaleUpNext, ScaleUpStarted, ScaleUpChecked, ScaleDownSynced,
                ScaleSynced, ScaleDownStopped, ScaleDone, Raise, agent, Touched, AwaitsStart, AwaitsStop
  <1>5. CASE ReleaseStep
    BY <1>5 DEF ReleaseStep, ReleaseBuilt, GateNext, GateStarted, GateChecked, AbortStopped,
                DrainStopped, SwitchSynced, DrainOldRelease, PruneRelease, PruneEnds, agent, Touched,
                AwaitsStart, AwaitsStop
  <1>6. CASE HealStep
    BY <1>6 DEF HealStep, HealSynced, HealedSynced, HealDecides, HealStarted, ReplaceStarted,
                HealChecked, ReplaceChecked, Replace, GiveUp, CoolingDown, Raise, agent, Touched,
                AwaitsStart
  <1>7. CASE InstanceStep
    BY <1>7 DEF InstanceStep, RestartSynced, RestartedSynced, StopSynced, RestartStarted,
                StopStopped, agent, Touched, AwaitsStart
  <1>8. CASE Late
    BY <1>8 DEF Late, LateReload, ManualSync, agent
  <1>9. CASE CrashAndReconcile
    BY <1>9 DEF CrashAndReconcile
  <1>10. CASE UNCHANGED vars
    BY <1>10 DEF vars
  <1> QED
    BY <1>1, <1>2, <1>3, <1>4, <1>5, <1>6, <1>7, <1>8, <1>9, <1>10 DEF Next, OperationStep

\* The row whose process the agent starts or stops is not in the upstream.
LEMMA TouchesUnrouted ==
  ASSUME FleetInv, Calm, [Next]_vars
  PROVE  \A p \in routed : proc'[p] = proc[p]
  <1>0. /\ Types /\ PortsApart /\ RoutesFit /\ RowFits /\ ListsFit /\ op \in Op
        /\ routed \subseteq Ports /\ late = {}
    BY CalmIsMore DEF FleetInv, Types, Own
  <1>1. CASE UNCHANGED proc \/ LateCommand
    BY <1>0, <1>1 DEF LateCommand
  <1>2. CASE Touched
    <2>1. PICK i \in Rows :
            /\ \E type \in {"start", "stop"} : \E reply \in Replies(type) :
                 AgentReplies(type, i, reply)
            /\ rows[i].status \notin Dead /\ ~RouteFits(rows[i].port, i)
      <3>1. CASE op.pc \in AwaitsStart
        <4>1. PICK reply \in Replies("start") : AgentReplies("start", op.row, reply)
          BY <1>2, <3>1 DEF Touched, AwaitsStart, AwaitsStop
        <4>2. /\ op.row \in Rows /\ rows[op.row].status \in {"starting", "restarting"}
              /\ rows[op.row].status = "restarting" => op.pc \in CurrentAt
          BY <1>0, <3>1 DEF RowFits, AwaitsStart
        <4>3. rows[op.row].status \notin Dead /\ ~RouteFits(rows[op.row].port, op.row)
          BY <4>2 DEF RouteFits, Serves, Dead
        <4> QED
          BY <4>1, <4>2, <4>3
      <3>2. CASE op.pc = "stop_stop"
        <4>1. PICK reply \in Replies("stop") : AgentReplies("stop", op.row, reply)
          BY <1>2, <3>2 DEF Touched, AwaitsStart
        <4>2. op.row \in Rows /\ rows[op.row].status = "draining"
          BY <1>0, <3>2 DEF RowFits
        <4>3. rows[op.row].status \notin Dead /\ ~RouteFits(rows[op.row].port, op.row)
          BY <3>2, <4>2 DEF RouteFits, Serves, Dead
        <4> QED
          BY <4>1, <4>2, <4>3
      <3>3. CASE op.pc \in AwaitsStop \ {"stop_stop"}
        <4>0. PICK i : i = Head(op.todo)
          OBVIOUS
        <4>1. PICK reply \in Replies("stop") : AgentReplies("stop", i, reply)
          BY <1>2, <3>3, <4>0 DEF Touched, AwaitsStart, AwaitsStop
        <4>2. /\ op.todo # <<>> /\ op.todo \in Seq(Nat)
              /\ op.pc # "abort_stop" => Listed(op.todo, "draining")
              /\ op.pc = "abort_stop" => Listed(op.todo, "running")
          BY <1>0, <3>3 DEF ListsFit, AwaitsStop, Op
        <4>3. i = op.todo[1] /\ 1 \in DOMAIN op.todo
          BY <4>0, <4>2
        <4>4. /\ i \in Rows /\ rows[i].status \in {"running", "draining"}
              /\ op.pc # "abort_stop" => rows[i].status = "draining"
          BY <4>2, <4>3 DEF Listed
        <4>5. rows[i].status \notin Dead /\ ~RouteFits(rows[i].port, i)
          BY <3>3, <4>3, <4>4 DEF RouteFits, Serves, Dead, AwaitsStop
        <4> QED
          BY <4>1, <4>4, <4>5
      <3> QED
        BY <1>2, <3>1, <3>2, <3>3 DEF Touched
    <2>2. rows[i].port \notin routed
      BY <1>0, <2>1, NotRouted
    <2>3. \A p \in Ports : p # rows[i].port => proc'[p] = proc[p]
      BY <2>1, AgentStep
    <2> QED
      BY <1>0, <2>2, <2>3
  <1> QED
    BY <1>1, <1>2, NextTouches
-----------------------------------------------------------------------------
(* Counting *)

INSTANCE FiniteSetTheorems

Above(s, i) == {j \in s : j > i}

LEMMA AboveCount ==
  ASSUME NEW s \in SUBSET Nat, IsFiniteSet(s), NEW i \in s
  PROVE  /\ IsFiniteSet(Above(s, i))
         /\ Cardinality(Above(s, i)) \in 0..(Cardinality(s) - 1)
  <1>1. Above(s, i) \in SUBSET (s \ {i})
    BY DEF Above
  <1>2. /\ IsFiniteSet(s \ {i}) /\ Cardinality(s) \in Nat
        /\ Cardinality(s \ {i}) = Cardinality(s) - 1
    BY ZenonT(30), FS_RemoveElement, FS_CardinalityType
  <1>3. /\ IsFiniteSet(Above(s, i))
        /\ Cardinality(Above(s, i)) <= Cardinality(s \ {i})
    BY <1>1, <1>2, FS_Subset
  <1> QED
    BY <1>2, <1>3, FS_CardinalityType

LEMMA AboveDiffers ==
  ASSUME NEW s \in SUBSET Nat, IsFiniteSet(s), NEW i \in s, NEW j \in s, i < j
  PROVE  Cardinality(Above(s, i)) # Cardinality(Above(s, j))
  <1>1. j \in Above(s, i) /\ j \notin Above(s, j)
    BY DEF Above
  <1>2. \A x \in s : x > j => x > i
    OBVIOUS
  <1>3. Above(s, j) \in SUBSET Above(s, i)
    BY ZenonT(30), <1>2 DEF Above
  <1> QED
    BY <1>1, <1>3, AboveCount, FS_Subset

\* Every position from 1 to the size of the set is that of one of its members.
LEMMA Ranked ==
  ASSUME NEW s \in SUBSET Nat, IsFiniteSet(s), NEW k \in 1..Cardinality(s)
  PROVE  \E i \in s : Cardinality(Above(s, i)) = k - 1
  <1> DEFINE n == Cardinality(s)
             rank == [i \in s |-> Cardinality(Above(s, i))]
  <1>1. n \in Nat
    BY FS_CardinalityType
  <1>2. IsFiniteSet(0..(n - 1)) /\ Cardinality(0..(n - 1)) = n
    <2>1. 0 \in Int /\ n - 1 \in Int /\ (0 > n - 1 => n = 0) /\ (n - 1) - 0 + 1 = n
      BY <1>1
    <2> QED
      BY <2>1, FS_Interval
  <1>3. rank \in [s -> 0..(n - 1)]
    BY AboveCount
  <1>4. \A i, j \in s : rank[i] = rank[j] => i = j
    <2> SUFFICES ASSUME NEW i \in s, NEW j \in s, i # j PROVE rank[i] # rank[j]
      OBVIOUS
    <2>1. i < j \/ j < i
      OBVIOUS
    <2> QED
      BY <2>1, AboveDiffers
  <1>5. rank \in Injection(s, 0..(n - 1))
    BY <1>3, <1>4 DEF Injection, IsInjective
  <1>6. rank \in Surjection(s, 0..(n - 1))
    BY <1>1, <1>2, <1>5, FS_Injection
  <1>7. \A m \in 0..(n - 1) : \E i \in s : rank[i] = m
    BY ZenonT(30), <1>6 DEF Surjection
  <1>8. k - 1 \in 0..(n - 1)
    BY <1>1
  <1> QED
    BY <1>7, <1>8

LEMMA Maximum ==
  ASSUME NEW s \in SUBSET Nat, IsFiniteSet(s), s # {}
  PROVE  \E i \in s : \A j \in s : j <= i
  <1>1. Cardinality(s) \in Nat /\ 1 \in 1..Cardinality(s)
    BY FS_CardinalityType, FS_EmptySet
  <1>2. PICK i \in s : Cardinality(Above(s, i)) = 0
    BY <1>1, Ranked
  <1>3. Above(s, i) = {}
    BY <1>2, AboveCount, FS_EmptySet
  <1> QED
    BY <1>3 DEF Above

LEMMA Minimum ==
  ASSUME NEW s \in SUBSET Nat, IsFiniteSet(s), s # {}
  PROVE  \E i \in s : \A j \in s : i <= j
  <1>1. Cardinality(s) \in Nat /\ Cardinality(s) \in 1..Cardinality(s)
    BY FS_CardinalityType, FS_EmptySet
  <1>2. PICK i \in s : Cardinality(Above(s, i)) = Cardinality(s) - 1
    BY <1>1, Ranked
  <1>3. Above(s, i) \in SUBSET (s \ {i})
    BY DEF Above
  <1>4. IsFiniteSet(s \ {i}) /\ Cardinality(s \ {i}) = Cardinality(s) - 1
    BY FS_RemoveElement
  <1>5. Above(s, i) = s \ {i}
    BY <1>2, <1>3, <1>4, FS_Subset
  <1> QED
    BY <1>5 DEF Above

\* NewestFirst lists the n newest of a set, each once.
LEMMA Newest ==
  ASSUME NEW s \in SUBSET Nat, IsFiniteSet(s), NEW n \in 0..Cardinality(s)
  PROVE  /\ NewestFirst(s, n) \in [1..n -> s]
         /\ \A k, l \in 1..n : NewestFirst(s, n)[k] = NewestFirst(s, n)[l] => k = l
  <1>1. Cardinality(s) \in Nat
    BY FS_CardinalityType
  <1>2. \A k \in 1..n : /\ NewestFirst(s, n)[k] \in s
                        /\ Cardinality(Above(s, NewestFirst(s, n)[k])) = k - 1
    <2> SUFFICES ASSUME NEW k \in 1..n
                 PROVE  /\ NewestFirst(s, n)[k] \in s
                        /\ Cardinality(Above(s, NewestFirst(s, n)[k])) = k - 1
      OBVIOUS
    <2>1. \E i \in s : Cardinality(Above(s, i)) = k - 1
      BY <1>1, Ranked
    <2>2. NewestFirst(s, n)[k] = CHOOSE i \in s : Cardinality(Above(s, i)) = k - 1
      BY ZenonT(30) DEF NewestFirst, Above
    <2> QED
      BY <2>1, <2>2
  <1>3. NewestFirst(s, n) \in [1..n -> s]
    BY ZenonT(30), <1>2 DEF NewestFirst
  <1> QED
    BY <1>2, <1>3

LEMMA SetsAreSized == Counting
  <1> SUFFICES ASSUME NEW n \in Nat, NEW s \in SUBSET (1..n)
               PROVE  Sized(s) /\ Divided(s) /\ NewestListed(s)
    BY DEF Counting
  <1>1. IsFiniteSet(s) /\ Cardinality(s) \in Nat /\ s \in SUBSET Nat
    <2>1. 1 \in Int /\ n \in Int
      OBVIOUS
    <2>2. IsFiniteSet(1..n)
      BY <2>1, FS_Interval
    <2>3. IsFiniteSet(s)
      BY ZenonT(30), <2>2, FS_Subset
    <2> QED
      BY <2>3, FS_CardinalityType
  <1>2. s # {} => /\ Cardinality(s) # 0
                  /\ \E i \in s : \A j \in s : i <= j
                  /\ \E i \in s : \A j \in s : j <= i
    BY <1>1, Minimum, Maximum, FS_EmptySet
  <1>3. \A i \in Nat \ s : Cardinality(s \cup {i}) = Cardinality(s) + 1
    BY <1>1, FS_AddElement
  <1>4. ASSUME NEW m \in 0..Cardinality(s)
        PROVE  ListsOf(NewestFirst(s, m), s, m)
    <2>1. PICK list : list = NewestFirst(s, m)
      OBVIOUS
    <2>2. list \in [1..m -> s] /\ \A k, l \in 1..m : list[k] = list[l] => k = l
      BY <1>1, <1>4, <2>1, Newest
    <2>3. PICK all : all = {list[k] : k \in 1..m}
      BY ZenonT(30)
    <2>4. list \in Surjection(1..m, all) /\ list \in Injection(1..m, all)
      BY ZenonT(30), <2>2, <2>3 DEF Surjection, Injection, IsInjective
    <2>5. IsFiniteSet(1..m) /\ Cardinality(1..m) = m
      <3>1. 1 \in Int /\ m \in Int /\ (1 > m => m = 0) /\ m - 1 + 1 = m
        BY <1>1, <1>4
      <3> QED
        BY <3>1, FS_Interval
    <2>6. Cardinality(all) = m
      BY <2>4, <2>5, FS_Surjection
    <2> QED
      BY <2>1, <2>2, <2>3, <2>6 DEF ListsOf
  <1>5. ASSUME NEW d \in SUBSET s
        PROVE  /\ Cardinality(d) \in 0..Cardinality(s)
               /\ Cardinality(d) = Cardinality(s) => d = s
               /\ Cardinality(s \ d) = Cardinality(s) - Cardinality(d)
    <2>1. /\ IsFiniteSet(d) /\ Cardinality(d) <= Cardinality(s)
          /\ Cardinality(d) = Cardinality(s) => d = s
      BY ZenonT(30), <1>1, FS_Subset
    <2>2. Cardinality(d) \in Nat
      BY <2>1, FS_CardinalityType
    <2>3. s \cap d = d
      BY ZenonT(30)
    <2>4. Cardinality(s \ d) = Cardinality(s) - Cardinality(s \cap d)
      BY ZenonT(30), <1>1, FS_Difference
    <2> QED
      BY <1>1, <2>1, <2>2, <2>3, <2>4
  <1> QED
    BY <1>1, <1>2, <1>3, <1>4, <1>5 DEF Sized, Divided, NewestListed
-----------------------------------------------------------------------------
(* The invariant *)

LEMMA Begins == Init => FleetInv
  <1> SUFFICES ASSUME Init PROVE FleetInv
    OBVIOUS
  <1>0. rows = <<>> /\ rels = <<>> /\ op = Idle /\ Len(rows) = 0 /\ Rows = {}
    BY DEF Init, Rows
  <1>1. Types
    <2>1. /\ rows \in Seq(Row) /\ rels \in Seq(ReleaseStatus) /\ Len(rels) = 0
          /\ proc \in [Ports -> Nat] /\ op \in Op /\ dep \in DeploymentStatus
      BY <1>0, IdleFields DEF Init, DeploymentStatus
    <2>2. 1 \in 1..MaxReplicas /\ 0 <= MaxReleases
      BY FleetConstants
    <2> QED
      BY <2>1, <2>2 DEF Init, Types
  <1>2. PortsApart /\ RowFits /\ ListsFit /\ CountFits
    BY <1>0, IdleFields DEF Init, PortsApart, RowFits, ListsFit, CountFits
  <1>3. ReleasesFit
    BY <1>0, IdleFields DEF Init, ReleasesFit
  <1>4. Unmoved /\ Own /\ Underway /\ RoutesFit
    BY <1>0, IdleFields DEF Init, Unmoved, Own, OwnProcess, Underway, RoutesFit, AwaitsSync
  <1> QED
    BY <1>1, <1>2, <1>3, <1>4 DEF FleetInv

LEMMA NextKeeps ==
  ASSUME FleetInv, [Next]_vars
  PROVE  FleetInv'
  <1>1. CASE Request
    <2>1. CASE Refuse
      BY <2>1, StutterKeeps DEF Refuse
    <2>2. ASSUME NEW target \in 1..MaxReplicas, StartScale(target) PROVE FleetInv'
      BY <2>2, StartScaleStep, SetsAreSized
    <2>3. ASSUME NEW i \in Rows, RestartInstance(i) \/ StopInstance(i) PROVE FleetInv'
      BY <2>3, OutKeeps
    <2>4. ASSUME NEW release \in DOMAIN rels, StartRollback(release) PROVE FleetInv'
      BY <2>4, StartRollbackStep
    <2> QED
      BY <1>1, <2>1, <2>2, <2>3, <2>4, SetsAreSized, StartDeploymentStep, StartNewReleaseStep
      DEF Request
  <1>2. CASE Monitor
    BY <1>2, PollKeeps, OutKeeps DEF Monitor
  <1>3. CASE OperationStep
    BY <1>3, SetsAreSized, DeploymentKeeps, ScaleKeeps, ReleaseKeeps, HealStepKeeps, InstanceKeeps
    DEF OperationStep
  <1>4. CASE Late
    BY <1>4, LateKeeps
  <1>5. CASE CrashAndReconcile
    BY <1>5, CrashKeeps
  <1>6. CASE UNCHANGED vars
    BY <1>6, StutterKeeps
  <1> QED
    BY <1>1, <1>2, <1>3, <1>4, <1>5, <1>6 DEF Next

\* The inductive invariant: types, the unique index on ports, what each operation
\* has in hand at each of its awaits, and what holds when some faults are out.
THEOREM FleetInvariant == Spec => []FleetInv
  BY Begins, NextKeeps, PTL DEF Spec
-----------------------------------------------------------------------------
(* What follows from the invariant *)

\* Application.active_release_id names a release that was built and that
\* _prune_old_releases has kept, whatever order of deploys, rollbacks, rejected
\* switches, crashes and prunings led to it.
THEOREM ActiveReleaseIsBuilt == Spec => []ActiveIsBuilt
  <1>1. FleetInv => ActiveIsBuilt
    BY DEF FleetInv, ReleasesFit, Ready, ActiveIsBuilt
  <1> QED
    BY <1>1, FleetInvariant, PTL

\* When the agent answers every command in time, stops never fail and the control
\* plane is not restarted, the process on a RUNNING instance's port is its own:
\* _allocate_instance never hands a port to a second live instance, and no start
\* or stop touches the port of another.
THEOREM RunningIsOwnProcess ==
  ASSUME Answered
  PROVE  Spec => []OwnProcess
  <1>1. FleetInv => OwnProcess
    BY DEF FleetInv, Own
  <1> QED
    BY <1>1, FleetInvariant, PTL

\* When gates pass and instances can be stopped, an operation that is over, or
\* that a crash has ended and reconcile_on_startup has cleaned up, leaves no
\* IN_PROGRESS Deployment and no instance in a transient status, unless a first
\* deploy was interrupted while its instance was still PENDING.
THEOREM OverIsSettled ==
  ASSUME Decisive
  PROVE  Spec => []SettledUnlessPending
  <1>1. ASSUME FleetInv PROVE SettledUnlessPending
    <2> SUFFICES ASSUME \A i \in Rows : rows[i].status # "pending", op = Idle
                 PROVE  /\ dep # "in_progress"
                        /\ \A i \in Rows : rows[i].status \notin Transient
      BY DEF SettledUnlessPending, Settled
    <2>1. Underway /\ op.pc = "idle"
      BY <1>1, IdleFields DEF FleetInv, PendingLeft
    <2>2. \A i : ~Busy(i)
      BY <2>1 DEF Busy
    <2> QED
      BY <2>1, <2>2 DEF Underway, InDeploymentAt
  <1> QED
    BY <1>1, FleetInvariant, PTL

\* When only builds, starts and health checks fail and agents disconnect, Nginx
\* routes between operations only to RUNNING instances of the active release, and
\* to those a scale-down has left DRAINING: sync_gateway follows every change of
\* the rows that _build_reload_payload reads.
THEOREM RoutesFollowRows ==
  ASSUME Calm
  PROVE  Spec => []RoutesAreCurrent
  <1>1. ASSUME FleetInv PROVE RoutesAreCurrent
    <2> SUFFICES ASSUME op = Idle, NEW p \in routed
                 PROVE  p \in Upstreams(rows, active) \cup
                              {rows[i].port : i \in {j \in Rows : rows[j].status = "draining"}}
      BY DEF RoutesAreCurrent
    <2>1. PICK i : i = proc[p]
      OBVIOUS
    <2>2. op.pc = "idle" /\ RouteFits(p, i)
      BY <1>1, <2>1, IdleFields DEF FleetInv, RoutesFit
    <2>3. i \in Rows /\ rows[i].port = p /\ (Serves(i) \/ rows[i].status = "draining")
      BY <2>2 DEF RouteFits
    <2>4. Rows = DOMAIN rows
      BY <1>1 DEF FleetInv, Types, Rows
    <2> QED
      BY <2>3, <2>4 DEF Upstreams, Serves
  <1> QED
    BY <1>1, FleetInvariant, PTL

\* Under the same faults, every port that Nginx routes to has the process of an
\* instance that was RUNNING: nothing that is being started, has failed or was
\* stopped receives traffic, in the middle of an operation either.
THEOREM TrafficOnlyToGated ==
  ASSUME Calm
  PROVE  Spec => []TrafficIsGated
  <1>1. ASSUME FleetInv PROVE TrafficIsGated
    <2> SUFFICES ASSUME NEW p \in routed
                 PROVE  /\ proc[p] # 0
                        /\ rows[proc[p]].status \in
                             {"running", "unhealthy", "restarting", "draining"}
      BY DEF TrafficIsGated
    <2>1. RouteFits(p, proc[p])
      BY <1>1 DEF FleetInv, RoutesFit
    <2> QED
      BY <2>1 DEF RouteFits, Rows
  <1> QED
    BY <1>1, FleetInvariant, PTL
-----------------------------------------------------------------------------
(* What a step may not do *)

\* When only builds, starts and health checks fail and agents disconnect, no step
\* stops or replaces a process that Nginx routes to: scale-down, switch, stop,
\* restart and healing take an instance out of the upstream first.
THEOREM RoutedIsLeftAlone ==
  ASSUME Calm
  PROVE  Spec => NeverStopRouted
  <1>1. FleetInv /\ [Next]_vars
          => [\A p \in routed : proc[p] # 0 => proc'[p] = proc[p]]_vars
    BY TouchesUnrouted
  <1> QED
    BY <1>1, FleetInvariant, PTL DEF Spec, NeverStopRouted

\* A scale that run_scale reports SUCCEEDED leaves exactly desired_replicas live
\* instances, whatever else fails and wherever the control plane is restarted.
THEOREM ScaleLeavesTarget == Spec => ScaleMeetsTarget
  <1>1. ASSUME FleetInv, [Next]_vars, op.pc = "scale_sync", dep' = "succeeded"
        PROVE  Cardinality(Live') = desired'
    <2>0. op # Idle /\ dep = "in_progress" /\ Cardinality(Live) = desired
      BY <1>1, IdleFields DEF FleetInv, CountFits
    <2>1. CASE Request
      BY <1>1, <2>0, <2>1 DEF Request, Refuse, StartDeployment, StartScale, StartNewRelease,
                              StartRollback, RestartInstance, StopInstance
    <2>2. CASE Monitor \/ Late
      BY <1>1, <2>0, <2>2 DEF Monitor, Poll, PollEnds, Heal, Late, LateCommand, LateReload,
                              ManualSync
    <2>3. CASE ScaleStep
      BY <1>1, <2>0, <2>3 DEF ScaleStep, ScaleUpNext, ScaleUpStarted, ScaleUpChecked,
         ScaleDownSynced, ScaleSynced, ScaleDownStopped, ScaleDone, Live, Rows, db
    <2>4. CASE DeploymentStep \/ InstanceStep
      BY <1>1, <2>4 DEF DeploymentStep, DeployBuilt, DeployStarted, DeploySynced, InstanceStep,
         RestartSynced, RestartedSynced, StopSynced, RestartStarted, StopStopped
    <2>5. CASE ReleaseStep
      BY <1>1, <2>5 DEF ReleaseStep, ReleaseBuilt, GateNext, GateStarted, GateChecked,
         AbortStopped, DrainStopped, SwitchSynced, DrainOldRelease, PruneRelease, PruneEnds
    <2>6. CASE HealStep
      BY <1>1, <2>6 DEF HealStep, HealSynced, HealedSynced, HealDecides, HealStarted,
         ReplaceStarted, HealChecked, ReplaceChecked, Replace
    <2>7. CASE CrashAndReconcile \/ UNCHANGED vars
      BY <1>1, <2>0, <2>7 DEF CrashAndReconcile, vars
    <2> QED
      BY <1>1, <2>1, <2>2, <2>3, <2>4, <2>5, <2>6, <2>7 DEF Next, OperationStep
  <1>2. FleetInv /\ [Next]_vars
          => [op.pc = "scale_sync" /\ dep' = "succeeded" => Cardinality(Live') = desired']_vars
    BY <1>1
  <1> QED
    BY <1>2, FleetInvariant, PTL DEF Spec, ScaleMeetsTarget

\* When every reload is answered in time, nobody asks for one, and the control
\* plane is not restarted, a blue-green switch that ends before it has drained the
\* old release leaves the active release and the upstream as it found them.
THEOREM FailedSwitchIsUndone ==
  ASSUME Orderly
  PROVE  Spec => FailedSwitchChangesNothing
  <1>1. ASSUME FleetInv, [Next]_vars, op.pc \in SwitchingAt, op' = Idle
        PROVE  active' = op.before /\ routed' = op.was
    <2>0. /\ op # Idle /\ routed = op.was /\ (op.pc # "switch_sync" => active = op.before)
          /\ op \in Op /\ op'.pc = "idle"
      BY <1>1, IdleFields DEF FleetInv, Unmoved, ReleasesFit, Types
    <2>1. CASE Request
      BY ZenonT(30), <1>1, <2>0, <2>1 DEF Request, Refuse, StartDeployment, StartScale, StartNewRelease,
                              StartRollback, RestartInstance, StopInstance, vars
    <2>2. CASE Monitor \/ Late
      BY ZenonT(30), <1>1, <2>0, <2>2 DEF Monitor, Poll, PollEnds, Heal, Late, LateCommand, LateReload,
                              ManualSync
    <2>3. CASE ScaleStep
      BY ZenonT(30), <1>1, <2>3 DEF ScaleStep, ScaleUpNext, ScaleUpStarted, ScaleUpChecked,
         ScaleDownSynced, ScaleSynced, ScaleDownStopped, ScaleDone
    <2>4. CASE DeploymentStep \/ InstanceStep
      BY <1>1, <2>4 DEF DeploymentStep, DeployBuilt, DeployStarted, DeploySynced, InstanceStep,
         RestartSynced, RestartedSynced, StopSynced, RestartStarted, StopStopped
    <2>5. CASE ReleaseStep
      <3>1. CASE op.pc = "switch_sync"
        <4>1. PICK reply \in SyncReplies : SwitchSynced(reply)
          BY <2>5, <3>1 DEF ReleaseStep, ReleaseBuilt, GateNext, GateStarted, GateChecked,
             AbortStopped, DrainStopped, DrainOldRelease, PruneRelease, PruneEnds
        <4>2. reply # "ok"
          <5>1. reply = "ok" => op' = [op EXCEPT !.pc = "drain"]
            BY <4>1 DEF SwitchSynced
          <5>2. reply = "ok" => op'.pc = "drain"
            BY <2>0, <5>1 DEF Op
          <5> QED
            BY <2>0, <5>2
        <4> QED
          BY <2>0, <4>1, <4>2 DEF SwitchSynced, GatewayReplies, SyncReplies, Orderly, gateway
      <3>2. CASE op.pc # "switch_sync"
        <4>1. routed' = routed
          BY <2>5, <3>2 DEF ReleaseStep, ReleaseBuilt, GateNext, GateStarted, GateChecked,
             AbortStopped, DrainStopped, SwitchSynced, DrainOldRelease, PruneRelease, PruneEnds, gateway
        <4>2. active' = active
          <5>1. CASE GateNext
            <6>1. Sync("switch_sync") => op'.pc = "switch_sync"
              BY <2>0 DEF Sync, Op
            <6> QED
              BY <2>0, <5>1, <6>1 DEF GateNext
          <5> QED
            BY <1>1, <2>5, <3>2, <5>1 DEF ReleaseStep, ReleaseBuilt, GateStarted, GateChecked,
               AbortStopped, DrainStopped, SwitchSynced, DrainOldRelease, PruneRelease, PruneEnds, db
        <4> QED
          BY <2>0, <3>2, <4>1, <4>2
      <3> QED
        BY <3>1, <3>2
    <2>6. CASE HealStep
      BY <1>1, <2>6 DEF HealStep, HealSynced, HealedSynced, HealDecides, HealStarted,
         ReplaceStarted, HealChecked, ReplaceChecked, Replace
    <2>7. CASE CrashAndReconcile \/ UNCHANGED vars
      BY <1>1, <2>0, <2>7 DEF CrashAndReconcile, vars, Orderly
    <2> QED
      BY <1>1, <2>1, <2>2, <2>3, <2>4, <2>5, <2>6, <2>7 DEF Next, OperationStep
  <1>2. FleetInv /\ [Next]_vars
          => [op.pc \in {"switch_build", "gate_next", "gate_start", "gate_health",
                         "abort_stop", "switch_sync"} /\ op' = Idle
                => active' = op.before /\ routed' = op.was]_vars
    BY <1>1
  <1> QED
    BY <1>2, FleetInvariant, PTL DEF Spec, FailedSwitchChangesNothing
-----------------------------------------------------------------------------
(* What the rows tell *)

\* Whatever fails, and wherever the control plane is restarted, an instance's
\* status moves along the table of state_machines.py, its port stays, and nothing
\* brings back an instance that is STOPPED or FAILED.
THEOREM RowsKeepToTable == Spec => RowsFollowTable
  <1>1. FleetInv /\ [Next]_vars =>
          [\A i \in Rows : /\ rows'[i].port = rows[i].port
                           /\ \/ rows'[i].status = rows[i].status
                              \/ rows[i].status \notin Dead /\ May(i, rows'[i].status)]_vars
    BY ZenonT(30), NextFollows, SetsAreSized DEF RowsFollow, RowFollows
  <1> QED
    BY <1>1, FleetInvariant, PTL DEF Spec, RowsFollowTable

\* No start that nobody waits for is of a STOPPED row.
Gone ==
    /\ StoppedIsGone
    /\ \A c \in late : c[1] = "start" => c[2] \in Rows /\ rows[c[2]].status = "failed"

\* When the agent can stop what it is told to stop, the process of a STOPPED
\* instance is gone and stays gone: however late a start or a stop is carried out
\* and wherever the control plane is restarted, the only commands still on their
\* way are for instances that were given up as FAILED.
THEOREM StoppedStaysGone ==
  ASSUME CanStop
  PROVE  Spec => []StoppedIsGone
  <1>1. Init => Gone
    BY DEF Init, Gone, StoppedIsGone, Rows
  <1>2. ASSUME FleetInv, Gone, [Next]_vars PROVE Gone'
    <2>0. Types /\ RowsFollow
      BY <1>2, NextFollows, SetsAreSized DEF FleetInv
    <2>1. \A c \in late : c[1] = "start" => c[2] \in Rows' /\ rows'[c[2]].status = "failed"
      BY <1>2, <2>0 DEF RowsFollow, RowFollows, Gone, Dead
    <2>2. \A i \in Rows' : rows'[i].status = "stopped" =>
            i \in Rows /\ i # 0 /\ rows'[i].port = rows[i].port /\ rows[i].port \in Ports
      BY <2>0, RowTypes DEF RowsFollow, RowFollows, RowBegins, Rows
    <2>3. CASE ProcessesFollow
      <3>1. \A c \in late' : c[1] = "start" => c[2] \in Rows' /\ rows'[c[2]].status = "failed"
        BY <2>0, <2>1, <2>3 DEF ProcessesFollow, RowsFollow
      <3>2. ASSUME NEW i \in Rows', rows'[i].status = "stopped", proc'[rows'[i].port] = i
            PROVE  FALSE
        <4>1. rows[i].status = "stopped"
          BY <2>2, <2>3, <3>2 DEF ProcessesFollow
        <4>2. proc[rows[i].port] # i
          BY <1>2, <2>2, <3>2, <4>1 DEF Gone, StoppedIsGone
        <4> QED
          BY <2>2, <2>3, <3>2, <4>2 DEF ProcessesFollow
      <3> QED
        BY <3>1, <3>2 DEF Gone, StoppedIsGone
    <2>4. CASE LateCommand
      <3>1. rows' = rows /\ Rows' = Rows
        BY <2>4 DEF LateCommand, Rows
      <3>2. PICK c \in late : proc' \in Attempts(c[1], c[2]) /\ late' = late \ {c}
        BY <2>4 DEF LateCommand
      <3>3. PICK type, j : c = <<type, j>> /\ type \in {"start", "stop"}
        BY <2>0, <3>2 DEF Types
      <3>4. \A p \in Ports : proc'[p] \in {proc[p], 0} \/ (type = "start" /\ proc'[p] = j)
        BY <2>0, <3>2, <3>3 DEF Types, Attempts, Done
      <3>5. type = "start" => rows[j].status = "failed"
        BY <1>2, <3>2, <3>3 DEF Gone
      <3> QED
        BY <1>2, <2>2, <3>1, <3>2, <3>4, <3>5 DEF Gone, StoppedIsGone
    <2> QED
      BY <2>0, <2>3, <2>4 DEF RowsFollow
  <1>3. Gone => StoppedIsGone
    BY DEF Gone
  <1> QED
    BY <1>1, <1>2, <1>3, FleetInvariant, PTL DEF Spec

\* Only the row of a first deploy that is being built is PENDING.
PendingIsBuilt ==
    \A i \in Rows : rows[i].status = "pending" => op.pc = "deploy_build" /\ op.row = i

\* When gates pass, instances can be stopped and the control plane is not
\* restarted, an operation that is over leaves no IN_PROGRESS Deployment and no
\* instance in a transient status.
THEOREM OverIsAllSettled ==
  ASSUME Decisive, "crash" \notin Faults
  PROVE  Spec => []Settled
  <1>1. Init => PendingIsBuilt
    BY DEF Init, PendingIsBuilt, Rows
  <1>2. ASSUME FleetInv, PendingIsBuilt, [Next]_vars PROVE PendingIsBuilt'
    <2>0. RowsFollow /\ RowFits
      BY <1>2, NextFollows, SetsAreSized DEF FleetInv
    <2>1. \A i \in Rows : rows'[i].status = "pending" => rows[i].status = "pending"
      <3>1. \A i \in Rows : ~May(i, "pending")
        BY <1>2, RowTypes DEF FleetInv, May, CanTransition, InstanceTransitions, InstanceStatus
      <3> QED
        BY <2>0, <3>1 DEF RowsFollow, RowFollows
    <2>2. op.pc = "deploy_build" => op' = op \/ rows'[op.row].status # "pending"
      BY <1>2, BuildEnds
    <2> QED
      BY <1>2, <2>0, <2>1, <2>2 DEF PendingIsBuilt, RowsFollow, RowBegins
  <1>3. SettledUnlessPending /\ PendingIsBuilt => Settled
    BY IdleFields DEF SettledUnlessPending, PendingIsBuilt, Settled
  <1>4. Spec => []SettledUnlessPending
    BY OverIsSettled
  <1> QED
    BY <1>1, <1>2, <1>3, <1>4, FleetInvariant, PTL DEF Spec

\* When only builds and starts fail and agents disconnect, Nginx routes between
\* operations to RUNNING instances of the active release and to nothing else.
THEOREM RoutesAreExact ==
  ASSUME Calm, "unhealthy" \notin Faults
  PROVE  Spec => []RoutesAreUpstreams
  <1>1. Decisive /\ "crash" \notin Faults
    BY DEF Calm, Decisive
  <1>2. Spec => []RoutesAreCurrent
    BY RoutesFollowRows
  <1>3. Spec => []Settled
    BY <1>1, OverIsAllSettled
  <1>4. RoutesAreCurrent /\ Settled => RoutesAreUpstreams
    BY DEF RoutesAreCurrent, Settled, RoutesAreUpstreams, Transient
  <1> QED
    BY <1>2, <1>3, <1>4, PTL
-----------------------------------------------------------------------------
(* What an aborted switch stops *)

\* A process is on the port of its row, and at each stop of an abort those that
\* passed the gate are still to be stopped, or gone.
OnOwnPort ==
    \A p \in Ports : proc[p] # 0 => proc[p] \in Rows /\ rows[proc[p]].port = p

StoppedSoFar ==
    op.pc = "abort_stop" =>
      \A k \in DOMAIN op.new :
        \/ \E l \in DOMAIN op.todo : op.todo[l] = op.new[k]
        \/ op.new[k] \in Rows /\ proc[rows[op.new[k]].port] # op.new[k]

\* Only a start of a row puts its process on a port, the port of the row.
LEMMA OnOwnPortKept ==
  ASSUME FleetInv, OnOwnPort, Answered, [Next]_vars
  PROVE  OnOwnPort'
  <1>0. /\ Types /\ RowsFollow /\ late = {} /\ RowFits /\ ListsFit /\ op \in Op
        /\ \A i \in Rows : i \in Rows' /\ rows'[i].port = rows[i].port
    BY NextFollows, SetsAreSized DEF FleetInv, Own, RowsFollow, RowFollows, Types
  <1>1. CASE UNCHANGED proc
    BY <1>0, <1>1 DEF OnOwnPort
  <1>2. CASE Touched
    <2>1. PICK i \in Rows, type \in {"start", "stop"} : \E reply : AgentReplies(type, i, reply)
      <3>1. CASE op.pc \in AwaitsStart \cup {"stop_stop"}
        <4>1. op.row \in Rows
          BY <1>0, <3>1 DEF RowFits, AwaitsStart
        <4> QED
          BY <1>2, <3>1, <4>1 DEF Touched, AwaitsStart, AwaitsStop
      <3>2. CASE op.pc \in AwaitsStop \ {"stop_stop"}
        <4>1. Head(op.todo) \in Rows
          BY <1>0, <3>2, HeadListed DEF ListsFit, AwaitsStop
        <4> QED
          BY <1>2, <3>2, <4>1 DEF Touched, AwaitsStart, AwaitsStop
      <3> QED
        BY <1>2, <3>1, <3>2 DEF Touched
    <2>2. \A p \in Ports : proc'[p] \in {0, proc[p]} \/ (proc'[p] = i /\ p = rows[i].port)
      BY <1>0, <2>1 DEF AgentReplies, Attempts, Done, Types
    <2> QED
      BY ZenonT(30), <1>0, <2>1, <2>2 DEF OnOwnPort
  <1>3. ~LateCommand
    BY <1>0 DEF LateCommand
  <1> QED
    BY <1>1, <1>2, <1>3, NextTouches

\* One stop of an abort.
LEMMA AbortStops ==
  ASSUME FleetInv, StoppedSoFar, Answered, RowsFollow,
         NEW reply \in Replies("stop"), AbortStopped(reply)
  PROVE  /\ op' = Idle \/ (op'.pc = "abort_stop" /\ op'.new = op.new /\ op'.todo = Tail(op.todo))
         /\ op' = Idle => Len(op.todo) = 1
         /\ \A k \in DOMAIN op.new :
              \/ \E l \in DOMAIN Tail(op.todo) : Tail(op.todo)[l] = op.new[k]
              \/ op.new[k] \in Rows' /\ proc'[rows'[op.new[k]].port] # op.new[k]
  <1>0. /\ Types /\ op \in Op /\ op.pc = "abort_stop" /\ op.todo # <<>> /\ op.todo \in Seq(Nat)
        /\ Listed(op.todo, "running")
        /\ \A i \in Rows : i \in Rows' /\ rows'[i].port = rows[i].port
    BY DEF FleetInv, Types, Op, ListsFit, AbortStopped, RowsFollow, RowFollows
  <1>1. PICK i : i = Head(op.todo)
    OBVIOUS
  <1>2. /\ i = op.todo[1] /\ i \in Rows /\ rows[i].status = "running" /\ rows[i].port \in Ports
        /\ i # 0
    BY <1>0, <1>1, HeadListed, RowTypes DEF Rows
  <1>3. reply = "ok"
    BY AgentAnswers DEF Answered
  <1>4. proc' = [proc EXCEPT ![rows[i].port] = 0]
    BY <1>1, <1>3 DEF AbortStopped, AgentReplies, Done
  <1>5. May(i, "stopped")
    BY <1>2, Edges DEF May, InstanceStatus
  <1>6. /\ op' = Idle \/ (op'.pc = "abort_stop" /\ op'.new = op.new /\ op'.todo = Tail(op.todo))
        /\ op' = Idle => Len(op.todo) = 1
    <2>1. \/ op' = Idle /\ Len(op.todo) = 1
          \/ op' = [op EXCEPT !.todo = Tail(op.todo)]
      BY <1>1, <1>3, <1>5 DEF AbortStopped, End
    <2> QED
      BY <1>0, <2>1, IdleFields DEF Op
  <1>7. ASSUME NEW k \in DOMAIN op.new,
               ~\E l \in DOMAIN Tail(op.todo) : Tail(op.todo)[l] = op.new[k]
        PROVE  op.new[k] \in Rows' /\ proc'[rows'[op.new[k]].port] # op.new[k]
    <2>1. \A l \in DOMAIN op.todo : l # 1 => op.todo[l] # op.new[k]
      <3> SUFFICES ASSUME NEW l \in DOMAIN op.todo, l # 1 PROVE op.todo[l] # op.new[k]
        OBVIOUS
      <3>1. l - 1 \in DOMAIN Tail(op.todo) /\ Tail(op.todo)[l - 1] = op.todo[l]
        BY <1>0
      <3> QED
        BY <1>7, <3>1
    <2>2. op.new[k] = i \/ (op.new[k] \in Rows /\ proc[rows[op.new[k]].port] # op.new[k])
      BY <1>0, <1>2, <2>1 DEF StoppedSoFar
    <2>3. PICK j : j = op.new[k] /\ j \in Rows /\ j # 0 /\ rows[j].port \in Ports
      BY <1>0, <1>2, <2>2, RowTypes DEF Rows
    <2>4. proc'[rows[j].port] # j
      BY <1>0, <1>2, <1>4, <2>2, <2>3 DEF Types
    <2> QED
      BY <1>0, <2>3, <2>4
  <1> QED
    BY <1>6, <1>7

\* Nothing follows the last entry of a list.
LEMMA NothingFollows ==
  ASSUME NEW list \in Seq(Nat), list # <<>>, Len(list) = 1
  PROVE  \A l \in DOMAIN Tail(list) : FALSE
  <1>1. Tail(list) \in Seq(Nat) /\ Len(Tail(list)) = Len(list) - 1
    OBVIOUS
  <1>2. Len(Tail(list)) = 0
    BY <1>1
  <1>3. DOMAIN Tail(list) = 1..Len(Tail(list))
    BY <1>1
  <1> SUFFICES ASSUME NEW l \in DOMAIN Tail(list)
               PROVE  FALSE
    OBVIOUS
  <1>4. l \in 1..0
    BY ZenonT(30), <1>2, <1>3
  <1> QED
    BY <1>4

\* When commands are answered in time, stops do not fail and the control plane is
\* not restarted, an aborted switch leaves no process of an instance that passed
\* its health gate, wherever the abort came from.
THEOREM AbortStopsTheGated ==
  ASSUME Answered
  PROVE  Spec => AbortStopsGated
  <1>0. "crash" \notin Faults
    BY DEF Answered
  <1>1. Init => OnOwnPort /\ StoppedSoFar
    BY IdleFields DEF Init, OnOwnPort, StoppedSoFar
  <1>2. ASSUME FleetInv, OnOwnPort, StoppedSoFar, [Next]_vars
        PROVE  OnOwnPort' /\ StoppedSoFar'
    <2>0. OnOwnPort' /\ RowsFollow
      BY <1>2, OnOwnPortKept, NextFollows, SetsAreSized
    <2>1. CASE op.pc # "abort_stop"
      BY <1>2, <2>0, <2>1, AbortBegins DEF StoppedSoFar
    <2>2. CASE op.pc = "abort_stop"
      <3>1. CASE \E reply \in Replies("stop") : AbortStopped(reply)
        <4>1. op' = Idle \/ (op'.pc = "abort_stop" /\ op'.new = op.new /\ op'.todo = Tail(op.todo))
          BY <1>2, <2>0, <3>1, AbortStops
        <4>2. \A k \in DOMAIN op.new :
                \/ \E l \in DOMAIN Tail(op.todo) : Tail(op.todo)[l] = op.new[k]
                \/ op.new[k] \in Rows' /\ proc'[rows'[op.new[k]].port] # op.new[k]
          BY <1>2, <2>0, <3>1, AbortStops
        <4> QED
          BY ZenonT(30), <2>0, <4>1, <4>2, IdleFields DEF StoppedSoFar
      <3>2. CASE op' = op /\ proc' = proc
        BY <1>2, <2>0, <2>2, <3>2 DEF StoppedSoFar, RowsFollow, RowFollows
      <3> QED
        BY <1>0, <1>2, <2>2, <3>1, <3>2, AbortGoesOn
    <2> QED
      BY <2>1, <2>2
  <1>3. ASSUME FleetInv, OnOwnPort, StoppedSoFar, [Next]_vars, op' = Idle,
               op.pc \in {"gate_next", "gate_start", "gate_health", "abort_stop", "switch_sync"},
               NEW p \in Ports, NEW k \in DOMAIN op.new
        PROVE  proc'[p] # op.new[k]
    <2>1. op.pc = "abort_stop" /\ op # Idle
      BY <1>0, <1>3, GateEnds, IdleFields
    <2>2. PICK reply \in Replies("stop") : AbortStopped(reply)
      BY <1>0, <1>3, <2>1, AbortGoesOn
    <2>3. RowsFollow /\ OnOwnPort'
      BY <1>3, OnOwnPortKept, NextFollows, SetsAreSized
    <2>4. Len(op.todo) = 1
      BY <1>3, <2>2, <2>3, AbortStops
    <2>5. \A l \in DOMAIN Tail(op.todo) : FALSE
      BY <1>3, <2>1, <2>4, NothingFollows DEF FleetInv, Types, Op, ListsFit
    <2>6. op.new[k] \in Rows' /\ proc'[rows'[op.new[k]].port] # op.new[k]
      BY <1>3, <2>2, <2>3, <2>5, AbortStops
    <2>7. op.new[k] # 0
      BY <2>6 DEF Rows
    <2> QED
      BY <2>3, <2>6, <2>7 DEF OnOwnPort
  <1>4. FleetInv /\ OnOwnPort /\ StoppedSoFar /\ [Next]_vars =>
          [op.pc \in {"gate_next", "gate_start", "gate_health", "abort_stop", "switch_sync"}
             /\ op' = Idle
             => \A p \in Ports : proc'[p] \notin {op.new[k] : k \in DOMAIN op.new}]_vars
    BY <1>3
  <1> QED
    BY <1>1, <1>2, <1>4, FleetInvariant, PTL DEF Spec, AbortStopsGated
=============================================================================
