------------------------- MODULE ControlPlaneProofs -------------------------
(***************************************************************************)
(* Theorems about four services that share no state: the gateway manager   *)
(* (GatewayManager), for any number of applications, threads, domains and  *)
(* upstreams; the tail of an instance's log (LogTail), for logs, limits    *)
(* and windows of any size; the history of its health (HealthGate), for    *)
(* any thresholds and any number of polls; and the lock of an application  *)
(* (OperationLock), for any number of tasks and any timeouts.              *)
(***************************************************************************)
EXTENDS OperationLock, HealthGate, LogTail, GatewayManager, TLAPS
-----------------------------------------------------------------------------
(* The gateway manager, with certificates that change, files that cannot   *)
(* be written and containers that restart.                                 *)

\* Whoever is inside apply() holds _apply_lock, and its holder is inside.
LockIsHeld ==
    /\ \A w \in Workers : work[w].pc \notin {"idle", "waiting"} <=> holder = w
    /\ \A w \in Workers : work[w] # Idle /\ work[w].ok => work[w].pc = "answer"

\* A stopped container has no threads and no signal.
StoppedIsIdle ==
    ~up => ~hup /\ holder = NoWorker /\ work = [w \in Workers |-> Idle]

\* What Restore will write is what Write replaces, and what it will replace is
\* what Write wrote.
OldIsKept ==
    \A w \in Workers :
        /\ work[w].pc = "write" => work[w].old = disk[work[w].app]
        /\ Unsettled(w) => work[w].new = disk[work[w].app]

\* Without a signal nginx serves the directory less the write that may yet be
\* undone.
CommittedIsServed == up /\ ~hup /\ ~disturbed => loaded = Committed

\* The inductive invariant.
GatewayInv ==
    /\ GatewayTypeOK
    /\ LockIsHeld
    /\ StoppedIsIdle
    /\ OldIsKept
    /\ CommittedIsServed

Calls == [pc : Steps, app : Apps, new : Files, old : Files, ok : BOOLEAN]

LEMMA AbsentIsFile == Absent \in Files
  <1>1. [domains |-> {}, upstreams |-> {}] \in Payloads
    BY GatewayConstants DEF Payloads
  <1> QED
    BY <1>1 DEF Files, Render, Absent

\* A thread past Request has all the fields of a call.
LEMMA BusyIsCall ==
  ASSUME GatewayTypeOK, NEW w \in Workers, work[w].pc # "idle"
  PROVE  work[w] \in Calls /\ work[w] # Idle
  BY DEF GatewayTypeOK, Idle, Calls

\* What the holder of the lock has written is committed when it can no longer be
\* undone.
CommittedIs ==
    /\ holder = NoWorker => Committed = disk
    /\ \A w \in Workers : holder = w =>
          Committed = IF Unsettled(w) THEN [disk EXCEPT ![work[w].app] = work[w].old] ELSE disk

LEMMA CommittedNow == GatewayTypeOK => CommittedIs
  BY GatewayConstants DEF GatewayTypeOK, CommittedIs, Committed, NoWorker

LEMMA CommittedNext == GatewayTypeOK' => CommittedIs'
  BY CommittedNow, PTL

LEMMA InitGatewayInv == GatewayInit => GatewayInv
  <1> SUFFICES ASSUME GatewayInit PROVE GatewayInv
    OBVIOUS
  <1>1. GatewayTypeOK
    BY ZenonT(30), AbsentIsFile, GatewayConstants DEF GatewayInit, GatewayTypeOK, NoWorker
  <1>2. CommittedIsServed
    BY <1>1, CommittedNow DEF GatewayInit, CommittedIsServed, CommittedIs
  <1> QED
    BY <1>1, <1>2, GatewayConstants DEF GatewayInit, GatewayInv, LockIsHeld, StoppedIsIdle,
       OldIsKept, Unsettled, Idle, NoWorker

LEMMA TypeStep == GatewayTypeOK /\ [GatewayNext]_gatewayVars => GatewayTypeOK'
  <1> SUFFICES ASSUME GatewayTypeOK, [GatewayNext]_gatewayVars PROVE GatewayTypeOK'
    OBVIOUS
  <1>1. ASSUME NEW w \in Workers, Request(w) PROVE GatewayTypeOK'
    BY <1>1, AbsentIsFile DEF Request, GatewayTypeOK, Files, Steps
  <1>2. ASSUME NEW w \in Workers, Apply(w) PROVE GatewayTypeOK'
    <2>1. work[w] \in Calls
      BY <1>2, BusyIsCall
      DEF Apply, Enter, Write, WriteRaises, Test, Reload, Restore, RestoreRaises, Retest, Return
    <2>2. CASE Enter(w) \/ Return(w)
      BY <2>1, <2>2 DEF Enter, Return, GatewayTypeOK, Calls, Steps
    <2>3. CASE Write(w) \/ Restore(w)
      BY <2>1, <2>3 DEF Write, Restore, GatewayTypeOK, Calls, Steps
    <2>4. CASE Test(w) \/ Retest(w)
      BY <2>1, <2>4 DEF Test, Retest, GatewayTypeOK, Calls, Steps
    <2>5. CASE Reload(w)
      <3>1. hup' \in BOOLEAN
        BY ZenonT(30), <2>5 DEF Reload, GatewayTypeOK
      <3>2. work' \in [Workers -> {Idle} \cup Calls]
        BY <2>1, <2>5 DEF Reload, GatewayTypeOK, Calls, Steps
      <3> QED
        BY ZenonT(30), <2>5, <3>1, <3>2 DEF Reload, GatewayTypeOK, Calls
    <2>6. CASE WriteRaises(w) \/ RestoreRaises(w)
      BY ZenonT(30), <2>1, <2>6 DEF WriteRaises, RestoreRaises, GatewayTypeOK, Calls, Steps
    <2> QED
      BY <1>2, <2>2, <2>3, <2>4, <2>5, <2>6 DEF Apply
  <1>3. ASSUME NEW d \in Domains, ChangeCert(d) PROVE GatewayTypeOK'
    BY <1>3 DEF ChangeCert, GatewayTypeOK
  <1>4. CASE MasterReload \/ ContainerDies \/ Start
    BY ZenonT(30), <1>4 DEF MasterReload, ContainerDies, Start, GatewayTypeOK
  <1>5. CASE UNCHANGED gatewayVars
    BY <1>5 DEF gatewayVars, GatewayTypeOK
  <1> QED
    BY <1>1, <1>2, <1>3, <1>4, <1>5 DEF GatewayNext

\* A step of one thread leaves the calls of the others alone.
LEMMA OthersUntouched ==
  ASSUME GatewayTypeOK, NEW w \in Workers, Request(w) \/ Apply(w)
  PROVE  \A v \in Workers : v # w => work'[v] = work[v]
  BY DEF GatewayTypeOK, Request, Apply, Enter, Write, WriteRaises, Test, Reload, Restore,
     RestoreRaises, Retest, Return

LEMMA LockStep == GatewayInv /\ [GatewayNext]_gatewayVars => LockIsHeld' /\ StoppedIsIdle'
  <1> SUFFICES ASSUME GatewayInv, [GatewayNext]_gatewayVars
               PROVE  LockIsHeld' /\ StoppedIsIdle'
    OBVIOUS
  <1> USE GatewayConstants DEF NoWorker
  <1>1. ASSUME NEW w \in Workers, Request(w) PROVE LockIsHeld' /\ StoppedIsIdle'
    BY <1>1, OthersUntouched DEF GatewayInv, LockIsHeld, StoppedIsIdle, Request, GatewayTypeOK, Idle
  <1>2. ASSUME NEW w \in Workers, Apply(w) PROVE LockIsHeld' /\ StoppedIsIdle'
    <2>1. work[w] \in Calls
      BY <1>2, BusyIsCall
      DEF GatewayInv, Apply, Enter, Write, WriteRaises, Test, Reload, Restore, RestoreRaises,
          Retest, Return
    <2>2. StoppedIsIdle'
      BY <1>2 DEF StoppedIsIdle, Apply, Enter, Write, WriteRaises, Test, Reload, Restore,
         RestoreRaises, Retest, Return
    <2>3. CASE Enter(w) \/ Return(w)
      BY <1>2, <2>1, <2>2, <2>3, OthersUntouched
      DEF GatewayInv, LockIsHeld, Enter, Return, GatewayTypeOK, Calls, Idle
    <2>4. CASE Write(w) \/ Restore(w)
      BY <1>2, <2>1, <2>2, <2>4, OthersUntouched
      DEF GatewayInv, LockIsHeld, Write, Restore, GatewayTypeOK, Calls, Idle
    <2>5. CASE Test(w) \/ Retest(w)
      BY <1>2, <2>1, <2>2, <2>5, OthersUntouched
      DEF GatewayInv, LockIsHeld, Test, Retest, GatewayTypeOK, Calls, Idle
    <2>6. CASE Reload(w)
      BY <1>2, <2>1, <2>2, <2>6, OthersUntouched
      DEF GatewayInv, LockIsHeld, Reload, GatewayTypeOK, Calls, Idle
    <2>7. CASE WriteRaises(w) \/ RestoreRaises(w)
      BY <1>2, <2>1, <2>2, <2>7, OthersUntouched
      DEF GatewayInv, LockIsHeld, WriteRaises, RestoreRaises, GatewayTypeOK, Calls, Idle
    <2> QED
      BY <1>2, <2>3, <2>4, <2>5, <2>6, <2>7 DEF Apply
  <1>3. ASSUME NEW d \in Domains, ChangeCert(d) PROVE LockIsHeld' /\ StoppedIsIdle'
    BY <1>3 DEF GatewayInv, LockIsHeld, StoppedIsIdle, ChangeCert
  <1>4. CASE MasterReload \/ ContainerDies \/ Start
    BY <1>4 DEF GatewayInv, LockIsHeld, StoppedIsIdle, MasterReload, ContainerDies, Start, Idle
  <1>5. CASE UNCHANGED gatewayVars
    BY <1>5 DEF GatewayInv, LockIsHeld, StoppedIsIdle, gatewayVars
  <1> QED
    BY <1>1, <1>2, <1>3, <1>4, <1>5 DEF GatewayNext

\* Nobody but the holder of the lock touches the file it read.
LEMMA OldStep == GatewayInv /\ [GatewayNext]_gatewayVars => OldIsKept'
  <1> SUFFICES ASSUME GatewayInv, [GatewayNext]_gatewayVars PROVE OldIsKept'
    OBVIOUS
  <1> USE GatewayConstants DEF NoWorker, GatewayInv, OldIsKept, LockIsHeld, Unsettled
  <1>1. ASSUME NEW w \in Workers, Request(w) PROVE OldIsKept'
    BY <1>1, OthersUntouched DEF Request, GatewayTypeOK, Idle
  <1>2. ASSUME NEW w \in Workers, Apply(w) PROVE OldIsKept'
    <2>1. work[w] \in Calls /\ \A v \in Workers : v # w => work'[v] = work[v]
      BY ZenonT(30), <1>2, BusyIsCall, OthersUntouched
      DEF Apply, Enter, Write, WriteRaises, Test, Reload, Restore, RestoreRaises, Retest, Return
    <2>2. CASE Enter(w) \/ Return(w)
      BY <2>1, <2>2 DEF Enter, Return, GatewayTypeOK, Calls, Idle
    <2>3. CASE Write(w)
      BY <2>1, <2>3 DEF Write, GatewayTypeOK, Calls
    <2>4. CASE Restore(w)
      BY <2>1, <2>4 DEF Restore, GatewayTypeOK, Calls
    <2>5. CASE Test(w) \/ Retest(w)
      BY <2>1, <2>5 DEF Test, Retest, GatewayTypeOK, Calls
    <2>6. CASE Reload(w)
      BY <2>1, <2>6 DEF Reload, GatewayTypeOK, Calls
    <2>7. CASE WriteRaises(w) \/ RestoreRaises(w)
      BY <2>1, <2>7 DEF WriteRaises, RestoreRaises, GatewayTypeOK, Calls, Idle
    <2> QED
      BY <1>2, <2>2, <2>3, <2>4, <2>5, <2>6, <2>7 DEF Apply
  <1>3. ASSUME NEW d \in Domains, ChangeCert(d) PROVE OldIsKept'
    BY <1>3 DEF ChangeCert
  <1>4. CASE MasterReload
    BY <1>4 DEF MasterReload
  <1>5. CASE ContainerDies \/ Start
    BY <1>5 DEF ContainerDies, Start, Idle, StoppedIsIdle
  <1>6. CASE UNCHANGED gatewayVars
    BY <1>6 DEF gatewayVars
  <1> QED
    BY <1>1, <1>2, <1>3, <1>4, <1>5, <1>6 DEF GatewayNext

\* The verdict on a write: it can no longer be undone.
Settles(w) == (Reload(w) /\ work'[w].pc = "answer") \/ RestoreRaises(w)

\* A thread commits its file when nginx is signalled, or when the previous one
\* could not be written back; no other step of it changes what is committed.
LEMMA CommitStep ==
  ASSUME GatewayInv, NEW w \in Workers, Request(w) \/ Apply(w)
  PROVE  IF Settles(w) THEN Committed' = [Committed EXCEPT ![work[w].app] = work[w].new]
         ELSE UNCHANGED Committed
  <1>1. GatewayTypeOK /\ GatewayTypeOK' /\ LockIsHeld /\ LockIsHeld' /\ OldIsKept
    BY TypeStep, LockStep DEF GatewayInv, GatewayNext
  <1>2. CommittedIs /\ CommittedIs'
    BY <1>1, CommittedNow, CommittedNext
  <1>3. \A v \in Workers : v # w => work'[v] = work[v]
    BY <1>1, OthersUntouched
  <1>4. CASE Request(w)
    <2>1. holder # w /\ UNCHANGED <<disk, holder>> /\ ~Settles(w)
      BY <1>1, <1>4 DEF Request, Idle, LockIsHeld, Settles, Reload, RestoreRaises
    <2> QED
      BY <1>1, <1>3, <2>1, GatewayConstants DEF GatewayTypeOK, Committed, Unsettled, NoWorker
  <1>5. CASE Apply(w)
    <2>1. work[w] \in Calls /\ work[w].app \in Apps
      BY <1>1, <1>5, BusyIsCall
      DEF Apply, Enter, Write, WriteRaises, Test, Reload, Restore, RestoreRaises, Retest, Return,
          Calls
    <2>2. disk = [a \in Apps |-> disk[a]]
      BY <1>1 DEF GatewayTypeOK
    <2>3. CASE Enter(w)
      <3>1. holder = NoWorker /\ holder' = w /\ ~Unsettled(w)' /\ UNCHANGED disk /\ ~Settles(w)
        BY <1>1, <2>1, <2>3
        DEF Enter, GatewayTypeOK, Unsettled, Calls, Settles, Reload, RestoreRaises
      <3> QED
        BY <1>2, <3>1 DEF CommittedIs
    <2>4. CASE Write(w)
      <3>1. /\ holder = w /\ holder' = w /\ ~Unsettled(w) /\ Unsettled(w)' /\ ~Settles(w)
            /\ work'[w].app = work[w].app /\ work'[w].old = disk[work[w].app]
            /\ disk' = [disk EXCEPT ![work[w].app] = work[w].new]
        BY <1>1, <2>1, <2>4
        DEF Write, GatewayTypeOK, LockIsHeld, OldIsKept, Unsettled, Calls, Settles, Reload,
            RestoreRaises
      <3>2. [disk' EXCEPT ![work[w].app] = disk[work[w].app]] = disk
        BY <2>1, <2>2, <3>1
      <3> QED
        BY <1>2, <3>1, <3>2 DEF CommittedIs
    <2>5. CASE Test(w) \/ (Reload(w) /\ work'[w].pc # "answer")
      <3>1. /\ holder = w /\ holder' = w /\ Unsettled(w) /\ Unsettled(w)' /\ ~Settles(w)
            /\ work'[w].app = work[w].app /\ work'[w].old = work[w].old
            /\ UNCHANGED disk
        BY <1>1, <2>1, <2>5
        DEF Test, Reload, GatewayTypeOK, LockIsHeld, Unsettled, Calls, Settles, RestoreRaises
      <3> QED
        BY <1>2, <3>1 DEF CommittedIs
    <2>6. CASE Restore(w)
      <3>1. work'[w].pc \in {"answer", "retest"} /\ work[w].pc \in {"undo_test", "undo_reload"}
        BY <1>1, <2>1, <2>6 DEF Restore, GatewayTypeOK, Calls
      <3>2. /\ holder = w /\ holder' = w
            /\ disk' = [disk EXCEPT ![work[w].app] = work[w].old]
        BY <1>1, <2>6, <3>1 DEF Restore, LockIsHeld
      <3>3. Unsettled(w) /\ ~Unsettled(w)'
        BY <3>1 DEF Unsettled
      <3>4. ~Settles(w)
        BY <2>1, <3>1, <3>2, GatewayConstants DEF Settles, Reload, RestoreRaises, NoWorker
      <3> QED
        BY <1>2, <3>2, <3>3, <3>4 DEF CommittedIs
    <2>7. CASE Settles(w)
      <3>1. /\ holder = w /\ Unsettled(w) /\ UNCHANGED disk
            /\ holder' = NoWorker \/ (holder' = w /\ ~Unsettled(w)')
            /\ work[w].new = disk[work[w].app]
        BY <1>1, <2>1, <2>7
        DEF Settles, Reload, RestoreRaises, GatewayTypeOK, LockIsHeld, OldIsKept, Unsettled, Calls
      <3>2. Committed = [disk EXCEPT ![work[w].app] = work[w].old] /\ Committed' = disk
        BY <1>2, <3>1 DEF CommittedIs
      <3> QED
        BY <2>1, <2>2, <2>7, <3>1, <3>2
    <2>8. CASE Retest(w)
      <3>1. holder = w /\ holder' = w /\ ~Unsettled(w) /\ ~Unsettled(w)' /\ ~Settles(w) /\ UNCHANGED disk
        BY <1>1, <2>1, <2>8
        DEF Retest, GatewayTypeOK, LockIsHeld, Unsettled, Calls, Settles, Reload, RestoreRaises
      <3> QED
        BY <1>2, <3>1 DEF CommittedIs
    <2>9. CASE WriteRaises(w) \/ Return(w)
      <3>1. holder = w /\ holder' = NoWorker /\ ~Unsettled(w) /\ ~Settles(w) /\ UNCHANGED disk
        BY <1>1, <2>1, <2>9
        DEF WriteRaises, Return, GatewayTypeOK, LockIsHeld, Unsettled, Calls, Settles, Reload,
            RestoreRaises
      <3> QED
        BY <1>2, <3>1 DEF CommittedIs
    <2> QED
      BY <1>5, <2>3, <2>4, <2>5, <2>6, <2>7, <2>8, <2>9 DEF Apply, Settles
  <1> QED
    BY <1>4, <1>5

\* Out of sync only when disturbed: nginx loads the directory when no write may
\* be undone, and threads otherwise leave what is committed as it is or signal.
LEMMA ServedStep == GatewayInv /\ [GatewayNext]_gatewayVars => CommittedIsServed'
  <1> SUFFICES ASSUME GatewayInv, [GatewayNext]_gatewayVars PROVE CommittedIsServed'
    OBVIOUS
  <1>0. GatewayTypeOK /\ GatewayTypeOK' /\ CommittedIs /\ CommittedIs'
    BY TypeStep, CommittedNow, CommittedNext DEF GatewayInv
  <1>1. ASSUME NEW w \in Workers, Request(w) \/ Apply(w) PROVE CommittedIsServed'
    <2>1. UNCHANGED <<loaded, up>> /\ (hup => hup') /\ (disturbed => disturbed')
      BY <1>0, <1>1
      DEF Request, Apply, Enter, Write, WriteRaises, Test, Reload, Restore, RestoreRaises, Retest,
          Return, GatewayTypeOK
    <2>2. Settles(w) => hup' \/ disturbed'
      BY <1>0, <1>1 DEF Settles, Reload, RestoreRaises, GatewayTypeOK
    <2> QED
      BY <1>1, <2>1, <2>2, CommitStep DEF GatewayInv, CommittedIsServed
  <1>2. ASSUME NEW d \in Domains, ChangeCert(d) PROVE CommittedIsServed'
    BY <1>2 DEF GatewayInv, CommittedIsServed, ChangeCert, Committed, Unsettled
  <1>3. CASE MasterReload
    <2>1. ASSUME ~disturbed' PROVE loaded' = disk /\ Committed = disk
      <3>1. Valid(disk) /\ \A w \in Workers : ~Unsettled(w)
        BY ZenonT(30), <1>3, <2>1 DEF MasterReload
      <3> QED
        BY <1>0, <1>3, <3>1 DEF MasterReload, CommittedIs, GatewayTypeOK
    <2> QED
      BY <1>3, <2>1 DEF CommittedIsServed, MasterReload, Committed, Unsettled
  <1>4. CASE ContainerDies
    BY <1>4 DEF ContainerDies, CommittedIsServed
  <1>5. CASE Start
    BY <1>0, <1>5 DEF Start, CommittedIsServed, CommittedIs, GatewayInv, StoppedIsIdle
  <1>6. CASE UNCHANGED gatewayVars
    BY <1>6 DEF gatewayVars, GatewayInv, CommittedIsServed, Committed, Unsettled
  <1> QED
    BY <1>1, <1>2, <1>3, <1>4, <1>5, <1>6 DEF GatewayNext

LEMMA GatewayInvStep == GatewayInv /\ [GatewayNext]_gatewayVars => GatewayInv'
  BY TypeStep, LockStep, OldStep, ServedStep DEF GatewayInv

\* The inductive invariant holds of every behaviour of the manager.
THEOREM Invariance == GatewaySpec => []GatewayInv
  BY InitGatewayInv, GatewayInvStep, PTL DEF GatewaySpec

\* Once apply() has released the lock and nginx has acted on its signal, what
\* nginx serves is what is on disk, for every application, unless nginx read the
\* directory amid a write or a write could not be undone.
THEOREM DiskIsServed == GatewaySpec => []InSyncUnlessDisturbed
  <1>1. GatewayInv => InSyncUnlessDisturbed
    BY CommittedNow DEF GatewayInv, CommittedIsServed, CommittedIs, InSyncUnlessDisturbed
  <1> QED
    BY <1>1, Invariance, PTL

----------------------------------------------------------------------------
(* The refinement.                                                         *)

\* A step of a thread changes no request but its own.
LEMMA RequestOf ==
  ASSUME GatewayTypeOK, NEW w \in Workers, Request(w) \/ Apply(w)
  PROVE  Requested' = [Requested EXCEPT ![w] = Answered(work'[w])]
  <1>1. work' \in [Workers -> {Idle} \cup Calls] /\ work \in [Workers -> {Idle} \cup Calls]
    BY TypeStep DEF GatewayTypeOK, Calls, GatewayNext
  <1> QED
    BY ZenonT(30), <1>1, OthersUntouched DEF Requested

LEMMA InitTable == GatewayInit => Table!Init
  <1> SUFFICES ASSUME GatewayInit PROVE Table!Init
    OBVIOUS
  <1>1. Committed \in [Apps -> Files]
    BY InitGatewayInv, CommittedNow
    DEF GatewayInv, GatewayTypeOK, CommittedIs, GatewayInit
  <1>2. Requested = [w \in Workers |-> Idle]
    BY DEF GatewayInit, Requested, Answered
  <1> QED
    BY <1>1, <1>2 DEF Table!Init

LEMMA ThreadStep ==
  ASSUME GatewayInv, NEW w \in Workers, Request(w) \/ Apply(w)
  PROVE  \/ Table!Ask(w) \/ Table!Grant(w) \/ Table!Deny(w) \/ Table!Answer(w)
         \/ Table!BreakOff(w)
         \/ UNCHANGED <<Committed, Requested>>
  <1>0. GatewayTypeOK /\ Requested' = [Requested EXCEPT ![w] = Answered(work'[w])]
    BY RequestOf DEF GatewayInv
  <1>1. /\ Requested[w] = Answered(work[w])
        /\ Requested = [v \in Workers |-> Requested[v]]
    BY DEF Requested
  <1>2. CASE Request(w)
    <2>1. PICK a \in Apps, p \in Payloads :
              work'[w] = [pc |-> "waiting", app |-> a, new |-> Render(p),
                          old |-> Absent, ok |-> FALSE]
      BY ZenonT(30), <1>0, <1>2 DEF Request, GatewayTypeOK
    <2>2. Answered(work'[w]) = [app |-> a, entry |-> Render(p), answer |-> "none"]
      BY <2>1 DEF Answered, Idle
    <2>3. Requested[w] = Idle
      BY <1>1, <1>2 DEF Request, Answered
    <2>4. UNCHANGED Committed
      <3>1. ~Settles(w)
        BY <1>2 DEF Request, Settles, Reload, RestoreRaises, Idle
      <3> QED
        BY <1>2, <3>1, CommitStep
    <2> QED
      BY ZenonT(30), <1>0, <2>2, <2>3, <2>4 DEF Table!Ask, Files
  <1>3. CASE Apply(w)
    <2>1. work[w] \in Calls /\ work[w] # Idle
      BY <1>0, <1>3, BusyIsCall
      DEF Apply, Enter, Write, WriteRaises, Test, Reload, Restore, RestoreRaises, Retest, Return
    <2>2. /\ Requested[w].app = work[w].app
          /\ Requested[w].entry = work[w].new
          /\ Requested[w] # Idle
      BY <1>1, <2>1 DEF Answered, Idle
    <2>3. work[w].ok => work[w].pc = "answer"
      BY <2>1 DEF GatewayInv, LockIsHeld
    <2>4. CASE Enter(w) \/ Write(w) \/ Test(w) \/ (Reload(w) /\ work'[w].pc # "answer")
      <3>1. /\ work'[w] \in Calls /\ work'[w] # Idle
            /\ work'[w].app = work[w].app /\ work'[w].new = work[w].new
            /\ work'[w].ok = FALSE
            /\ work'[w].pc \in {"write", "test", "undo_test", "reload", "undo_reload"}
            /\ work[w].ok = FALSE /\ work[w].pc \in {"waiting", "write", "test", "reload"}
        BY <1>0, <2>1, <2>3, <2>4
        DEF GatewayTypeOK, Calls, Steps, Enter, Write, Test, Reload, Idle
      <3>2. Answered(work'[w]) = Answered(work[w])
        BY <2>1, <3>1 DEF Answered
      <3>3. UNCHANGED Requested
        BY <1>0, <1>1, <3>2
      <3>4. ~Settles(w)
        BY <2>4, <3>1 DEF Settles, RestoreRaises
      <3> QED
        BY <1>3, <3>3, <3>4, CommitStep
    <2>5. CASE Restore(w)
      <3>1. /\ work'[w] = [work[w] EXCEPT !.pc = work'[w].pc]
            /\ work'[w].pc \in {"answer", "retest"}
            /\ work[w].ok = FALSE /\ work[w].pc \in {"undo_test", "undo_reload"}
        BY <1>0, <2>1, <2>3, <2>5 DEF GatewayTypeOK, Calls, Restore
      <3>2. /\ Requested[w] = [app |-> work[w].app, entry |-> work[w].new, answer |-> "none"]
            /\ Answered(work'[w]) =
                  [app |-> work[w].app, entry |-> work[w].new, answer |-> "failed"]
        BY <1>1, <2>1, <3>1 DEF Answered, Calls, Idle
      <3>3. UNCHANGED Committed
        <4>1. ~Settles(w)
          BY <1>0, <2>1, <2>5, <3>1 DEF Settles, Reload, RestoreRaises, Restore, GatewayTypeOK, Idle
        <4> QED
          BY <1>3, <4>1, CommitStep
      <3>4. Requested' = [Requested EXCEPT ![w].answer = "failed"]
        <4>1. [Requested[w] EXCEPT !.answer = "failed"] = Answered(work'[w])
          BY <3>2
        <4> QED
          BY ZenonT(30), <1>0, <1>1, <4>1
      <3>5. Requested[w].answer = "none"
        BY <3>2
      <3> QED
        BY <2>2, <3>3, <3>4, <3>5 DEF Table!Deny
    <2>6. CASE Reload(w) /\ work'[w].pc = "answer"
      <3>1. /\ work'[w] = [work[w] EXCEPT !.pc = "answer", !.ok = TRUE]
            /\ work[w].ok = FALSE /\ work[w].pc = "reload"
        BY <1>0, <2>1, <2>3, <2>6 DEF GatewayTypeOK, Calls, Reload
      <3>2. /\ Requested[w] = [app |-> work[w].app, entry |-> work[w].new, answer |-> "none"]
            /\ Answered(work'[w]) =
                  [app |-> work[w].app, entry |-> work[w].new, answer |-> "ok"]
        BY ZenonT(30), <1>1, <2>1, <3>1 DEF Answered, Calls, Idle
      <3>3. Requested' = [Requested EXCEPT ![w].answer = "ok"]
        <4>1. [Requested[w] EXCEPT !.answer = "ok"] = Answered(work'[w])
          BY <3>2
        <4> QED
          BY ZenonT(30), <1>0, <1>1, <4>1
      <3>4. Committed' = [Committed EXCEPT ![work[w].app] = work[w].new]
        BY <1>3, <2>6, CommitStep DEF Settles
      <3>5. Requested[w].answer = "none"
        BY <3>2
      <3> QED
        BY <2>2, <3>3, <3>4, <3>5 DEF Table!Grant, Table!Complete
    <2>7. CASE WriteRaises(w) \/ RestoreRaises(w)
      <3>1. /\ work'[w] = Idle
            /\ work[w].ok = FALSE /\ work[w].pc \in {"write", "undo_test", "undo_reload"}
        BY <1>0, <2>1, <2>3, <2>7 DEF GatewayTypeOK, Calls, WriteRaises, RestoreRaises
      <3>2. Requested[w].answer = "none"
        BY <1>1, <2>1, <3>1 DEF Answered, Calls, Idle
      <3>3. Requested' = [Requested EXCEPT ![w] = Idle]
        BY <1>0, <3>1 DEF Answered
      <3>4. UNCHANGED Committed \/ Committed' = [Committed EXCEPT ![work[w].app] = work[w].new]
        BY <1>3, CommitStep
      <3> QED
        BY <2>2, <3>2, <3>3, <3>4 DEF Table!BreakOff, Table!Complete
    <2>8. CASE Retest(w)
      <3>1. /\ work'[w] = [work[w] EXCEPT !.pc = "answer"]
            /\ work[w].ok = FALSE /\ work[w].pc = "retest"
        BY <1>0, <2>1, <2>3, <2>8 DEF GatewayTypeOK, Calls, Retest
      <3>2. Answered(work'[w]) = Answered(work[w])
        BY <2>1, <3>1 DEF Answered, Calls, Idle
      <3>3. UNCHANGED Requested
        BY <1>0, <1>1, <3>2
      <3>4. ~Settles(w)
        BY <3>1 DEF Settles, Reload, RestoreRaises
      <3> QED
        BY <1>3, <3>3, <3>4, CommitStep
    <2>9. CASE Return(w)
      <3>1. Requested[w].answer # "none"
        BY <1>1, <2>1, <2>9 DEF Return, Answered, Calls
      <3>2. Answered(work'[w]) = Idle
        BY <1>0, <2>9 DEF GatewayTypeOK, Return, Answered
      <3>3. ~Settles(w)
        BY <2>9 DEF Return, Settles, Reload, RestoreRaises
      <3> QED
        BY <1>0, <1>3, <2>2, <3>1, <3>2, <3>3, CommitStep DEF Table!Answer
    <2> QED
      BY <1>3, <2>4, <2>5, <2>6, <2>7, <2>8, <2>9 DEF Apply
  <1> QED
    BY <1>2, <1>3

\* A restart keeps every entry but the one whose file was being changed.
LEMMA CrashStep == ASSUME GatewayInv, ContainerDies PROVE Table!Restart
  <1>0. GatewayTypeOK /\ GatewayTypeOK' /\ CommittedIs /\ CommittedIs'
    BY TypeStep, CommittedNow, CommittedNext DEF GatewayInv, GatewayNext
  <1>1. Requested' = [w \in Workers |-> Idle]
    BY DEF ContainerDies, Requested, Answered
  <1>2. Committed' = disk
    BY <1>0 DEF ContainerDies, CommittedIs
  <1>3. CASE Committed = disk
    BY <1>1, <1>2, <1>3 DEF Table!Restart
  <1>4. CASE Committed # disk
    <2>1. PICK w \in Workers : holder = w /\ Unsettled(w)
      BY <1>0, <1>4 DEF CommittedIs, GatewayTypeOK
    <2>2. work[w] \in Calls /\ work[w] # Idle
      BY <1>0, <2>1, BusyIsCall DEF Unsettled
    <2>3. /\ Requested[w] # Idle
          /\ Requested[w].app = work[w].app
          /\ Requested[w].entry = disk[work[w].app]
      BY <2>1, <2>2 DEF Requested, Answered, Idle, GatewayInv, OldIsKept
    <2>4. Committed = [disk EXCEPT ![work[w].app] = work[w].old]
      BY <1>0, <2>1 DEF CommittedIs
    <2>5. [Committed EXCEPT ![work[w].app] = disk[work[w].app]] = disk
      BY ZenonT(30), <1>0, <2>2, <2>4 DEF GatewayTypeOK, Calls
    <2> QED
      BY <1>1, <1>2, <2>3, <2>5 DEF Table!Restart, Table!Complete
  <1> QED
    BY <1>3, <1>4

LEMMA TableStep ==
  GatewayInv /\ [GatewayNext]_gatewayVars => [Table!Next]_<<Committed, Requested>>
  <1> SUFFICES ASSUME GatewayInv, [GatewayNext]_gatewayVars
               PROVE  [Table!Next]_<<Committed, Requested>>
    OBVIOUS
  <1>1. ASSUME NEW w \in Workers, Request(w) \/ Apply(w)
        PROVE  [Table!Next]_<<Committed, Requested>>
    BY <1>1, ThreadStep DEF Table!Next
  <1>2. CASE ContainerDies
    BY <1>2, CrashStep DEF Table!Next
  <1>3. ASSUME NEW d \in Domains, ChangeCert(d)
        PROVE  UNCHANGED <<Committed, Requested>>
    BY <1>3 DEF ChangeCert, Committed, Unsettled, Requested
  <1>4. CASE MasterReload \/ Start
    BY <1>4 DEF MasterReload, Start, Committed, Unsettled, Requested
  <1>5. CASE UNCHANGED gatewayVars
    BY <1>5 DEF gatewayVars, Committed, Unsettled, Requested
  <1> QED
    BY <1>1, <1>2, <1>3, <1>4, <1>5 DEF GatewayNext

\* apply(), with its lock, its files and its rollback, and whenever nginx acts on
\* its signals, implements the routing table: a request takes effect as a whole
\* or not at all and is answered accordingly, and one that is cut short by an
\* OSError or a restart of the container does so for its own entry only.
THEOREM TableIsImplemented == GatewaySpec => ImplementsTable
  BY InitTable, TableStep, Invariance, PTL
  DEF GatewaySpec, ImplementsTable, Table!Spec
-----------------------------------------------------------------------------
(* The tail of a log *)

INSTANCE FiniteSetTheorems
INSTANCE WellFoundedInduction

\* Nothing that could be read when the first chunk was is out of reach.
Window == since # NotYet /\ since.hidden = hidden

TheLog ==
    /\ adapter \in {File, Container}
    /\ log \in Seq({"text", "newline"})
    /\ hidden \in 0..Len(log)
    /\ exists \in BOOLEAN
    /\ ~exists => hidden = Len(log)

TheTail ==
    /\ offset \in Nat \cup {None}
    /\ offset = None <=> since = NotYet
    /\ offset = None => shown = {}
    /\ since # NotYet => since.first \in Nat \ {0} /\ since.hidden \in 0..hidden
    /\ shown \subseteq 1..Len(log)
    /\ Window => offset <= Size

\* Nothing beyond the offset has been shown, and nothing before it was skipped.
Shown ==
    /\ adapter = File \/ Window => \A old \in shown : old <= hidden + offset
    /\ Window => \A k \in since.first..(hidden + offset) :
                   log[k] = "text" => k \in shown \cup dropped

\* The command under way.
Asking ==
    /\ reading.phase \in {"sleeping", "ended", "asked", "answered"}
    /\ reading.phase = "asked" =>
         /\ reading.by \in {"stream", "fetch"}
         /\ reading.offset \in Nat \cup {None}
         /\ reading.maxBytes \in Nat
         /\ reading.by = "stream" => reading.offset = offset

\* Its answer is the text of a part of the log.
Part ==
    /\ reading.hidden \in 0..hidden
    /\ reading.endOffset \in Nat
    /\ reading.hidden + reading.endOffset <= Len(log)
    /\ reading.first \in Nat \ {0}
    /\ reading.kept \cup reading.cut =
         {k \in reading.first..(reading.hidden + reading.endOffset) : log[k] = "text"}
    /\ since # NotYet => since.hidden <= reading.hidden

\* The part follows what has been shown, and in the window what has been read.
Follows ==
    /\ adapter = File \/ Window =>
         \A old \in shown : /\ old <= reading.hidden + reading.endOffset
                            /\ \A new \in reading.kept : old < new
    /\ Window => reading.first = hidden + offset + 1

LogInv ==
    /\ TheLog /\ TheTail /\ Shown /\ Asking
    /\ reading.phase = "answered" =>
         /\ reading.by \in {"stream", "fetch"}
         /\ reading.by = "stream" => Part /\ Follows
-----------------------------------------------------------------------------
(* Limits and the least of a set *)

LEMMA MinOf ==
  ASSUME NEW s \in SUBSET Nat, s # {}
  PROVE  Min(s) \in s /\ \A k \in s : Min(s) <= k
  <1>1. PICK x \in s : \A y \in s : ~ (<<y, x>> \in OpToRel(<, Nat))
    BY NatLessThanWellFounded, WFMin
  <1>2. \A y \in s : ~ (y < x)
    BY ZenonT(30), <1>1 DEF OpToRel
  <1>3. \A y \in s : x <= y
    BY <1>2
  <1> QED
    BY ZenonT(30), <1>3 DEF Min

LEMMA MinOfTwo ==
  ASSUME NEW a \in Int, NEW b \in Int
  PROVE  Min({a, b}) = IF a <= b THEN a ELSE b
  <1>1. \E x \in {a, b} : \A y \in {a, b} : x <= y
    OBVIOUS
  <1>2. Min({a, b}) \in {a, b} /\ \A y \in {a, b} : Min({a, b}) <= y
    BY <1>1 DEF Min
  <1> QED
    BY <1>2

LEMMA MaxOfTwo ==
  ASSUME NEW a \in Int, NEW b \in Int
  PROVE  Max({a, b}) = IF a <= b THEN b ELSE a
  <1>1. \E x \in {a, b} : \A y \in {a, b} : x >= y
    OBVIOUS
  <1>2. Max({a, b}) \in {a, b} /\ \A y \in {a, b} : Max({a, b}) >= y
    BY <1>1 DEF Max
  <1> QED
    BY <1>2

\* Docker's window moves forward only, and never beyond the log.
LEMMA RolledForward ==
  ASSUME TheLog, NEW bytes \in Seq({"text", "newline"}), Len(log) <= Len(bytes)
  PROVE  Rolled(bytes) \in hidden..Len(bytes)
  <1> DEFINE s == {k \in hidden..Len(bytes) :
                     Cardinality(Newlines(bytes, k + 1, Len(bytes))) <= HardLines}
  <1>1. hidden \in Nat /\ Len(bytes) \in Nat /\ hidden <= Len(bytes) /\ HardLines \in Nat
    BY LogConstants DEF TheLog
  <1>2. Newlines(bytes, Len(bytes) + 1, Len(bytes)) = {}
    BY <1>1 DEF Newlines
  <1>a. Cardinality(Newlines(bytes, Len(bytes) + 1, Len(bytes))) = 0
    BY ZenonT(30), <1>2, FS_EmptySet
  <1>3. Len(bytes) \in s
    BY <1>1, <1>a
  <1>4. s \in SUBSET Nat
    BY <1>1
  <1>5. Min(s) \in s
    <2> HIDE DEF s
    <2> QED
      BY <1>3, <1>4, MinOf
  <1> QED
    BY <1>5 DEF Rolled
-----------------------------------------------------------------------------
(* The part of the log that a command reads *)

LEMMA Bounds ==
  ASSUME TheLog, NEW q, q.offset \in Nat \cup {None}, q.maxBytes \in Nat
  PROVE  /\ Size \in Nat /\ StartOf(q) \in 0..Size
         /\ EndOf(q) \in StartOf(q)..Size
         /\ q.offset # None /\ (adapter = File \/ q.offset <= Size) =>
              StartOf(q) = IF q.offset <= Size THEN q.offset ELSE Size
  <1>1. Size \in Nat
    BY DEF TheLog, Size
  <1>2. PICK start \in Int :
          start = IF q.offset = None \/ (adapter = Container /\ q.offset > Size)
                  THEN Size - q.maxBytes ELSE q.offset
    BY <1>1 DEF None
  <1>3. Min({start, Size}) = IF start <= Size THEN start ELSE Size
    BY <1>1, <1>2, MinOfTwo
  <1>4. PICK least \in Int : least = Min({start, Size})
    BY <1>1, <1>3
  <1>5. StartOf(q) = IF 0 <= least THEN least ELSE 0
    <2>1. StartOf(q) = Max({0, Min({start, Size})})
      BY ZenonT(30), <1>2 DEF StartOf
    <2>2. Max({0, least}) = IF 0 <= least THEN least ELSE 0
      BY <1>4, MaxOfTwo
    <2> QED
      BY <1>4, <2>1, <2>2
  <1>6. StartOf(q) \in 0..Size
    BY <1>1, <1>3, <1>4, <1>5
  <1>7. EndOf(q) = IF StartOf(q) + q.maxBytes <= Size THEN StartOf(q) + q.maxBytes
                       ELSE Size
    BY <1>1, <1>6, MinOfTwo DEF EndOf
  <1>8. EndOf(q) \in StartOf(q)..Size
    BY <1>1, <1>6, <1>7
  <1>9. ASSUME q.offset # None, adapter = File \/ q.offset <= Size
        PROVE  StartOf(q) = IF q.offset <= Size THEN q.offset ELSE Size
    <2>1. start = q.offset /\ q.offset \in Nat
      BY <1>1, <1>2, <1>9 DEF File, Container
    <2> QED
      BY <1>1, <1>3, <1>4, <1>5, <2>1
  <1> QED
    BY <1>1, <1>6, <1>8, <1>9

LEMMA Begin ==
  ASSUME TheLog, NEW q, q.offset \in Nat \cup {None}, q.maxBytes \in Nat
  PROVE  /\ FirstOf(q) \in Nat \ {0}
         /\ FirstOf(q) > hidden + StartOf(q)
         /\ q.offset # None => FirstOf(q) = hidden + StartOf(q) + 1
  <1>1. /\ hidden \in Nat /\ Size \in Nat /\ StartOf(q) \in 0..Size
        /\ EndOf(q) \in StartOf(q)..Size
        /\ StartOf(q) \in Nat /\ EndOf(q) \in Nat
    BY Bounds DEF TheLog
  <1>2. PICK whole : whole = Newlines(log, hidden + StartOf(q) + 1, hidden + EndOf(q))
    OBVIOUS
  <1>3. whole \in SUBSET Nat /\ \A k \in whole : k > hidden + StartOf(q)
    BY <1>1, <1>2 DEF Newlines
  <1>4. whole # {} => Min(whole) \in whole
    BY <1>3, MinOf
  <1>5. FirstOf(q) = IF q.offset # None \/ StartOf(q) = 0 THEN hidden + StartOf(q) + 1
                     ELSE IF whole = {} THEN hidden + EndOf(q) + 1 ELSE Min(whole) + 1
    BY <1>2 DEF FirstOf
  <1>6. whole # {} => Min(whole) \in Nat /\ Min(whole) > hidden + StartOf(q)
    BY ZenonT(30), <1>3, <1>4
  <1> QED
    BY <1>1, <1>5, <1>6
-----------------------------------------------------------------------------
(* The steps *)

LEMMA Further ==
  ASSUME NEW a \in Nat, NEW b \in Nat, NEW c \in Nat, a <= b
  PROVE  a + c <= b + c /\ a + c \in Nat /\ b + c \in Nat
  OBVIOUS

\* The log grows, and what can be read of it moves forward.
LEMMA LogMoves ==
  ASSUME LogInv, TheLog', adapter' = adapter, hidden <= hidden', Len(log) <= Len(log'),
         \A k \in 1..Len(log) : log'[k] = log[k],
         UNCHANGED <<reading, offset, shown, dropped, since>>
  PROVE  LogInv'
  <1>0. /\ TheLog /\ TheTail /\ Shown /\ Asking /\ Len(log) \in Nat /\ Len(log') \in Nat
        /\ hidden \in Nat /\ hidden' \in Nat /\ hidden <= Len(log)
    BY DEF LogInv, TheLog
  <1>1. Window' => Window /\ hidden' = hidden
    BY <1>0 DEF Window, TheTail
  <1>2. shown' \subseteq 1..Len(log')
    BY <1>0 DEF TheTail
  <1>3. TheTail'
    <2>1. Window' => offset' <= Size'
      <3> SUFFICES ASSUME Window' PROVE offset' <= Size'
        OBVIOUS
      <3>1. offset \in Nat /\ offset <= Len(log) - hidden /\ hidden' = hidden
        BY <1>0, <1>1 DEF TheTail, Window, Size
      <3> QED
        BY <1>0, <3>1 DEF Size
    <2>2. since' # NotYet => since'.first \in Nat \ {0} /\ since'.hidden \in 0..hidden'
      BY <1>0 DEF TheTail
    <2> QED
      BY <1>0, <1>2, <2>1, <2>2 DEF TheTail
  <1>4. Shown'
    <2>1. ASSUME adapter' = File \/ Window', NEW old \in shown' PROVE old <= hidden' + offset'
      <3>1. old \in Nat /\ offset \in Nat
        BY <1>0, <2>1 DEF TheTail
      <3>2. old <= hidden + offset
        BY <1>0, <1>1, <2>1 DEF Shown
      <3>3. /\ hidden + offset <= hidden' + offset
            /\ hidden + offset \in Nat /\ hidden' + offset \in Nat
        <4>1. hidden \in Nat /\ hidden' \in Nat /\ hidden <= hidden' /\ offset \in Nat
          BY <1>0, <3>1
        <4> QED
          BY ZenonT(30), <4>1, Further
      <3>4. offset' = offset
        OBVIOUS
      <3> QED
        BY <3>1, <3>2, <3>3, <3>4
    <2>2. ASSUME Window', NEW k \in since'.first..(hidden' + offset'), log'[k] = "text"
          PROVE  k \in shown' \cup dropped'
      <3>1. Window /\ hidden' = hidden /\ offset \in Nat /\ offset <= Len(log) - hidden
            /\ since.first \in Nat \ {0}
        BY <1>0, <1>1, <2>2 DEF TheTail, Window, Size
      <3>2. k \in 1..Len(log) /\ k \in since.first..(hidden + offset)
        BY <1>0, <2>2, <3>1
      <3>3. log[k] = "text"
        BY <2>2, <3>2
      <3> QED
        BY <1>0, <3>1, <3>2, <3>3 DEF Shown
    <2> QED
      BY <2>1, <2>2 DEF Shown
  <1>5. Asking'
    BY <1>0 DEF Asking
  <1>6. ASSUME reading'.phase = "answered", reading'.by = "stream" PROVE Part' /\ Follows'
    <2>0. Part /\ Follows
      BY <1>6 DEF LogInv
    <2>1. Part'
      <3>1. /\ reading.hidden \in 0..hidden /\ reading.endOffset \in Nat
            /\ reading.hidden + reading.endOffset <= Len(log) /\ reading.first \in Nat \ {0}
        BY <2>0 DEF Part
      <3>2. /\ reading.hidden \in 0..hidden'
            /\ reading.hidden + reading.endOffset <= Len(log')
        BY <1>0, <3>1
      <3>3. \A k \in reading.first..(reading.hidden + reading.endOffset) : k \in 1..Len(log)
        BY <1>0, <3>1
      <3>4. \A k \in reading.first..(reading.hidden + reading.endOffset) : log'[k] = log[k]
        BY <3>3
      <3> QED
        BY <2>0, <3>1, <3>2, <3>4 DEF Part
    <2>2. Follows'
      BY <1>1, <2>0 DEF Follows
    <2> QED
      BY <2>1, <2>2
  <1> QED
    BY <1>3, <1>4, <1>5, <1>6 DEF LogInv

LEMMA WriteStep ==
  ASSUME LogInv, NEW byte \in {"text", "newline"}, WriteLog(byte)
  PROVE  LogInv'
  <1>0. TheLog /\ log \in Seq({"text", "newline"}) /\ Len(log) \in Nat /\ exists' = exists /\ exists
        /\ hidden \in 0..Len(log) /\ hidden \in Nat
        /\ adapter' = adapter /\ UNCHANGED <<reading, offset, shown, dropped, since>>
    BY DEF LogInv, TheLog, WriteLog, theTail
  <1>1. PICK more \in Seq({"text", "newline"}) :
          /\ log' = log \o more
          /\ hidden' = IF adapter = File THEN hidden ELSE Rolled(log \o more)
    <2>1. <<byte>> \in Seq({"text", "newline"}) /\ <<byte, "newline">> \in Seq({"text", "newline"})
      OBVIOUS
    <2> QED
      BY ZenonT(30), <2>1 DEF WriteLog
  <1>2. PICK bytes : bytes = log \o more
    BY ZenonT(30)
  <1>3. /\ bytes \in Seq({"text", "newline"}) /\ Len(bytes) \in Nat /\ Len(log) <= Len(bytes)
        /\ \A k \in 1..Len(log) : bytes[k] = log[k]
    BY <1>0, <1>1, <1>2
  <1>4. hidden' \in hidden..Len(bytes)
    <2>1. Rolled(bytes) \in hidden..Len(bytes)
      BY <1>0, <1>3, RolledForward
    <2> QED
      BY <1>0, <1>1, <1>2, <1>3, <2>1
  <1>5. TheLog'
    BY <1>0, <1>1, <1>2, <1>3, <1>4 DEF TheLog
  <1> QED
    BY <1>0, <1>1, <1>2, <1>3, <1>4, <1>5, LogMoves

LEMMA RotateStep ==
  ASSUME LogInv, Rotate \/ Open
  PROVE  LogInv'
  <1>0. /\ TheLog /\ log' = log /\ adapter' = adapter /\ Len(log) \in Nat /\ hidden \in 0..Len(log)
        /\ UNCHANGED <<reading, offset, shown, dropped, since>>
    BY DEF LogInv, TheLog, Rotate, Open, theTail
  <1>1. CASE Rotate
    <2>1. exists' = FALSE /\ hidden' = Len(log)
      BY <1>1 DEF Rotate
    <2>2. hidden' \in 0..Len(log') /\ hidden <= hidden' /\ Len(log) <= Len(log')
      BY <1>0, <2>1
    <2>3. TheLog'
      BY ZenonT(30), <1>0, <2>1, <2>2 DEF TheLog
    <2> QED
      BY <1>0, <2>2, <2>3, LogMoves
  <1>2. CASE Open
    <2>1. exists' = TRUE /\ hidden' = hidden
      BY <1>2 DEF Open
    <2>2. TheLog'
      BY <1>0, <2>1 DEF TheLog
    <2>3. hidden <= hidden' /\ Len(log) <= Len(log')
      BY <1>0, <2>1
    <2> QED
      BY <1>0, <2>2, <2>3, LogMoves
  <1> QED
    BY <1>1, <1>2

LEMMA ReadingMoves ==
  ASSUME LogInv, UNCHANGED <<theLog, theTail>>, Asking',
         reading'.phase = "answered" =>
           /\ reading'.by \in {"stream", "fetch"}
           /\ reading'.by = "stream" => Part' /\ Follows'
  PROVE  LogInv'
  <1>1. UNCHANGED <<adapter, log, hidden, exists, offset, shown, dropped, since>>
    BY DEF theLog, theTail
  <1>2. TheLog' /\ TheTail' /\ Shown'
    BY <1>1 DEF LogInv, TheLog, TheTail, Shown, Window, Size
  <1> QED
    BY <1>2 DEF LogInv

\* What the agent reads for the tail begins after all that was shown, and in the
\* window just after all that was read.
LEMMA AgentReadsStep ==
  ASSUME LogInv, AgentReads
  PROVE  LogInv'
  <1>0. /\ TheLog /\ TheTail /\ Shown /\ Asking /\ reading.phase = "asked"
        /\ UNCHANGED <<theLog, theTail>>
        /\ UNCHANGED <<adapter, log, hidden, exists, offset, shown, dropped, since>>
        /\ reading.by \in {"stream", "fetch"}
        /\ reading.offset \in Nat \cup {None} /\ reading.maxBytes \in Nat
        /\ hidden \in Nat /\ hidden <= Len(log) /\ Len(log) \in Nat
    BY DEF LogInv, AgentReads, Asking, TheLog, theLog, theTail
  <1>1. PICK q : q = reading
    OBVIOUS
  <1>2. /\ reading'.phase = "answered" /\ reading'.by = q.by /\ reading'.kept = KeptOf(q)
        /\ reading'.cut = TextOf(q) \ KeptOf(q) /\ reading'.endOffset = EndOf(q)
        /\ reading'.first = FirstOf(q) /\ reading'.hidden = hidden
    BY <1>1 DEF AgentReads, EndOffset
  <1>3. Asking'
    BY <1>2 DEF Asking
  <1>4. /\ Size \in Nat /\ StartOf(q) \in 0..Size
        /\ EndOf(q) \in StartOf(q)..Size
        /\ q.offset # None /\ (adapter = File \/ q.offset <= Size) =>
             StartOf(q) = IF q.offset <= Size THEN q.offset ELSE Size
    BY <1>0, <1>1, Bounds
  <1>5. /\ FirstOf(q) \in Nat \ {0} /\ FirstOf(q) > hidden + StartOf(q)
        /\ q.offset # None => FirstOf(q) = hidden + StartOf(q) + 1
    BY <1>0, <1>1, Begin
  <1>6. KeptOf(q) \cup (TextOf(q) \ KeptOf(q)) = TextOf(q)
    BY DEF KeptOf
  <1>7. TextOf(q) = {k \in FirstOf(q)..(hidden + EndOf(q)) : log[k] = "text"}
    BY DEF TextOf
  <1>8. StartOf(q) \in Nat /\ EndOf(q) \in Nat /\ hidden + EndOf(q) <= Len(log)
        /\ StartOf(q) <= EndOf(q)
    BY <1>0, <1>4 DEF Size
  <1>9. Part'
    <2>1. reading'.kept \cup reading'.cut =
            {k \in reading'.first..(reading'.hidden + reading'.endOffset) : log'[k] = "text"}
      BY ZenonT(30), <1>0, <1>2, <1>6, <1>7
    <2>a. hidden \in Nat /\ hidden' = hidden /\ log' = log /\ since' = since
      BY <1>0
    <2>2. since' # NotYet => since'.hidden <= reading'.hidden
      <3>1. since # NotYet => since.hidden <= hidden
        BY <1>0 DEF TheTail
      <3> QED
        BY <1>2, <2>a, <3>1
    <2>3. /\ reading'.hidden \in 0..hidden' /\ reading'.endOffset \in Nat
          /\ reading'.hidden + reading'.endOffset <= Len(log') /\ reading'.first \in Nat \ {0}
      BY <1>2, <1>5, <1>8, <2>a
    <2> QED
      BY <2>1, <2>2, <2>3 DEF Part
  <1>10. q.by = "stream" => Follows'
    <2> SUFFICES ASSUME q.by = "stream" PROVE Follows'
      OBVIOUS
    <2>0. q.offset = offset
      BY <1>0, <1>1 DEF Asking
    <2>1. ASSUME adapter = File \/ Window, NEW old \in shown
          PROVE  old <= hidden + StartOf(q)
      <3>1. /\ old \in Nat /\ old <= Len(log) /\ offset \in Nat /\ offset # None
            /\ Window => offset <= Size
        BY <1>0, <2>1 DEF TheTail, None
      <3>2. old <= hidden + offset
        BY <1>0, <2>1 DEF Shown
      <3>3. StartOf(q) = IF offset <= Size THEN offset ELSE Size
        BY <1>4, <2>0, <2>1, <3>1
      <3> QED
        BY <1>0, <3>1, <3>2, <3>3 DEF Size
    <2>2. \A new \in KeptOf(q) : new \in Int /\ hidden + StartOf(q) < new
      <3>1. \A new \in KeptOf(q) : new \in FirstOf(q)..(hidden + EndOf(q))
        BY DEF KeptOf, TextOf
      <3> QED
        BY <1>0, <1>5, <1>8, <3>1
    <2>3. ASSUME adapter = File \/ Window, NEW old \in shown
          PROVE  /\ old <= hidden + EndOf(q)
                 /\ \A new \in KeptOf(q) : old < new
      <3>1. old <= hidden + StartOf(q) /\ old \in Nat
        BY <1>0, <2>1, <2>3 DEF TheTail
      <3> QED
        BY <1>0, <1>8, <2>2, <3>1
    <2>4. ASSUME Window PROVE FirstOf(q) = hidden + offset + 1
      <3>1. offset \in Nat /\ offset # None /\ offset <= Size
        BY <1>0, <2>4 DEF TheTail, Window, None
      <3>2. StartOf(q) = offset
        BY <1>4, <2>0, <3>1
      <3> QED
        BY <1>5, <2>0, <3>1, <3>2
    <2>5. Window' <=> Window
      BY <1>0 DEF Window
    <2> QED
      BY <1>0, <1>2, <2>3, <2>4, <2>5 DEF Follows
  <1> QED
    BY <1>0, <1>1, <1>2, <1>3, <1>9, <1>10, ReadingMoves

\* A file that is not there has nothing before its end.
LEMMA AgentFindsNothingStep ==
  ASSUME LogInv, AgentFindsNothing
  PROVE  LogInv'
  <1>0. /\ TheLog /\ TheTail /\ Shown /\ Asking /\ reading.phase = "asked"
        /\ UNCHANGED <<theLog, theTail>>
        /\ UNCHANGED <<adapter, log, hidden, exists, offset, shown, dropped, since>>
        /\ reading.by \in {"stream", "fetch"} /\ hidden = Len(log) /\ Len(log) \in Nat
    BY DEF LogInv, AgentFindsNothing, Asking, TheLog, theLog, theTail
  <1>1. /\ reading'.phase = "answered" /\ reading'.by = reading.by /\ reading'.kept = {}
        /\ reading'.cut = {} /\ reading'.endOffset = 0 /\ reading'.first = hidden + 1
        /\ reading'.hidden = hidden
    BY DEF AgentFindsNothing
  <1>2. Asking'
    BY <1>1 DEF Asking
  <1>3. Part'
    <2>1. (hidden + 1)..(hidden + 0) = {}
      BY <1>0
    <2>2. since' # NotYet => since'.hidden <= reading'.hidden
      BY <1>0, <1>1 DEF TheTail
    <2> QED
      BY <1>0, <1>1, <2>1, <2>2 DEF Part
  <1>4. Follows'
    <2>1. \A old \in shown : old <= hidden + 0
      BY <1>0 DEF TheTail
    <2>2. Window' => offset = 0
      BY <1>0 DEF TheTail, Window, Size
    <2> QED
      BY <1>0, <1>1, <2>1, <2>2 DEF Follows
  <1> QED
    BY <1>0, <1>1, <1>2, <1>3, <1>4, ReadingMoves

LEMMA CommandStep ==
  ASSUME LogInv,
         AskNext \/ Unavailable \/ Connect \/ Fetched
           \/ \E bytes, lines \in Asked, from \in {None} \cup 0..MaxLog :
                Fetch(bytes, lines, from)
  PROVE  LogInv'
  <1>0. UNCHANGED <<theLog, theTail>> /\ UNCHANGED offset /\ TheTail
    BY DEF AskNext, Unavailable, Connect, Fetched, Fetch, theTail, LogInv
  <1>a. InitialBytes \in Nat /\ PollBytes \in Nat /\ DefaultBytes \in Nat /\ HardBytes \in Nat
        /\ MaxLog \in Nat
    BY LogConstants
  <1>1. CASE AskNext
    <2>1. /\ reading'.phase = "asked" /\ reading'.by = "stream" /\ reading'.offset = offset
          /\ reading'.maxBytes = IF offset = None THEN InitialBytes ELSE PollBytes
      BY <1>1 DEF AskNext
    <2>2. Asking'
      BY <1>0, <1>a, <2>1 DEF Asking, TheTail
    <2> QED
      BY <1>0, <2>1, <2>2, ReadingMoves
  <1>2. CASE Unavailable \/ Connect \/ Fetched
    <2>1. reading' = Sleeping \/ reading' = Ended
      BY <1>2 DEF Unavailable, Connect, Fetched
    <2>2. reading'.phase \in {"sleeping", "ended"}
      BY <2>1 DEF Sleeping, Ended
    <2>3. Asking'
      BY <2>2 DEF Asking
    <2> QED
      BY <1>0, <2>2, <2>3, ReadingMoves
  <1>3. ASSUME NEW bytes \in Asked, NEW lines \in Asked, NEW from \in {None} \cup 0..MaxLog,
               Fetch(bytes, lines, from)
        PROVE  LogInv'
    <2>1. /\ reading'.phase = "asked" /\ reading'.by = "fetch" /\ reading'.offset = from
          /\ reading'.maxBytes = Clamp(bytes, DefaultBytes, HardBytes)
      BY <1>3 DEF Fetch
    <2>2. Clamp(bytes, DefaultBytes, HardBytes) \in Nat
      BY <1>a DEF Clamp, Asked, None
    <2>3. Asking'
      BY <1>a, <2>1, <2>2 DEF Asking
    <2> QED
      BY <1>0, <2>1, <2>3, ReadingMoves
  <1> QED
    BY <1>1, <1>2, <1>3

LEMMA YieldStep ==
  ASSUME LogInv, Yield
  PROVE  LogInv'
  <1>0. /\ TheLog /\ TheTail /\ Shown /\ Part /\ Follows /\ reading.phase = "answered"
        /\ UNCHANGED <<adapter, log, hidden, exists>>
        /\ hidden \in Nat /\ hidden <= Len(log) /\ Len(log) \in Nat
        /\ reading.kept \subseteq reading.kept \cup reading.cut
    BY DEF LogInv, Yield, TheLog, theLog
  <1>1. PICK end, low, first, kept, cut :
          /\ end = reading.endOffset /\ low = reading.hidden /\ first = reading.first
          /\ kept = reading.kept /\ cut = reading.cut
    OBVIOUS
  <1>2. /\ low \in 0..hidden /\ end \in Nat /\ low + end <= Len(log) /\ first \in Nat \ {0}
        /\ kept \cup cut = {k \in first..(low + end) : log[k] = "text"}
        /\ since # NotYet => since.hidden <= low
    BY <1>0, <1>1 DEF Part
  <1>3. /\ offset' = end /\ shown' = shown \cup kept /\ dropped' = dropped \cup cut
        /\ since' = IF offset = None THEN [first |-> first, hidden |-> low] ELSE since
        /\ reading' = Sleeping
    BY <1>1 DEF Yield
  <1>4. offset' # None /\ since' # NotYet
    <2>1. [first |-> first, hidden |-> low] # NotYet
      <3>1. [first |-> first, hidden |-> low].first # NotYet.first
        BY <1>2 DEF NotYet, None
      <3> QED
        BY <3>1
    <2> QED
      BY <1>0, <1>2, <1>3, <2>1 DEF TheTail, None
  <1>5. /\ since'.first \in Nat \ {0} /\ since'.hidden \in 0..hidden /\ since'.hidden <= low
        /\ offset = None => since'.first = first
        /\ offset # None => since' = since /\ since # NotYet
    BY <1>0, <1>2, <1>3 DEF TheTail
  <1>6. Window' => low = hidden
    BY <1>0, <1>2, <1>5 DEF Window
  <1>7. \A k \in kept : k \in 1..Len(log) /\ k <= low + end
    <2>1. \A k \in kept : k \in first..(low + end)
      BY <1>2
    <2> QED
      BY <1>0, <1>2, <2>1
  <1>8. TheTail'
    <2>1. shown' \subseteq 1..Len(log')
      BY ZenonT(30), <1>0, <1>3, <1>7 DEF TheTail
    <2>2. Window' => offset' <= Size'
      BY <1>0, <1>2, <1>3, <1>6 DEF Size
    <2> QED
      BY <1>0, <1>2, <1>3, <1>4, <1>5, <2>1, <2>2 DEF TheTail
  <1>9. Shown'
    <2>1. ASSUME adapter' = File \/ Window', NEW old \in shown' PROVE old <= hidden' + offset'
      <3>1. old <= low + end
        <4>1. CASE old \in kept
          BY <1>7, <4>1
        <4>2. CASE old \in shown
          <5>1. adapter = File \/ Window
            BY <1>0, <1>5, <2>1, <4>2 DEF Window, TheTail
          <5> QED
            BY <1>0, <1>1, <4>2, <5>1 DEF Follows
        <4> QED
          BY <1>3, <2>1, <4>1, <4>2
      <3>2. old \in Nat
        BY <1>0, <1>8, <2>1 DEF TheTail
      <3> QED
        BY <1>0, <1>2, <1>3, <3>1, <3>2
    <2>2. ASSUME Window', NEW k \in since'.first..(hidden' + offset'), log'[k] = "text"
          PROVE  k \in shown' \cup dropped'
      <3>0. k \in Nat /\ since'.first <= k /\ k <= low + end /\ log[k] = "text" /\ low = hidden
        BY <1>0, <1>2, <1>3, <1>5, <1>6, <2>2
      <3>1. first <= k => k \in kept \cup cut
        BY <1>2, <3>0
      <3>2. CASE offset # None /\ k <= hidden + offset
        <4>1. Window /\ since.first = since'.first /\ offset \in Nat
          BY <1>0, <1>5, <2>2, <3>2 DEF Window, TheTail
        <4>2. k \in since.first..(hidden + offset)
          BY <1>0, <1>5, <3>0, <3>2, <4>1
        <4> QED
          BY <1>0, <1>3, <3>0, <4>1, <4>2 DEF Shown
      <3>3. CASE offset # None /\ ~(k <= hidden + offset)
        <4>1. Window /\ offset \in Nat
          BY <1>0, <1>5, <2>2, <3>3 DEF Window, TheTail
        <4>2. first = hidden + offset + 1
          BY <1>0, <1>1, <4>1 DEF Follows
        <4> QED
          BY <1>0, <1>3, <3>0, <3>1, <3>3, <4>1, <4>2
      <3>4. CASE offset = None
        BY <1>3, <1>5, <3>0, <3>1, <3>4
      <3> QED
        BY <3>2, <3>3, <3>4
    <2> QED
      BY <2>1, <2>2 DEF Shown
  <1>10. TheLog'
    BY <1>0 DEF TheLog
  <1>11. reading'.phase = "sleeping" /\ Asking'
    BY <1>3 DEF Sleeping, Asking
  <1> QED
    BY <1>8, <1>9, <1>10, <1>11 DEF LogInv

LEMMA CloseStep ==
  ASSUME LogInv, Close
  PROVE  LogInv'
  <1>1. /\ UNCHANGED <<adapter, log, hidden, exists>> /\ offset' = None /\ shown' = {}
        /\ since' = NotYet /\ TheLog /\ reading'.phase = "ended"
    BY DEF Close, theLog, LogInv, Ended
  <1>2. TheLog' /\ TheTail' /\ Shown' /\ Asking'
    BY <1>1 DEF TheLog, TheTail, Shown, Asking, Window
  <1> QED
    BY <1>1, <1>2 DEF LogInv

LEMMA LogBegins == LogInit => LogInv
  <1> SUFFICES ASSUME LogInit PROVE LogInv
    OBVIOUS
  <1>1. /\ log = <<>> /\ Len(log) = 0 /\ log \in Seq({"text", "newline"}) /\ hidden = 0
        /\ exists \in BOOLEAN /\ adapter \in {File, Container} /\ reading.phase = "sleeping"
    BY LogConstants DEF LogInit, Sleeping
  <1>2. TheLog /\ TheTail /\ Shown /\ Asking
    BY <1>1 DEF LogInit, TheLog, TheTail, Shown, Asking, Window
  <1> QED
    BY <1>1, <1>2 DEF LogInv

LEMMA LogKept ==
  ASSUME LogInv, [LogNext]_logVars
  PROVE  LogInv'
  <1>1. CASE UNCHANGED logVars
    BY <1>1 DEF logVars, LogInv, TheLog, TheTail, Shown, Asking, Part, Follows, Window, Size
  <1> QED
    BY <1>1, WriteStep, RotateStep, AgentReadsStep, AgentFindsNothingStep, CommandStep, YieldStep,
       CloseStep DEF LogNext

\* Answers to the tail's commands are parts of the log that follow what the tail
\* has shown: get_instance_log's offset is never ahead of or behind it.
THEOREM LogInvariant == LogSpec => []LogInv
  BY LogBegins, LogKept, PTL DEF LogSpec
-----------------------------------------------------------------------------
(* What follows from the invariant *)

\* The chunks that stream_instance_log yields are in the order of the log and
\* never overlap: what _collect has brought is newer than all that was yielded,
\* after answers that came too late, after rotateIfLarge and, while Docker's
\* window stays where it is, for containers.
THEOREM TailIsInOrder == LogSpec => []ShownInOrder
  <1>1. ASSUME LogInv PROVE ShownInOrder
    <2> SUFFICES ASSUME reading.phase = "answered", reading.by = "stream", adapter = File \/ Intact,
                        NEW new \in reading.kept, NEW old \in shown
                 PROVE  old < new
      BY DEF ShownInOrder
    <2>1. Follows /\ since # NotYet
      BY <1>1 DEF LogInv, TheTail
    <2>2. adapter = File \/ Window
      BY <2>1 DEF Intact, Window
    <2> QED
      BY <2>1, <2>2 DEF Follows
  <1> QED
    BY <1>1, LogInvariant, PTL

\* From its first chunk to its offset the tail has left out no text but lines over
\* max_lines, as long as all of the log since then can be read.
THEOREM TailSkipsNothing == LogSpec => []NothingSkipped
  <1>1. ASSUME LogInv PROVE NothingSkipped
    BY <1>1 DEF NothingSkipped, Intact, LogInv, Shown, Window
  <1> QED
    BY <1>1, LogInvariant, PTL
-----------------------------------------------------------------------------
(* The health gate and the monitor *)

\* Row n of a history is a success; one that is not is a failure.
Good(h, n) == h[n].healthy = TRUE

GateTypes ==
    /\ healthyThreshold \in Nat \ {0}
    /\ unhealthyThreshold \in Nat \ {0}
    /\ history \in Seq([healthy : BOOLEAN, failures : Nat])
    /\ begun \in 0..Len(history)
    /\ successes \in Nat
    /\ failures \in Nat

\* The newest n rows of those after `from` are failures, and the one before them
\* is none.
FailuresInARow(h, n, from) ==
    /\ n <= Len(h) - from
    /\ \A m \in (Len(h) - n + 1)..Len(h) : ~Good(h, m)
    /\ Len(h) - n > from => Good(h, Len(h) - n)

\* The newest n rows of those after `from` are successes.
SuccessesInARow(h, n, from) ==
    /\ n <= Len(h) - from
    /\ \A m \in (Len(h) - n + 1)..Len(h) : Good(h, m)

\* No n rows in a row of those after `from` are all failures.
NoFullRun(h, n, from) ==
    \A m \in from..(Len(h) - n) : \E k \in (m + 1)..(m + n) : Good(h, k)

\* wait_until_healthy's counters count its own newest answers.
Waiting ==
    /\ SuccessesInARow(history, successes, begun)
    /\ FailuresInARow(history, failures, begun)
    /\ failures < unhealthyThreshold
    /\ NoFullRun(history, unhealthyThreshold, begun)

\* The newest row of a RUNNING instance counts all the failures since the last
\* success, and they are too few to heal.
Watched ==
    history # <<>> /\ ~Good(history, Len(history)) =>
      /\ history[Len(history)].failures < unhealthyThreshold
      /\ FailuresInARow(history, history[Len(history)].failures, 0)

GateInv ==
    /\ GateTypes
    /\ phase = "gate" => Waiting
    /\ phase = "running" => Watched

\* A poll appends one row and keeps the others.
LEMMA Recorded ==
    ASSUME GateTypes, NEW healthy \in BOOLEAN, NEW n \in Nat,
           Record(healthy, n)
    PROVE  /\ history' \in Seq([healthy : BOOLEAN, failures : Nat])
           /\ Len(history') = Len(history) + 1
           /\ Len(history) \in Nat
           /\ \A m \in 1..Len(history) : Good(history', m) <=> Good(history, m)
           /\ Good(history', Len(history) + 1) <=> healthy
           /\ history'[Len(history) + 1].failures = n
           /\ history' # <<>> /\ history' # history
  <1> DEFINE row == [healthy |-> healthy, failures |-> n]
  <1>1. /\ row \in [healthy : BOOLEAN, failures : Nat]
        /\ row.healthy = healthy /\ row.failures = n
    OBVIOUS
  <1>2. history' = Append(history, row)
    BY DEF Record
  <1>3. history \in Seq([healthy : BOOLEAN, failures : Nat])
    BY DEF GateTypes
  <1> HIDE DEF row
  <1>4. /\ history' \in Seq([healthy : BOOLEAN, failures : Nat])
        /\ Len(history') = Len(history) + 1
        /\ Len(history) \in Nat
        /\ \A m \in 1..Len(history) : history'[m] = history[m]
        /\ history'[Len(history) + 1] = row
    BY <1>1, <1>2, <1>3
  <1>5. history' # <<>> /\ history' # history
    BY <1>4
  <1> QED BY <1>1, <1>4, <1>5 DEF Good

\* What is true at the start.
LEMMA GateStarts == HealthInit => GateInv
  <1> SUFFICES ASSUME HealthInit PROVE GateInv
    OBVIOUS
  <1>1. GateTypes /\ Len(history) = 0
    BY DEF HealthInit, GateTypes
  <1>2. Waiting
    BY <1>1 DEF HealthInit, GateTypes, Waiting, SuccessesInARow, FailuresInARow,
                NoFullRun
  <1>3. Watched
    BY DEF HealthInit, Watched
  <1> QED BY <1>1, <1>2, <1>3 DEF GateInv

\* A new failure makes a run of failures one longer, a success ends it.
LEMMA RunGrows ==
    ASSUME GateTypes, NEW healthy \in BOOLEAN, NEW n \in Nat,
           NEW k \in Nat, NEW from \in 0..Len(history),
           Record(healthy, n),
           ~healthy => FailuresInARow(history, k, from)
    PROVE  FailuresInARow(history', IF healthy THEN 0 ELSE k + 1, from)
  <1>1. /\ Len(history') = Len(history) + 1
        /\ Len(history) \in Nat
        /\ \A m \in 1..Len(history) : Good(history', m) <=> Good(history, m)
        /\ Good(history', Len(history) + 1) <=> healthy
    BY Recorded
  <1>2. CASE healthy
    BY <1>1, <1>2 DEF FailuresInARow
  <1>3. CASE ~healthy
    <2>1. /\ k <= Len(history) - from
          /\ \A m \in (Len(history) - k + 1)..Len(history) : ~Good(history, m)
          /\ Len(history) - k > from => Good(history, Len(history) - k)
      BY <1>3 DEF FailuresInARow
    <2>2. \A m \in (Len(history) - k + 1)..(Len(history) + 1) : ~Good(history', m)
      BY <1>1, <1>3, <2>1
    <2>3. Len(history) - k > from => Good(history', Len(history) - k)
      BY <1>1, <2>1
    <2> QED BY <1>1, <1>3, <2>1, <2>2, <2>3 DEF FailuresInARow
  <1> QED BY <1>2, <1>3

\* A poll of wait_until_healthy: each counter still counts its own kind of answer,
\* and a wait that goes on has seen no full run of failures.
LEMMA GatePolled ==
    ASSUME GateInv, NEW healthy \in BOOLEAN, GatePoll(healthy)
    PROVE  GateInv'
  <1>1. GateTypes /\ Waiting
    BY DEF GateInv, GatePoll
  <1>2. /\ healthyThreshold' = healthyThreshold
        /\ unhealthyThreshold' = unhealthyThreshold /\ begun' = begun
        /\ successes' = IF healthy THEN successes + 1 ELSE 0
        /\ failures' = IF healthy THEN 0 ELSE failures + 1
        /\ Record(healthy, failures')
    BY DEF GatePoll, thresholds
  <1>3. failures' \in Nat /\ successes' \in Nat
    BY <1>1, <1>2 DEF GateTypes
  <1>4. PICK n \in Nat : n = failures'
    BY <1>3
  <1>5. /\ history' \in Seq([healthy : BOOLEAN, failures : Nat])
        /\ Len(history') = Len(history) + 1
        /\ Len(history) \in Nat
        /\ \A m \in 1..Len(history) : Good(history', m) <=> Good(history, m)
        /\ Good(history', Len(history) + 1) <=> healthy
        /\ history' # <<>>
    BY <1>1, <1>2, <1>4, Recorded
  <1>6. GateTypes'
    BY <1>1, <1>2, <1>3, <1>5 DEF GateTypes
  <1>7. FailuresInARow(history', failures', begun')
    <2>1. PICK k \in Nat, from \in 0..Len(history) : k = failures /\ from = begun
      BY <1>1 DEF GateTypes
    <2>2. FailuresInARow(history, k, from)
      BY <1>1, <2>1 DEF Waiting
    <2>3. FailuresInARow(history', IF healthy THEN 0 ELSE k + 1, from)
      BY <1>1, <1>2, <1>4, <2>2, RunGrows
    <2> QED BY <1>2, <2>1, <2>3
  <1>8. SuccessesInARow(history', successes', begun')
    <2>1. /\ begun \in Nat /\ successes \in Nat /\ begun <= Len(history)
          /\ successes <= Len(history) - begun
          /\ \A m \in (Len(history) - successes + 1)..Len(history) :
               Good(history, m)
      BY <1>1, <1>5 DEF GateTypes, Waiting, SuccessesInARow
    <2>2. CASE healthy
      <3>1. \A m \in (Len(history) - successes + 1)..(Len(history) + 1) :
              Good(history', m)
        BY <1>5, <2>1, <2>2
      <3>2. successes' = successes + 1 /\ begun' = begun
        BY <1>2, <2>2
      <3> QED BY <1>5, <2>1, <3>1, <3>2 DEF SuccessesInARow
    <2>3. CASE ~healthy
      <3>1. successes' = 0 /\ begun' = begun
        BY <1>2, <2>3
      <3> QED BY <1>5, <2>1, <3>1 DEF SuccessesInARow
    <2> QED BY <2>2, <2>3
  <1>9. phase' = "gate" => failures' < unhealthyThreshold
    BY <1>1, <1>3, <1>2 DEF GatePoll, GateTypes
  <1>10. ASSUME failures' < unhealthyThreshold
         PROVE  NoFullRun(history', unhealthyThreshold', begun')
    <2>1. /\ begun \in Nat /\ unhealthyThreshold \in Nat \ {0}
          /\ failures \in Nat
          /\ begun' = begun /\ unhealthyThreshold' = unhealthyThreshold
      BY <1>1, <1>2, <1>5 DEF GateTypes
    <2> SUFFICES ASSUME NEW m \in begun..(Len(history) + 1 - unhealthyThreshold)
                 PROVE  \E k \in (m + 1)..(m + unhealthyThreshold) :
                          Good(history', k)
      BY <1>5, <2>1 DEF NoFullRun
    <2>2. CASE m <= Len(history) - unhealthyThreshold
      <3>1. PICK k \in (m + 1)..(m + unhealthyThreshold) : Good(history, k)
        BY <1>1, <1>5, <2>1, <2>2 DEF Waiting, NoFullRun
      <3>2. k \in 1..Len(history)
        BY <1>5, <2>1, <2>2, <3>1
      <3> QED BY <1>5, <3>1, <3>2
    <2>3. CASE m = Len(history) + 1 - unhealthyThreshold /\ healthy
      <3>1. Len(history) + 1 \in (m + 1)..(m + unhealthyThreshold)
        BY <1>5, <2>1, <2>3
      <3> QED BY <1>5, <2>3, <3>1
    <2>4. CASE m = Len(history) + 1 - unhealthyThreshold /\ ~healthy
      <3>1. failures + 1 < unhealthyThreshold
        BY <1>2, <1>10, <2>4
      <3>2. /\ Len(history) - failures \in (m + 1)..(m + unhealthyThreshold)
            /\ Len(history) - failures > begun
            /\ Len(history) - failures \in 1..Len(history)
        BY <1>5, <2>1, <2>4, <3>1
      <3>3. Good(history, Len(history) - failures)
        BY <1>1, <3>2 DEF Waiting, FailuresInARow
      <3> QED BY <1>5, <3>2, <3>3
    <2> QED BY <1>5, <2>1, <2>2, <2>3, <2>4
  <1>11. phase' = "running" => Watched'
    <2>1. phase' = "running" => healthy
      BY <1>1, <1>2 DEF GatePoll, GateTypes
    <2> QED BY <1>5, <2>1 DEF Watched
  <1> QED BY <1>2, <1>6, <1>7, <1>8, <1>9, <1>10, <1>11 DEF GateInv, Waiting

\* The monitor's poll continues the count of failures since the last success.
LEMMA MonitorCounts ==
    ASSUME GateInv, NEW healthy \in BOOLEAN, MonitorPoll(healthy)
    PROVE  \E k \in Nat :
             /\ FailuresInARow(history, k, 0)
             /\ k < unhealthyThreshold
             /\ Record(healthy, IF healthy THEN 0 ELSE k + 1)
             /\ phase' = IF ~healthy /\ k + 1 >= unhealthyThreshold
                         THEN "heal" ELSE "running"
             /\ UNCHANGED <<healthyThreshold, unhealthyThreshold, begun,
                            successes, failures>>
  <1> DEFINE last == LastResult
             inARow == IF healthy THEN 0
                       ELSE IF last.healthy THEN 1 ELSE last.failures + 1
  <1>1. GateTypes /\ Watched /\ phase = "running"
    BY DEF GateInv, MonitorPoll
  <1>2. /\ Record(healthy, inARow)
        /\ phase' = IF ~healthy /\ inARow >= unhealthyThreshold
                    THEN "heal" ELSE phase
        /\ UNCHANGED <<healthyThreshold, unhealthyThreshold, begun,
                       successes, failures>>
    BY DEF MonitorPoll, thresholds, counters
  <1>3. \E k \in Nat :
          /\ FailuresInARow(history, k, 0) /\ k < unhealthyThreshold
          /\ (IF last.healthy THEN 1 ELSE last.failures + 1) = k + 1
    <2>1. CASE history = <<>>
      <3>1. last = [healthy |-> TRUE, failures |-> 0] /\ Len(history) = 0
        BY <2>1 DEF LastResult
      <3>2. FailuresInARow(history, 0, 0)
        BY <3>1 DEF FailuresInARow
      <3>3. last.healthy = TRUE
        BY <3>1
      <3> HIDE DEF last
      <3> QED BY <1>1, <3>2, <3>3 DEF GateTypes
    <2>2. CASE history # <<>> /\ Good(history, Len(history))
      <3>1. last.healthy = TRUE /\ Len(history) \in Nat /\ Len(history) # 0
        BY <1>1, <2>2 DEF LastResult, Good, GateTypes
      <3>2. FailuresInARow(history, 0, 0)
        BY <2>2, <3>1 DEF FailuresInARow
      <3> HIDE DEF last
      <3> QED BY <1>1, <3>1, <3>2 DEF GateTypes
    <2>3. CASE history # <<>> /\ ~Good(history, Len(history))
      <3>1. last = history[Len(history)]
        BY <2>3 DEF LastResult
      <3>2. last.healthy = FALSE /\ last.failures \in Nat
        <4>1. Len(history) \in 1..Len(history)
          BY <1>1, <2>3 DEF GateTypes
        <4> HIDE DEF last
        <4>2. \A S : history \in Seq(S) => history[Len(history)] \in S
          BY <4>1
        <4>3. history[Len(history)] \in [healthy : BOOLEAN, failures : Nat]
          BY ZenonT(30), <1>1, <4>2 DEF GateTypes
        <4> QED BY <2>3, <3>1, <4>3 DEF Good
      <3>3. /\ last.failures < unhealthyThreshold
            /\ FailuresInARow(history, last.failures, 0)
        BY <1>1, <2>3, <3>1 DEF Watched
      <3> HIDE DEF last
      <3> QED BY <3>2, <3>3
    <2> QED BY <2>1, <2>2, <2>3
  <1>4. PICK k \in Nat :
          /\ FailuresInARow(history, k, 0) /\ k < unhealthyThreshold
          /\ (IF last.healthy THEN 1 ELSE last.failures + 1) = k + 1
    BY <1>3
  <1>5. inARow = IF healthy THEN 0 ELSE k + 1
    BY <1>4
  <1> HIDE DEF inARow
  <1> QED BY <1>1, <1>2, <1>4, <1>5

\* A poll of the monitor: the newest row again counts all failures in a row.
LEMMA MonitorPolled ==
    ASSUME GateInv, NEW healthy \in BOOLEAN, MonitorPoll(healthy)
    PROVE  GateInv'
  <1>1. PICK k \in Nat :
          /\ FailuresInARow(history, k, 0)
          /\ k < unhealthyThreshold
          /\ Record(healthy, IF healthy THEN 0 ELSE k + 1)
          /\ phase' = IF ~healthy /\ k + 1 >= unhealthyThreshold
                      THEN "heal" ELSE "running"
          /\ UNCHANGED <<healthyThreshold, unhealthyThreshold, begun,
                         successes, failures>>
    BY MonitorCounts
  <1>2. PICK n \in Nat : n = IF healthy THEN 0 ELSE k + 1
    OBVIOUS
  <1>3. GateTypes /\ Record(healthy, n)
    BY <1>1, <1>2 DEF GateInv
  <1>4. /\ history' \in Seq([healthy : BOOLEAN, failures : Nat])
        /\ Len(history') = Len(history) + 1
        /\ Len(history) \in Nat
        /\ Good(history', Len(history) + 1) <=> healthy
        /\ history'[Len(history) + 1].failures = n
    BY <1>3, Recorded
  <1>5. GateTypes'
    BY <1>1, <1>3, <1>4 DEF GateTypes
  <1>6. FailuresInARow(history', IF healthy THEN 0 ELSE k + 1, 0)
    BY <1>1, <1>3, <1>4, RunGrows
  <1>7. phase' = "running" => Watched'
    <2> SUFFICES ASSUME phase' = "running", ~healthy
                 PROVE  /\ n < unhealthyThreshold'
                        /\ FailuresInARow(history', n, 0)
      BY <1>4 DEF Watched
    <2>1. ~(k + 1 >= unhealthyThreshold) /\ unhealthyThreshold' = unhealthyThreshold
      BY <1>1
    <2>2. unhealthyThreshold \in Nat /\ n = k + 1
      BY <1>2, <1>3 DEF GateTypes
    <2> QED BY <1>6, <2>1, <2>2
  <1>8. phase' # "gate"
    BY <1>1
  <1> QED BY <1>5, <1>7, <1>8 DEF GateInv

\* Each step of either loop keeps the counts right.
LEMMA GateGoesOn == GateInv /\ [HealthNext]_healthVars => GateInv'
  <1> SUFFICES ASSUME GateInv, [HealthNext]_healthVars PROVE GateInv'
    OBVIOUS
  <1>1. CASE Restarted
    <2>1. /\ begun' = Len(history) /\ successes' = 0 /\ failures' = 0
          /\ history' = history /\ phase' = "gate"
          /\ healthyThreshold' = healthyThreshold
          /\ unhealthyThreshold' = unhealthyThreshold
      BY <1>1 DEF Restarted, thresholds
    <2>2. GateTypes /\ Len(history) \in Nat
      BY DEF GateInv, GateTypes
    <2>3. GateTypes'
      BY <2>1, <2>2 DEF GateTypes
    <2>4. /\ SuccessesInARow(history, 0, Len(history))
          /\ FailuresInARow(history, 0, Len(history))
      BY <2>2 DEF SuccessesInARow, FailuresInARow
    <2>5. NoFullRun(history, unhealthyThreshold, Len(history))
      BY <2>2 DEF NoFullRun, GateTypes
    <2>6. Waiting'
      BY <2>1, <2>2, <2>4, <2>5 DEF Waiting, GateTypes
    <2> QED BY <2>1, <2>3, <2>6 DEF GateInv
  <1>2. CASE UNCHANGED healthVars
    BY <1>2 DEF GateInv, GateTypes, Waiting, Watched, healthVars,
                thresholds, counters
  <1>3. CASE \E healthy \in BOOLEAN :
               GatePoll(healthy) \/ MonitorPoll(healthy)
    BY <1>3, GatePolled, MonitorPolled
  <1> QED BY <1>1, <1>2, <1>3 DEF HealthNext

\* The counters of wait_until_healthy and the count stored in the newest
\* HealthCheckResult row are those of the answers in a row.
THEOREM GateInvariant == HealthSpec => []GateInv
  <1>1. HealthInit => GateInv
    BY GateStarts
  <1>2. GateInv /\ [HealthNext]_healthVars => GateInv'
    BY GateGoesOn
  <1> QED BY <1>1, <1>2, PTL DEF HealthSpec

\* Every row after a poll is a success or a failure.
LEMMA GoodOrNot ==
    ASSUME GateTypes', NEW m \in 1..Len(history')
    PROVE  /\ history'[m].healthy \in BOOLEAN
           /\ Good(history', m) <=> history'[m].healthy = TRUE
           /\ ~Good(history', m) <=> history'[m].healthy = FALSE
  <1>1. \A S : history' \in Seq(S) => history'[m] \in S
    OBVIOUS
  <1>2. history'[m] \in [healthy : BOOLEAN, failures : Nat]
    BY ZenonT(30), <1>1 DEF GateTypes
  <1> QED BY <1>2 DEF Good

\* wait_until_healthy lets an instance pass only when its own newest
\* healthy_threshold answers are successes, and never after unhealthy_threshold
\* failures in a row of the same wait: for any thresholds and any answers.
THEOREM PassingIsEarned == HealthSpec => GateIsEarned
  <1> DEFINE Earned ==
        phase = "gate" /\ phase' = "running"
          => /\ Run(healthyThreshold, TRUE)'
             /\ Len(history') - begun >= healthyThreshold
             /\ \A m \in begun..(Len(history) - unhealthyThreshold) :
                  \E k \in (m + 1)..(m + unhealthyThreshold) :
                    history[k].healthy
  <1>1. ASSUME GateInv, GateInv', [HealthNext]_healthVars
        PROVE  [Earned]_healthVars
    <2> SUFFICES ASSUME HealthNext, phase = "gate", phase' = "running"
                 PROVE  Earned
      BY ZenonT(30), <1>1
    <2>1. PICK healthy \in BOOLEAN : GatePoll(healthy)
      BY DEF HealthNext, MonitorPoll, Restarted
    <2>2. GateTypes /\ GateTypes' /\ Waiting
      BY <1>1 DEF GateInv
    <2>3. /\ healthyThreshold' = healthyThreshold
          /\ begun' = begun
          /\ successes' = IF healthy THEN successes + 1 ELSE 0
          /\ successes' >= healthyThreshold
          /\ Record(healthy, failures')
      BY <2>1 DEF GatePoll, thresholds
    <2>4. /\ healthyThreshold \in Nat \ {0} /\ successes \in Nat
          /\ Len(history) \in Nat /\ begun \in Nat /\ failures' \in Nat
          /\ unhealthyThreshold \in Nat \ {0}
      BY <2>2 DEF GateTypes
    <2>5. healthy /\ successes + 1 >= healthyThreshold
      BY <2>3, <2>4
    <2>6. /\ Len(history') = Len(history) + 1
          /\ \A m \in 1..Len(history) : Good(history', m) <=> Good(history, m)
          /\ Good(history', Len(history) + 1)
      <3>1. PICK n \in Nat : n = failures'
        BY <2>4
      <3> QED BY ZenonT(30), <2>2, <2>3, <2>5, <3>1, Recorded
    <2>7. /\ successes <= Len(history) - begun
          /\ \A m \in (Len(history) - successes + 1)..Len(history) :
               Good(history, m)
          /\ \A m \in begun..(Len(history) - unhealthyThreshold) :
               \E k \in (m + 1)..(m + unhealthyThreshold) : Good(history, k)
      BY <2>2 DEF Waiting, SuccessesInARow, NoFullRun
    <2>8. /\ healthyThreshold <= Len(history')
          /\ Len(history') - begun >= healthyThreshold
      BY <2>4, <2>5, <2>6, <2>7
    <2>9. \A m \in (Len(history') - healthyThreshold + 1)..Len(history') :
            history'[m].healthy = TRUE
      BY <2>4, <2>5, <2>6, <2>7 DEF Good
    <2>10. Run(healthyThreshold, TRUE)'
      BY <2>3, <2>8, <2>9 DEF Run
    <2>11. \A m \in begun..(Len(history) - unhealthyThreshold) :
             \E k \in (m + 1)..(m + unhealthyThreshold) : history[k].healthy
      BY <2>7 DEF Good
    <2> QED BY ZenonT(30), <2>8, <2>10, <2>11
  <1> QED BY <1>1, GateInvariant, PTL DEF HealthSpec, GateIsEarned

\* The monitor hands a RUNNING instance to self-healing exactly when its newest
\* unhealthy_threshold answers are failures: the count continued from the stored
\* row (_poll_and_maybe_heal) is neither short nor long, for any thresholds.
THEOREM HealingIsEarned == HealthSpec => HealsOnRun
  <1> DEFINE Heals ==
        phase = "running" /\ history' # history
          => (phase' = "heal" <=> Run(unhealthyThreshold, FALSE)')
  <1>1. ASSUME GateInv, GateInv', [HealthNext]_healthVars
        PROVE  [Heals]_healthVars
    <2> SUFFICES ASSUME HealthNext, phase = "running"
                 PROVE  phase' = "heal" <=> Run(unhealthyThreshold, FALSE)'
      BY ZenonT(30), <1>1
    <2>1. PICK healthy \in BOOLEAN : MonitorPoll(healthy)
      BY DEF HealthNext, GatePoll, Restarted
    <2>2. GateTypes /\ GateTypes'
      BY <1>1 DEF GateInv
    <2>3. PICK k \in Nat :
            /\ FailuresInARow(history, k, 0)
            /\ k < unhealthyThreshold
            /\ Record(healthy, IF healthy THEN 0 ELSE k + 1)
            /\ phase' = IF ~healthy /\ k + 1 >= unhealthyThreshold
                        THEN "heal" ELSE "running"
            /\ UNCHANGED <<healthyThreshold, unhealthyThreshold, begun,
                           successes, failures>>
      BY <1>1, <2>1, MonitorCounts
    <2>4. PICK n \in Nat : n = IF healthy THEN 0 ELSE k + 1
      OBVIOUS
    <2>5. /\ Len(history') = Len(history) + 1
          /\ Len(history) \in Nat
          /\ Good(history', Len(history) + 1) <=> healthy
          /\ FailuresInARow(history', n, 0)
      <3>1. Record(healthy, n)
        BY <2>3, <2>4
      <3>2. 0 \in 0..Len(history)
        BY <2>2 DEF GateTypes
      <3>3. FailuresInARow(history', IF healthy THEN 0 ELSE k + 1, 0)
        BY <2>2, <2>3, <3>1, <3>2, RunGrows
      <3> QED BY <2>2, <2>4, <3>1, <3>3, Recorded
    <2>6. PICK u \in Nat \ {0} : u = unhealthyThreshold /\ u = unhealthyThreshold'
      BY <2>2, <2>3 DEF GateTypes
    <2>7. Run(unhealthyThreshold, FALSE)' <=>
            /\ u <= Len(history')
            /\ \A m \in (Len(history') - u + 1)..Len(history') : ~Good(history', m)
      <3>1. \A m \in 1..Len(history') :
              ~Good(history', m) <=> history'[m].healthy = FALSE
        BY ZenonT(30), <2>2, GoodOrNot
      <3> QED BY <2>5, <2>6, <3>1 DEF Run
    <2>8. /\ n <= Len(history')
          /\ \A m \in (Len(history') - n + 1)..Len(history') : ~Good(history', m)
          /\ Len(history') - n > 0 => Good(history', Len(history') - n)
      BY <2>5 DEF FailuresInARow
    <2>9. CASE ~healthy /\ k + 1 >= u
      <3>1. n = u /\ phase' = "heal"
        BY <2>3, <2>4, <2>6, <2>9
      <3> QED BY ZenonT(30), <2>7, <2>8, <3>1
    <2>10. CASE healthy \/ k + 1 < u
      <3>1. phase' # "heal" /\ n < u
        BY <2>3, <2>4, <2>6, <2>10
      <3>2. ASSUME u <= Len(history'),
                   \A m \in (Len(history') - u + 1)..Len(history') :
                     ~Good(history', m)
            PROVE  FALSE
        <4>1. /\ Len(history') - n \in (Len(history') - u + 1)..Len(history')
              /\ Len(history') - n > 0
          BY <2>5, <3>1, <3>2
        <4> QED BY <2>8, <3>2, <4>1
      <3> QED BY ZenonT(30), <2>7, <3>1, <3>2
    <2>11. k + 1 >= u \/ k + 1 < u
      OBVIOUS
    <2> QED BY ZenonT(30), <2>9, <2>10, <2>11
  <1> QED BY <1>1, GateInvariant, PTL DEF HealthSpec, HealsOnRun

-----------------------------------------------------------------------------
(* The operation lock *)


\* Timestamps come from a clock that never runs backwards, and no two tasks
\* hold the same one.
TokensFresh ==
    /\ lock <= now
    /\ \A t \in Tasks : token[t] <= now
    /\ \A t, u \in Tasks : token[t] = token[u] /\ token[t] # Free => t = u

\* A task has a timestamp from acquire() on, and none before.
TokensMatchProgress ==
    \A t \in Tasks :
        /\ Live(t) => token[t] # Free
        /\ pc[t] = "new" => token[t] = Free

\* Only a serving process runs tasks.
TasksNeedProcess == cp # "up" => \A t \in Tasks : ~Live(t)

\* There is no Deployment before the start_* function has run, and none without
\* a timestamp; what recovery has failed no longer has a task or the lock.
DeploymentsMatchLock ==
    /\ \A t \in Tasks :
          /\ pc[t] \in {"new", "setup"} => dep[t] = "none"
          /\ dep[t] # "none" => token[t] # Free
          /\ dep[t] = "recovered" => lock # token[t] /\ pc[t] = "gone"
    /\ StuckDeploymentHoldsNoLock

\* The inductive invariant: fencing works because timestamps are unique, and
\* force_release is harmless because recovery runs with no task alive.
LockInv ==
    /\ LockTypeOK
    /\ TokensFresh
    /\ TokensMatchProgress
    /\ TasksNeedProcess
    /\ DeploymentsMatchLock
    /\ FreshOwnerHoldsLock

USE DEF Free, Live, Overran

LEMMA InitLockInv == LockInit => LockInv
  BY LockConstants DEF LockInit, LockInv, LockTypeOK, TokensFresh, TokensMatchProgress,
     TasksNeedProcess, DeploymentsMatchLock, StuckDeploymentHoldsNoLock,
     FreshOwnerHoldsLock

LEMMA LockTypeStep == LockInv /\ [LockNext]_lockVars => LockTypeOK'
  <1> SUFFICES ASSUME LockInv, [LockNext]_lockVars PROVE LockTypeOK'
    OBVIOUS
  <1> USE LockConstants DEF LockInv, LockTypeOK
  <1>1. ASSUME NEW t \in Tasks, TaskStep(t) \/ ReconcileDeployment(t)
        PROVE  LockTypeOK'
    BY <1>1 DEF TaskStep, Acquire, Refuse, StartOperation, SetupRejected,
       SetupRaises, Advance, Conclude, Finish, Released, ReconcileDeployment
  <1>2. CASE Crash \/ Restart \/ Serve \/ Tick
    BY <1>2 DEF Crash, Restart, Serve, Tick
  <1>3. CASE UNCHANGED lockVars
    BY <1>3 DEF lockVars
  <1> QED
    BY <1>1, <1>2, <1>3 DEF LockNext

\* Uniqueness survives because acquire() writes a clock value no task has.
LEMMA TokensFreshStep == LockInv /\ [LockNext]_lockVars => TokensFresh'
  <1> SUFFICES ASSUME LockInv, [LockNext]_lockVars PROVE TokensFresh'
    OBVIOUS
  <1> USE LockConstants DEF LockInv, LockTypeOK, TokensFresh
  <1>1. ASSUME NEW t \in Tasks, Acquire(t)
        PROVE  TokensFresh'
    BY <1>1 DEF Acquire, FreshClock
  <1>2. ASSUME NEW t \in Tasks, TaskStep(t) \/ ReconcileDeployment(t), ~Acquire(t)
        PROVE  TokensFresh'
    BY <1>2 DEF TaskStep, Refuse, StartOperation, SetupRejected, SetupRaises,
       Advance, Conclude, Finish, Released, ReconcileDeployment
  <1>3. CASE Crash \/ Restart \/ Serve \/ Tick
    BY <1>3 DEF Crash, Restart, Serve, Tick
  <1>4. CASE UNCHANGED lockVars
    BY <1>4 DEF lockVars
  <1> QED
    BY <1>1, <1>2, <1>3, <1>4 DEF LockNext

LEMMA ProgressStep ==
  LockInv /\ [LockNext]_lockVars => TokensMatchProgress' /\ TasksNeedProcess'
  <1> SUFFICES ASSUME LockInv, [LockNext]_lockVars
               PROVE  TokensMatchProgress' /\ TasksNeedProcess'
    OBVIOUS
  <1> USE LockConstants DEF LockInv, LockTypeOK, TokensMatchProgress, TasksNeedProcess
  <1>1. ASSUME NEW t \in Tasks, Acquire(t)
        PROVE  TokensMatchProgress' /\ TasksNeedProcess'
    BY <1>1 DEF Acquire
  <1>2. ASSUME NEW t \in Tasks, TaskStep(t) \/ ReconcileDeployment(t), ~Acquire(t)
        PROVE  TokensMatchProgress' /\ TasksNeedProcess'
    BY <1>2 DEF TaskStep, Refuse, StartOperation, SetupRejected, SetupRaises,
       Advance, Conclude, Finish, ReconcileDeployment
  <1>3. CASE Crash \/ Restart \/ Serve \/ Tick
    BY <1>3 DEF Crash, Restart, Serve, Tick
  <1>4. CASE UNCHANGED lockVars
    BY <1>4 DEF lockVars
  <1> QED
    BY <1>1, <1>2, <1>3, <1>4 DEF LockNext

LEMMA DeploymentsStep == LockInv /\ [LockNext]_lockVars => DeploymentsMatchLock'
  <1> SUFFICES ASSUME LockInv, [LockNext]_lockVars PROVE DeploymentsMatchLock'
    OBVIOUS
  <1> USE LockConstants DEF LockInv, LockTypeOK, TokensFresh, TokensMatchProgress,
          TasksNeedProcess, DeploymentsMatchLock, StuckDeploymentHoldsNoLock
  <1>1. ASSUME NEW t \in Tasks, Acquire(t)
        PROVE  DeploymentsMatchLock'
    \* The new timestamp differs from every other task's, so no other task's
    \* Deployment is tied to the row any more.
    BY <1>1 DEF Acquire, FreshClock
  <1>2. ASSUME NEW t \in Tasks,
               Refuse(t) \/ StartOperation(t) \/ SetupRaises(t) \/ Advance(t) \/ Conclude(t)
        PROVE  DeploymentsMatchLock'
    BY <1>2 DEF Refuse, StartOperation, SetupRaises, Advance, Conclude
  <1>3. ASSUME NEW t \in Tasks, SetupRejected(t) \/ Finish(t)
        PROVE  DeploymentsMatchLock'
    BY <1>3 DEF SetupRejected, Finish, Released
  <1>4. ASSUME NEW t \in Tasks, ReconcileDeployment(t)
        PROVE  DeploymentsMatchLock'
    BY <1>4 DEF ReconcileDeployment
  <1>5. CASE Crash
    BY <1>5 DEF Crash
  <1>6. CASE Restart \/ Serve \/ Tick
    BY <1>6 DEF Restart, Serve, Tick
  <1>7. CASE UNCHANGED lockVars
    BY <1>7 DEF lockVars
  <1> QED
    BY ZenonT(30), <1>1, <1>2, <1>3, <1>4, <1>5, <1>6, <1>7 DEF LockNext, TaskStep

\* The heart of the argument.  A task that is in time has its own timestamp in
\* the row.  acquire() overwrites only a stale one; release() by anybody else
\* compares a different timestamp; force_release() runs with no task alive.
LEMMA FreshOwnerStep == LockInv /\ [LockNext]_lockVars => FreshOwnerHoldsLock'
  <1> SUFFICES ASSUME LockInv, [LockNext]_lockVars PROVE FreshOwnerHoldsLock'
    OBVIOUS
  <1> USE LockConstants DEF LockInv, LockTypeOK, TokensFresh, TokensMatchProgress,
          TasksNeedProcess, FreshOwnerHoldsLock
  <1>1. ASSUME NEW t \in Tasks, Acquire(t)
        PROVE  FreshOwnerHoldsLock'
    BY <1>1 DEF Acquire, Acquirable
  <1>2. ASSUME NEW t \in Tasks,
               Refuse(t) \/ StartOperation(t) \/ SetupRaises(t) \/ Advance(t) \/ Conclude(t)
        PROVE  FreshOwnerHoldsLock'
    BY <1>2 DEF Refuse, StartOperation, SetupRaises, Advance, Conclude
  <1>3. ASSUME NEW t \in Tasks, SetupRejected(t) \/ Finish(t)
        PROVE  FreshOwnerHoldsLock'
    BY <1>3 DEF SetupRejected, Finish, Released
  <1>4. ASSUME NEW t \in Tasks, ReconcileDeployment(t)
        PROVE  FreshOwnerHoldsLock'
    BY <1>4 DEF ReconcileDeployment
  <1>5. CASE Crash \/ Restart \/ Serve
    BY <1>5 DEF Crash, Restart, Serve
  <1>6. CASE Tick
    BY <1>6 DEF Tick
  <1>7. CASE UNCHANGED lockVars
    BY <1>7 DEF lockVars
  <1> QED
    BY ZenonT(30), <1>1, <1>2, <1>3, <1>4, <1>5, <1>6, <1>7 DEF LockNext, TaskStep

\* LockInv holds in every reachable state.
THEOREM LockInvariance == LockSpec => []LockInv
  <1>1. LockInv /\ [LockNext]_lockVars => LockInv'
    BY LockTypeStep, TokensFreshStep, ProgressStep, DeploymentsStep, FreshOwnerStep
       DEF LockInv
  <1> QED
    BY InitLockInv, <1>1, PTL DEF LockSpec

\* Every reachable state is well typed.
THEOREM TypeCorrect == LockSpec => []LockTypeOK
  BY LockInvariance, PTL DEF LockInv

\* The row holds the timestamp of every operation that is within its time:
\* acquire(), release() and force_release() never take it away.
THEOREM FreshOwner == LockSpec => []FreshOwnerHoldsLock
  BY LockInvariance, PTL DEF LockInv

\* At most one operation within its time runs against the application.
THEOREM MutualExclusion == LockSpec => []OneFreshOperation
  <1>1. LockInv => OneFreshOperation
    BY DEF LockInv, LockTypeOK, TokensFresh, TokensMatchProgress,
       FreshOwnerHoldsLock, OneFreshOperation
  <1> QED
    BY LockInvariance, <1>1, PTL

\* A Deployment that is still IN_PROGRESS, or that recovery has failed, never
\* keeps the lock of a serving process without a task: the finally block releases it on every way out of the
\* pipeline, and recovery, however often it is interrupted, before it serves.
THEOREM StuckDeployments == LockSpec => []StuckDeploymentHoldsNoLock
  BY LockInvariance, PTL DEF LockInv, DeploymentsMatchLock

\* A lock is only ever given up by its owner, taken over when stale, or
\* cleared by recovery while nothing runs.
THEOREM NeverStolen == LockSpec => LockNeverStolen
  <1> DEFINE A == lock # Free /\ lock' # lock =>
                    \/ \E t \in Tasks : token[t] = lock /\ Live(t) /\ pc'[t] = "gone"
                    \/ lock + StaleAfter < now
                    \/ cp = "recovering" /\ \A t \in Tasks : ~Live(t)
  <1>1. LockInv /\ [LockNext]_lockVars => A
    <2> SUFFICES ASSUME LockInv, LockNext PROVE A
      BY DEF lockVars
    <2> USE DEF LockInv, LockTypeOK
    <2>1. ASSUME NEW t \in Tasks, TaskStep(t) PROVE A
      BY <2>1 DEF TaskStep, Acquire, Acquirable, Refuse, StartOperation,
         SetupRejected, SetupRaises, Advance, Conclude, Finish, Released
    <2>2. ASSUME NEW t \in Tasks, ReconcileDeployment(t) PROVE A
      BY <2>2 DEF ReconcileDeployment, TasksNeedProcess
    <2>3. CASE Crash \/ Restart \/ Serve \/ Tick
      BY <2>3 DEF Crash, Restart, Serve, Tick
    <2> QED
      BY <2>1, <2>2, <2>3 DEF LockNext
  <1> QED
    BY LockInvariance, <1>1, PTL DEF LockSpec, LockNeverStolen

----------------------------------------------------------------------------

\* A live operation is inside its current wait, and all its waits together
\* started no later than their timeouts allow.
Timely ==
    \A t \in Tasks :
        Live(t) =>
          /\ now <= stepStart[t] + StepTime
          /\ stepStart[t] <= token[t] + steps[t] * StepTime
          /\ token[t] <= stepStart[t]

\* The timeouts of all the waits of one operation fit into STALE_LOCK_AFTER.
FitsInTime == (MaxSteps + 1) * StepTime <= StaleAfter

LEMMA WaitsAddUp ==
  ASSUME NEW n \in Nat, NEW m \in Nat, NEW d \in Nat, n <= m
  PROVE  /\ (n + 1) * d = n * d + d
         /\ n * d <= m * d
         /\ n * d \in Nat
  OBVIOUS

LEMMA TimelyStep == LockInv /\ Timely /\ [LockNext]_lockVars => Timely'
  <1> SUFFICES ASSUME LockInv, Timely, [LockNext]_lockVars PROVE Timely'
    OBVIOUS
  <1> USE LockConstants DEF LockInv, LockTypeOK, TokensMatchProgress, Timely
  <1>1. ASSUME NEW t \in Tasks, Acquire(t) PROVE Timely'
    BY <1>1 DEF Acquire
  <1>2. ASSUME NEW t \in Tasks, Advance(t) PROVE Timely'
    <2>1. (steps[t] + 1) * StepTime = steps[t] * StepTime + StepTime
      BY WaitsAddUp
    <2>2. steps[t] * StepTime \in Nat
      BY WaitsAddUp
    <2>3. ASSUME NEW u \in Tasks, u # t, Live(u)
          PROVE  UNCHANGED <<pc[u], token[u], stepStart[u], steps[u], now>>
      BY <1>2, <2>3 DEF Advance
    <2> QED
      BY <1>2, <2>1, <2>2, <2>3 DEF Advance, TokensFresh
  <1>3. ASSUME NEW t \in Tasks,
               \/ Refuse(t) \/ StartOperation(t) \/ SetupRejected(t)
               \/ SetupRaises(t) \/ Conclude(t) \/ Finish(t) \/ ReconcileDeployment(t)
        PROVE  Timely'
    BY <1>3 DEF Refuse, StartOperation, SetupRejected, SetupRaises, Conclude, Finish,
       ReconcileDeployment
  <1>4. CASE Crash \/ Restart \/ Serve
    BY <1>4 DEF Crash, Restart, Serve
  <1>5. CASE Tick
    BY <1>5 DEF Tick
  <1>6. CASE UNCHANGED lockVars
    BY <1>6 DEF lockVars
  <1> QED
    BY ZenonT(30), <1>1, <1>2, <1>3, <1>4, <1>5, <1>6 DEF LockNext, TaskStep

\* What STALE_LOCK_AFTER has to satisfy: when the timeouts of one operation's
\* waits add up to no more than it, two operations never run at once.
THEOREM ExclusionWhenTimely == FitsInTime => (LockSpec => []OneOperation)
  <1> SUFFICES ASSUME FitsInTime PROVE LockSpec => []OneOperation
    OBVIOUS
  <1>1. LockInit => Timely
    BY DEF LockInit, Timely
  <1>2. LockInv /\ Timely => OneOperation
    <2> SUFFICES ASSUME LockInv, Timely PROVE OneOperation
      OBVIOUS
    <2>1. ASSUME NEW t \in Tasks, Live(t) PROVE ~Overran(t)
      <3>1. steps[t] * StepTime <= MaxSteps * StepTime
        BY WaitsAddUp, LockConstants DEF LockInv, LockTypeOK
      <3>2. (MaxSteps + 1) * StepTime = MaxSteps * StepTime + StepTime
        BY WaitsAddUp, LockConstants
      <3>3. /\ steps[t] * StepTime \in Nat
            /\ MaxSteps * StepTime \in Nat
        BY WaitsAddUp, LockConstants DEF LockInv, LockTypeOK
      <3> QED
        BY <2>1, <3>1, <3>2, <3>3, LockConstants
           DEF LockInv, LockTypeOK, Timely, FitsInTime
    <2> QED
      BY <2>1 DEF LockInv, LockTypeOK, TokensFresh, TokensMatchProgress,
         FreshOwnerHoldsLock, OneOperation
  <1> QED
    BY LockInvariance, TimelyStep, <1>1, <1>2, PTL DEF LockSpec
============================================================================
