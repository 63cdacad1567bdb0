# Healer: a TLA+ verification project

Healer deploys applications to servers, routes traffic to them and repairs them.
This directory models the parts of it in which order matters (locks, messages
between processes, overlapping transactions, crashes, partial failures), checks
them with TLC on small instances, and proves the safety properties of all nine
specifications with TLAPS for every instance.

## 1. The system

| Part | State | Operations | Hard behaviour |
|---|---|---|---|
| Operation lock (`lock_service.py`) | lock token and time on the application row | acquire, release, forced release | takeover of a stale lock, crash of the owner |
| Agent commands, control plane (`command_service.py`, `ws.py`, `connection_manager.py`) | command rows, registered socket, waiters | submit, wait, deliver the backlog, record an event, expire | coroutines that interleave at each await, row locks held across awaits, replies before the commit |
| Agent commands, agent (`agent.go`, `journal.go`, `client.go`) | journal, in-flight set, goroutines | read, guard, journal, acknowledge, execute, report | reconnects, redelivery, restart with only the journal left |
| Servers and enrollment (`servers.py`, `agents.py`, `ws.py`, `agent_service.py`, `agent_status.py`) | servers, tokens, agents, connection rows, the registry | create, issue, revoke, enroll, connect, heartbeat, disconnect | two requests with one token, a revocation during an accept, a disconnect after the reconnect |
| Accounts (`auth_service.py`, `user_service.py`, their routes, `deps.py`) | users, roles, sessions | login, refresh, logout, password change, user management | transactions that read before another commits |
| Applications (`application_service.py`, `app_validation.py`, `secret_service.py`, `certificates.py`) | application rows, domains, secrets | create, update, target, secrets, validate | row locks, unique indexes, objects loaded before another commit, dates |
| Logs (`log_service.py`, `collect_logs.go`, `instancehost.go`, `dockerengine/client.go`) | a growing, rotating log; the offset of the viewer | bounded fetch, live tail | late answers, rotation, limits on bytes and lines |
| Operations on an application (`deployment_`, `scale_`, `release_`, `self_healing_`, `instance_service.py`) | instances, releases, active release, deployment | deploy, scale, switch, roll back, heal, restart, stop | agent and gateway answers that fail, are lost, or come late |
| Health checks (`health_check_service.py`, `health_monitor.py`) | results, consecutive counts | gate, monitor | thresholds, flapping |
| Gateway sync (`gateway_service.py`) and Gateway Manager (`nginx_manager.py`) | managed files, loaded configuration | reload | two applications at once, rejected files, container restart |
| Startup recovery (`reconcile_service.py`) | the rows above | fail what was left mid-transition | crash at every await |

One control-plane process runs an asyncio loop; database calls are synchronous,
so a coroutine is atomic between two awaits. Routes declared with a plain `def`
run in threads instead: their transactions overlap under READ COMMITTED. Each
server runs one agent, which dials the control plane. The Gateway Manager serves
requests in threads next to one Nginx. `PROJECT.json` lists every part, the
unmodelled ones too, and the hazards with the line where each bites.

## 2. The modules

| Module | Models | State and actions |
|---|---|---|
| `OperationLock` | `lock_service.py`, the setup of the operations, `reconcile_stuck_deployments` | one record per operation (token, step, waiting time), the lock, the clock. `Acquire`/`Refuse` are the conditional UPDATE, `StartOperation`/`SetupRejected`/`SetupRaises` the three ways out of the setup, `Advance` the waits of the task, `Conclude` the commit that ends its Deployment, `Finish` the release after it, `Crash`/`Restart`/`ReconcileDeployment`/`Serve` the restart, `Tick` time |
| `StateMachines` | `state_machines.py` | the transition tables as data |
| `AgentChannel` | the WebSocket connections | in order, no duplicates, cut at any point |
| `AgentExecutor` | `agent.go`, `journal.go`, `client.go` | the read loop step by step between critical sections, one record per goroutine |
| `CommandLink` | `command_service.py`, `ws.py`, `connection_manager.py` | one action per stretch between two awaits; `txn` holds flushed, uncommitted updates and so the row locks; the sweep runs in a thread |
| `CommandSystem` | both sides together | breaks, expiry, restarts of either process |
| `Enrollment` | servers, tokens, credentials, the life of a connection | requests split between their reads and their commit, the socket handler split at its awaits; `rows` counts the open `agent_connections` rows, `registry` is `ConnectionManager._connections`, and `PeerDies` an agent that is gone without a close |
| `Accounts` | login, refresh, logout, password change, roles, activation | a request is a record of what it has read so far; each action is a stretch up to a read that another commit can change, or the commit |
| `Certificates` | the checks on a pair of certificate files | operators on a pair and a day: the code's checks beside the definition of a sound pair |
| `ApplicationConfig` | creation, update, target, secrets, validation | rows, `locked` for the row locks of flushed updates, requests with the row they loaded and whether it is `stale` |
| `LogTail` | the live tail from the viewer to the bytes the agent reads | `WriteLog`, `Rotate`, `AskNext`, `AgentReads`, `Yield`, late answers, reconnects |
| `RoutingTable` | what the Gateway Manager promises | one table from application to configuration, changed one entry at a time |
| `GatewayManager` | `nginx_manager.py`, `gateway.py`, `docker-entrypoint.sh` | `apply()` thread by thread: `Enter`, `Write`, `Test`, `Restore`, `Reload`, `Retest`, `Return`, and `WriteRaises`, `RestoreRaises` for an OSError; Nginx (`MasterReload`) and the certificates are external |
| `Fleet` | rows, ports, processes, upstreams; agent and gateway answers | shared by the five services below |
| `DeploymentService`, `ScaleService`, `ReleaseService`, `HealingService`, `InstanceService` | the service of that name | one action per await; `op` is the running operation |
| `ApplicationOperations` | all of them, the monitor, late effects, crash and recovery | the composed specification and its properties |
| `HealthGate` | `wait_until_healthy` and the monitor's count | one action per poll |
| `MCAccounts`, `MCApplicationConfig` | | constants and symmetry for TLC |
| `AccountsProofs`, `ApplicationConfigProofs`, `EnrollmentProofs` | | theorems about the module of that name |
| `ControlPlaneProofs` | | theorems about `GatewayManager`, `LogTail`, `HealthGate` and `OperationLock`; it extends all four, whose specifications have names of their own for that (`GatewaySpec`, `LogSpec`, `HealthSpec`, `LockSpec`) |
| `CommandProofs` | | the invariant of `CommandSystem`: steps of the agent, steps of the control plane, the rest, and the theorems |
| `FleetSteps`, `FleetSwitches`, `FleetProofs` | | the invariant of `ApplicationOperations` and the steps of deployments, restarts, stops, late effects and recovery in the first, of healing, new releases and rollbacks in the second, of scaling in the third, with the theorems; beside the invariant, what the steps do to rows and processes |

Data is abstract: a command is a model value, a configuration is a record of what
`nginx -t` can tell apart, a process is the number of the instance it belongs to,
a credential is a number. Status tables and the order of effects are kept exactly.
Definitions marked "Faulty variant" are bugs of the kind the properties are there
to catch; no specification uses them.

### Points where the model follows the code closely

- `release()` commits the session, so an operation that raises half-way keeps
  what it had flushed (`ScaleService!StartScale`).
- `get_db` rolls back whatever a request had flushed when any exception leaves the
  route, `HTTPException` included (`Accounts`, `Enrollment!RefuseToken`).
- An attribute is written only if it differs from what was loaded
  (`Enrollment!Register`: a status that changed meanwhile stays).
- `submit_command` transitions an object read before the await
  (`CommandLink!ResumeSubmit` overwrites the row).
- The `finally` of a socket handler unregisters whichever socket is registered
  (`CommandLink!EndHandler`, `Enrollment!Disconnect`).
- An upstream list is computed before the request is sent (`Fleet!Sync`).
- The monitor works on a list read before its awaits (`polled`).
- `nginx -s reload` returns before the master acts on the signal, and a thread that
  waited for `_apply_lock` writes its file at once; a reload that failed or timed
  out may have sent its signal (`GatewayManager!Reload` and `MasterReload`).
- A Deployment is concluded by one commit and its lock released by the next
  (`OperationLock!Conclude` and `Finish`).
- Old releases are deleted one at a time, with a command to the agent in between
  (`ReleaseService!PruneRelease`).
- The certificate check takes PEM and DER alike (`Certificates!Formats`). Nginx
  loads PEM only, so a pair that the check calls sound may still be one that
  `nginx -t` refuses; the properties claim no more than the check looks at.
- Validation also accepts a secret without an application (`GlobalKeys`), which no
  route writes and which is not among those handed to an instance.

## 3. The runs

Runs that pass:

| Run | Shows | Bounds |
|---|---|---|
| `lock_safety` | a lock within its time is not lost; at most one operation within its time; a Deployment that was cut short, or that recovery has failed, does not hold the lock | three operations, limits small enough that every operation can overrun |
| `command_safety` | one goroutine per command; what is acknowledged is journaled; a result is that of an execution that ended; no waiter misses a signal | one command, two connections (one reconnect), two executions, failing journal writes, restarts of both processes |
| `gateway` | when nothing is under way nginx serves what is on disk, unless it read the directory amid a write or refused it, or a write could not be undone (`disturbed`); the directory implements `RoutingTable`; the lock is given up on every path | two applications, two threads, two domains, one upstream; nginx acts on a signal at any later time; certificates that come and go, writes that raise, restarts at any point |
| `fleet_safety` | routing, processes and statuses agree over all sequences of operations, and statuses move along the table | three ports, two replicas, four instance rows, two releases; failing builds, starts and health checks, a lost agent |
| `fleet_crash` | recovery settles everything but PENDING rows; the active release is built | two ports, three rows; a restart at every await, one reload or command that takes effect later, manual syncs |
| `fleet_progress` | each operation ends | two ports, three rows; failing stops, lost answers, unhealthy instances, rejected reloads |
| `health_gate` | the gate opens only after its run of successes; the monitor heals only after its run of failures | thresholds up to three, nine polls |
| `accounts` | nobody is without a role; a session knows the current password; one working token per login; an Administrator remains | two users, three sessions (a login and two successors), two overlapping requests, one password change |
| `enrollment` | a revoked agent gets no commands; a connected one is shown so; each ended connection closes a row; a server whose agent is gone for good ends up offline | one server, two tokens, two credentials, two connections, two overlapping requests, agents that die without a close, restarts |
| `app_config` | replica bounds follow the saved file; one domain row per application; a hostname belongs to its application; a certificate pair that is not sound keeps a validation from answering ok | two applications, two hostnames, two secret keys, one of them without an application, three configurations, targets 1 to 3, two overlapping requests, five writes, three days around the expiry |
| `log_tail` | nothing is shown twice or out of order; only lines over the limit are skipped; the tail catches up | six bytes, a rotation after two, answers of three bytes and one line, both kinds of adapter |

Where two overlapping requests really end in a state the property would exclude
(both have read before either commits, and the code takes no lock), the property
says so: it exempts exactly the rows or requests that overlapped, which the model
marks (`late`, `forked`, `overlapped`, `hidden`, and `disturbed` in the gateway;
history that no action reads). The exemption is a statement about the code: without an overlap there is no other way
to break the property.

One run refutes a sentence of the repository (`findings` quotes it): in
`session_reuse` a refresh with a revoked token revokes the user's other sessions
and answers 401, and the exception makes `get_db` roll the revocation back.

Two replicas are the smallest number for which a batch can fail in the middle,
two releases the smallest for a switch and its rollback, two connections the
smallest for a reconnect, two requests the smallest for an overlap, three sessions
the smallest for a rotated token presented again, three operations the smallest
for a takeover of a takeover. Bounds on rows, releases, credentials and late
effects only end the exploration; `Refuse` keeps a bounded state from looking like
a deadlock.

`CHECK_DEADLOCK FALSE` is set where the system may stop: in the lock runs every
task ends, in the command runs every command ends and the connections are used
up, in the account runs everyone may be signed out once the sessions are used up,
in the health runs a refusal ends the history, and in `GatewayCrash.cfg` a
container whose files nginx rejects does not start again.

### Further configurations

Each of the following has a counterexample to the property it names. The hazards
they belong to are in `PROJECT.json`.

| Configuration | Module | Property | Line | What the counterexample shows |
|---|---|---|---|---|
| `LockOverrun.cfg` | `OperationLock` | `OneOperation` | services/control-plane/app/services/lock_service.py:23 | Seven start waits of 180 s (scale_service.py:252) outlast the 20 minutes of STALE_LOCK_AFTER, so another operation takes the lock and runs beside the scale-up; src/services/control-plane/app/services/lock_service.py:4-5 says "two conflicting operations can never run against one application at once" and lines 21-22 "long enough that a real multi-instance scale-up never trips it itself". |
| `LockOrphan.cfg` | `OperationLock` | `RestartFreesLock` | services/control-plane/app/services/reconcile_service.py:57 | Recovery frees locks only through IN_PROGRESS deployments, so a lock whose operation had not committed its Deployment, has none (heal, restart, stop), or has concluded it and not yet released (scale_service.py:426 and 428, release_service.py:524 and 526; in deployment_service.py:414-422 the gateway sync is awaited in between), stays held; src/services/control-plane/app/services/reconcile_service.py:10-11 says "to free the application's operation lock immediately rather than wait for lock_service's own stale-lock timeout". |
| `CommandStuckLoop.cfg` | `CommandSystem` | `NeverBlocksForever` | services/control-plane/app/services/command_service.py:190 | deliver_pending_commands keeps the row locks of flushed SENT updates across the next await; another coroutine that updates such a row blocks the only event loop, which then cannot reach the commit; src/services/control-plane/app/services/command_service.py:140 says "this never blocks forever". |
| `CommandRevived.cfg` | `CommandSystem` | `TerminalIsFinal` | services/control-plane/app/services/command_service.py:118 | After the await of the send the stale object is moved to SENT whatever the row says by then, so a terminal command becomes sent again; src/services/control-plane/app/domain/state_machines.py:4 says "A state absent from a table's keys, or mapped to an empty set, is terminal." |
| `CommandReconnect.cfg` | `CommandSystem` | `PendingIsDelivered` | services/control-plane/app/api/routes/ws.py:63 | The finally block of an old socket unregisters whatever socket the agent has, so after a reconnect the new one is unknown and commands stay pending beside a connected agent; src/docs/agent-protocol.md:66-68 says "it's created as `pending` and delivered the moment the agent (re)connects". |
| `CommandRunTwice.cfg` | `CommandSystem` | `ExecutedOnce` | agent/internal/core/agent.go:133 | IsCompleted is asked before the in-flight guard: an execution that completes and leaves inFlight in between lets a redelivery run again; src/agent/internal/journal/journal.go:2-4 says "a command the Agent already completed is never executed twice - whether because the Control Plane redelivered it after a reconnect". |
| `GatewayAsync.cfg` | `GatewayManager` | `UnvalidatedIsNotRead` | services/gateway-manager/app/services/nginx_manager.py:144 | nginx -s reload returns once the signal is sent, so the master may read the directory after the next apply() wrote a file that nginx -t has not seen, and serve it although it is then restored; src/services/gateway-manager/app/services/nginx_manager.py:53-54 says "Serializing the whole validate-then-reload sequence makes each apply() atomic with respect to the others." |
| `GatewayCrash.cfg` | `GatewayManager` | `StoppedCanStart` | services/gateway-manager/app/services/nginx_manager.py:134 | A container that stops after the write and before the restore keeps the unvalidated file, and docker-entrypoint.sh's nginx -t under set -e then fails at every start; src/services/gateway-manager/app/services/nginx_manager.py:124-126 says "one application's bad config can never replace another application's (or its own last) working configuration". |
| `FleetUnhealthy.cfg` | `ApplicationOperations` | `Settled` | services/control-plane/app/services/scale_service.py:287 | STARTING has no edge to UNHEALTHY, so the transition raises out of run_scale and the Deployment stays IN_PROGRESS with a STARTING instance; src/docs/scaling.md:74-77 says "A failed `start_instance` or a health check that never passes marks that one instance FAILED/UNHEALTHY ... without aborting the rest of the batch". |
| `FleetHalfDrained.cfg` | `ApplicationOperations` | `RoutesAreUpstreams` | services/control-plane/app/services/scale_service.py:310 | An instance that may not drain raises after newer ones were marked DRAINING; release() in the finally block commits them without a sync, so Nginx routes to DRAINING instances; src/docs/scaling.md:84-86 says "Transition each to DRAINING and sync the gateway once" as "only RUNNING instances are ever in the upstream". |
| `FleetAbort.cfg` | `ApplicationOperations` | `AbortStopsAll` | services/control-plane/app/services/release_service.py:309 | The instance that fails the health gate is marked FAILED but is not in `started`, so it is never stopped; src/docs/blue-green-deployment.md:44-46 says "every new instance started so far (healthy or not) is stopped immediately". |
| `FleetScaleRelease.cfg` | `ApplicationOperations` | `ScaleUsesActiveRelease` | services/control-plane/app/services/scale_service.py:132 | start_scale takes the newest READY release, which after a rollback or an aborted switch is not the active one; src/docs/scaling.md:31-34 says "it's a Deployment against the application's current release". |
| `FleetStop.cfg` | `ApplicationOperations` | `StoppedIsGone` | services/control-plane/app/services/instance_service.py:125 | The agent reports failed steps as a succeeded command with "ok": false, and stop_instance looks only at status and error; src/agent/internal/dispatcher/start_instance.go:79-81 says "a step that fails is reported in the result with \"ok\": false rather than as a Go error, so the Control Plane sees which stage failed". |
| `HealthGateRefusal.cfg` | `HealthGate` | `RefusalIsEarned` | services/control-plane/app/services/health_check_service.py:100 | When the polls are used up the gate refuses whatever the last run was; src/services/control-plane/app/services/health_check_service.py:57-59 says "until `healthy_threshold` consecutive successes (returns True) or `unhealthy_threshold` consecutive failures (returns False)". |
| `EnrollmentOverlap.cfg` | `Enrollment` | `TokenIsSingleUse` | services/control-plane/app/services/agent_service.py:32 | enroll_agent reads used_at without a lock, so two requests that read the token before either commits both get a credential (the second replaces that of the first); src/services/control-plane/app/services/agent_service.py:19 says "Consume a single-use enrollment token". |

### Fairness

- `GatewayFairSpec`: a thread that entered `apply()` goes on, and the
  master acts on its signals, however late. `apply()` has no wait but its
  subprocesses, which have timeouts.
- `ApplicationOperations!FairSpec`: the running operation takes its next step.
  Each of its awaits is bounded (`wait_seconds`, 15 s for a reload, the number of
  polls of the gate). This takes an event loop that runs, which the counterexample
  of `CommandStuckLoop.cfg` shows is not certain; the fleet does not model the
  loop. Nothing is assumed of requests, the monitor or late effects.
- `CommandSystem!FairSpec`: ready coroutines run, a live agent redials and its
  goroutines go on. Nothing is assumed of the network or the clock.
- `Enrollment!FairSpec`: the last heartbeat of a server grows old while no agent is
  at the other end of a connection of it (`Alive`). A live agent sends heartbeats,
  so nothing is assumed of the age of its last one, nor of agents, connections or
  requests: a connection whose agent has died may stay open for ever.
- `LogFairSpec`: the tail loop asks again; strong fairness of the agent's
  read and of the answer says that not every poll is late or cut off. Without it
  a viewer whose every poll times out never catches up.

## 4. Proofs

Every theorem holds for every value of the constants that satisfies the named
assumption of its module. Most state a property of a passing run, which
`PROJECT.json` names; the others say which property they state.

| Module | Theorems | Assumption |
|---|---|---|
| `ControlPlaneProofs`, lock | `TypeCorrect` (`LockTypeOK`), `FreshOwner`, `MutualExclusion`, `StuckDeployments`, `NeverStolen`; `ExclusionWhenTimely`: `OneOperation` if `(MaxSteps + 1) * StepTime <= StaleAfter` | `LockConstants` |
| `ControlPlaneProofs`, log tail | `TailIsInOrder`, `TailSkipsNothing` | `LogConstants` |
| `ControlPlaneProofs`, health | `PassingIsEarned`, `HealingIsEarned` | none |
| `ControlPlaneProofs`, gateway | `DiskIsServed`, `TableIsImplemented` | `GatewayConstants` |
| `AccountsProofs` | `RolesRemain`, `PasswordIsKnown`, `OneToken`, `LastAdministrator` | `AccountConstants` |
| `ApplicationConfigProofs` | `BoundsFollow`, `OneRow`, `OwnHostname`, `UnsoundPairsBlock` | `ConfigConstants`, `CertificateConstants` |
| `CommandProofs` | `OneExecution`, `JournaledBeforeAcknowledged`, `RealResults`, `SignalIsNotLost` | `ChannelConstants` (finitely many commands), `ExecutorConstants`, `FaultConstants` |
| `EnrollmentProofs` | `OneRowPerConnection`, `RevocationDisconnects`, `StatusFollowsRegistry` | `EnrollmentConstants` (finitely many requests at a time) |
| `FleetProofs` | `ActiveReleaseIsBuilt`, `ScaleLeavesTarget`, `RowsKeepToTable` | `FleetConstants` |
| | `RunningIsOwnProcess`, `AbortStopsTheGated` (`AbortStopsGated`) | and `Answered` |
| | `StoppedStaysGone` (`StoppedIsGone`) | and `CanStop` |
| | `OverIsSettled` | and `Decisive` |
| | `OverIsAllSettled` (`Settled`) | and `Decisive`, no crash |
| | `FailedSwitchIsUndone` | and `Orderly` |
| | `RoutesFollowRows`, `TrafficOnlyToGated`, `RoutedIsLeftAlone` | and `Calm` |
| | `RoutesAreExact` (`RoutesAreUpstreams`) | and `Calm`, no unhealthy instances |

The hypotheses of the fleet exclude faults, and so say which failures the
services cope with. They are tight: with any one of the excluded faults TLC has a
counterexample, in the bounds of `FleetSafety.cfg`, to the properties that the
hypothesis is for:

| Hypothesis | Excluded | Because then |
|---|---|---|
| `Orderly` | late reloads, manual syncs, a crash | another request's upstream list arrives between the switch and its revert, or nobody reverts |
| `Answered` | late commands, failing stops, a crash | a start or stop that nobody waits for hits a port that has been given to another instance, or a process that was not stopped still holds it |
| `Decisive` | unhealthy instances, failing stops, late commands | the transition out of a gate or a drain that did not end well raises, and the rows stay as they are (`FleetUnhealthy.cfg`) |
| `Calm` | all but failing builds, starts and health checks and lost agents | a rejected or late reload leaves Nginx with the old upstream while the instance is stopped |
| `CanStop` | failing stops | the instance is STOPPED and its process runs on (`FleetStop.cfg`) |

The exceptions are `RoutesAreCurrent`, which in those bounds also holds with
failing stops and late commands, and `NeverStopRouted`, which holds with failing
stops; that is only model-checked.

Four of these theorems are about properties that section 3 refutes or that are close
to one, and say how far the code does what its documents say. `StoppedStaysGone`:
a failing stop is the only way to the counterexample of `FleetStop.cfg`; no late
command and no restart leads there. `OverIsAllSettled` and `RoutesAreExact`: an
unhealthy instance is behind `FleetUnhealthy.cfg` and `FleetHalfDrained.cfg`, and
`Settled` needs no other exclusion than those of `Decisive` and the restart that
leaves a PENDING row. `AbortStopsTheGated`: an aborted switch stops all it started
but the instance that failed the gate, the one of `FleetAbort.cfg`.

None of the invariants is inductive as it stands. What each proof adds:

- **Lock.** After a takeover the old owner still runs, and only the timestamp that
  `release()` compares keeps it harmless. `LockInv` adds that timestamps are unique
  and not in the future (`TokensFresh`), that a task has one exactly from
  `acquire()` on (`TokensMatchProgress`), that no task runs while the process is
  down or recovering (`TasksNeedProcess`), and that a Deployment has a timestamp,
  and no longer the lock once recovery has failed it (`DeploymentsMatchLock`).
  Recovery takes the Deployments one by one, and a new operation may start as soon
  as it is over. `ExclusionWhenTimely` adds an invariant on the waiting
  time spent so far; `WaitsAddUp` is its arithmetic.
- **Gateway.** Inside `apply()` disk and nginx differ. The table is the
  directory less the write that may yet be undone (`Committed`). `GatewayInv` says
  that whoever is inside holds the lock (`LockIsHeld`), that what `Restore` would
  write is what `Write` replaced (`OldIsKept`), that a stopped container has neither
  threads nor a signal (`StoppedIsIdle`), and that without a signal nginx serves the
  table unless disturbed (`CommittedIsServed`). The refinement maps a
  successful `Reload` to a granted request, a failed check to a denied one, an
  OSError to one broken off and `ContainerDies` to the table's restart; steps of
  nginx are stutters.
- **Accounts.** A commit writes what its request read earlier. `AccountsInv` keeps
  the facts that stay true in between: the checks a request passed
  (`RequestsAreChecked`), that a refresh descends from a login with the password of
  its time (`RefreshesKnowPassword`), and that a password change has selected every
  session but those opened since (`ChangesSelectSessions`).
- **Applications.** `ConfigInv` says that what a request loaded is the row until
  another commit makes it stale (`LoadedIsCurrent`), and that whoever is about to
  insert a Domain row holds the application's row lock and there is none yet
  (`InsertIsLocked`), which rests on rows being renamed and never deleted
  (`DomainHasRow`). A validation that was given an unsound pair has an error from
  then on (`UnsoundIsError`), whatever the later checks and the agent add.
- **Commands.** The evidence for a status travels: from the execution to an event,
  to the row. `CommandInv` says of each place that what it holds is backed by the
  journal and by an execution that ended so (`EventsAreBacked`, `StatusIsBacked`),
  that the in-flight set covers every execution and the command the read loop has
  let through (`InFlightIsKept`), that nothing runs unjournaled (`JournaledFirst`),
  that uncommitted updates are never results (`UpdatesAreOwn`), and that whoever
  waits is registered (`WaitersAreKept`).
- **Log tail.** An answer is computed by the agent at one time and yielded at
  another, and the log may grow or rotate in between. `LogInv` says that an answer
  holds the text of one stretch of the log (`Part`) which begins where the last
  one ended (`Follows`), that nothing beyond the offset has been shown and nothing
  before it skipped (`Shown`), and that a request under way carries the current
  offset (`Asking`). Where a stretch begins and ends after the limits on bytes and
  the rotation are lemmas about the operators of `LogTail` (`Begin`, `Bounds`,
  `RolledForward`).
- **Health.** The code keeps counts, the property speaks of runs of polls. `GateInv`
  says that each count is the length of the newest run of its kind since the gate
  began (`Waiting`) or since the instance was created (`Watched`), and that no
  earlier run was long enough to end the wait.
- **Fleet.** An operation keeps a row number, lists of rows and a release across
  its awaits while monitor, late effects and recovery go on. `FleetInv` says by
  where the operation is what these still are: the row has the status the next
  transition needs (`RowFits`), lists have no duplicates and one status
  (`ListsFit`), the release is built and not the one to be pruned (`ReleasesFit`),
  live replicas and replicas still to come add up to the target (`CountFits`), and
  live instances never share a port (`PortsApart`, the partial unique index). The
  rest depends on the faults: `Unmoved` (a switch finds the routes it began with),
  `Own` (a started process is the row's own), `Underway` (a row in transition is in
  the hands of the operation) and `RoutesFit` (a routed port belongs to a row that
  serves, or is on its way out, and never to a row that the operation is about to
  stop). From `FleetInv` follows what any step does to a row (`RowsFollow`): the port
  stays, the status stays or follows an edge of the table, a new row is STARTING or
  the PENDING one of a first deploy, a row becomes STOPPED only with its process
  gone, and a start that is no longer waited for has a FAILED row. The theorems on
  rows and processes take one more invariant each: late starts are of FAILED rows
  (`Gone`), a PENDING row is being built (`PendingIsBuilt`), a process is on the port
  of its row (`OnOwnPort`) and those an abort has yet to stop are on its list
  (`StoppedSoFar`).
- **Enrollment.** `EnrollInv` says that what is registered for a server is a
  connection of its own agent that has not run its `finally` block
  (`RegistryIsOwn`), so that ending one server's connection never touches another's;
  that an enrollment works on a token that exists, and on an agent that stays
  (`RequestsAreChecked`); and that connections have an agent (`ConnsHaveAgent`).

Each conjunct that an action can disturb has a step of its own. The steps of the
fleet fill three modules. Those of the first two take what they need to know of the
sizes of sets of rows as a hypothesis, `Counting`; `FleetProofs` proves it
(`SetsAreSized`) from the theorems about finite sets. `ControlPlaneProofs` holds four
proofs that have no state in common.

Only model-checked: liveness (`LockIsReleased`, `OperationsEnd`, `SilentIsOffline`,
`CatchesUp`), which is out of the prover's reach. Every invariant and every action
property of a passing run is proved. The type invariants are part of the inductive
invariants and are proved with them.

## 5. Not modelled

- The agent's command line, enrollment call, configuration files and service
  registration; its metrics and log lines: sequential input and output.
- The Docker client and the instance host but for their logs; the steps of
  `deploy_release` and `start_instance` within one command. The fleet sees their
  outcome, the effect on the process of a port.
- Resubmission of a command under the same idempotency key, the content of hello
  messages, the length of the back-off, journal compaction.
- The schema of `healer.yaml` (a configuration is one that parsed), encryption of
  secrets, redaction of log lines, the list of log sources.
- Audit and notification rows, which are only inserted and read; metrics and their
  retention; the row editor, each call of which is one transaction; the Celery
  worker, which has no tasks; the dashboard, a client.
- Expiry of tokens and sessions, which a request that never comes stands for; the
  time a drain waits.
- What `nginx -t` makes of a DER file; a secret without an application at the start
  of an instance. Both are accepted by the validation that is modelled.
- The image of a pruned release when the control plane stops between its removal and
  the commit: the row then outlives its image.
- Which of a server's open `agent_connections` rows a disconnect closes; the model
  counts them.
- The fleet is not composed with the lock: its operations exclude each other, which
  is what `lock_safety` shows of operations within their time.
