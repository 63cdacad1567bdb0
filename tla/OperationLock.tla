--------------------------- MODULE OperationLock ---------------------------
(***************************************************************************)
(* The per-application operation lock of the Control Plane                 *)
(* (services/lock_service.py), the requests and monitor ticks that take    *)
(* it, and the startup recovery that clears it (reconcile_service.py).     *)
(*                                                                         *)
(* The lock is one column of one database row, so one application is       *)
(* modelled.  Every statement that touches the column is a single          *)
(* committed UPDATE and is one step here.  What takes time is what a task  *)
(* does between two such statements: it waits for an Agent command, a      *)
(* health gate, a drain, or a Gateway Manager reply.                       *)
(***************************************************************************)
EXTENDS Naturals

CONSTANTS
    Tasks,        \* attempts to run an operation: one per request or heal
    Deploying,    \* those that create a Deployment: deploy, scale, switch
    StaleAfter,   \* lock_service.STALE_LOCK_AFTER, in clock units
    StepTime,     \* the longest single wait of an operation
    MaxSteps,     \* how many waits one operation makes at most
    MaxClock      \* bound on the clock, for model checking

ASSUME LockConstants ==
    /\ Deploying \subseteq Tasks
    /\ StaleAfter \in Nat
    /\ StepTime \in Nat
    /\ MaxSteps \in Nat
    /\ MaxClock \in Nat

VARIABLES
    now,        \* the clock the process reads
    lock,       \* operation_lock_acquired_at, Free when NULL
    cp,         \* the Control Plane process: up, down or recovering
    pc,         \* where each task is
    token,      \* the timestamp acquire() returned to the task
    steps,      \* waits the task has finished
    stepStart,  \* when its current wait began
    dep         \* the task's Deployment row: "none" before it exists, "recovered"
                \* when it is FAILED with STUCK_DEPLOYMENT_REASON

lockVars == <<now, lock, cp, pc, token, steps, stepStart, dep>>

\* operation_lock and operation_lock_acquired_at are always written together,
\* so NULL in both is one value.  The clock starts after it.
Free == 0

LockTypeOK ==
    /\ now \in Nat \ {Free}
    /\ lock \in Nat
    /\ cp \in {"up", "down", "recovering"}
    /\ pc \in [Tasks -> {"new", "setup", "running", "closing", "gone"}]
    /\ token \in [Tasks -> Nat]
    /\ steps \in [Tasks -> 0..MaxSteps]
    /\ stepStart \in [Tasks -> Nat]
    /\ dep \in [Tasks -> {"none", "in_progress", "finished", "recovered"}]

LockInit ==
    /\ now = 1
    /\ lock = Free
    /\ cp = "up"
    /\ pc = [t \in Tasks |-> "new"]
    /\ token = [t \in Tasks |-> Free]
    /\ steps = [t \in Tasks |-> 0]
    /\ stepStart = [t \in Tasks |-> Free]
    /\ dep = [t \in Tasks |-> "none"]

----------------------------------------------------------------------------

\* The task is between acquire() and its release().
Live(t) == pc[t] \in {"setup", "running", "closing"}

\* The lock the task took is past STALE_LOCK_AFTER.
Overran(t) == token[t] + StaleAfter < now

\* Faulty variant: a lock counts as abandoned one tick early.
AcquirableEarly == lock = Free \/ lock + StaleAfter <= now

\* The WHERE clause of acquire(): unlocked, or abandoned for too long.
Acquirable == lock = Free \/ lock + StaleAfter < now

\* Faulty variant: release() without the comparison of timestamps.
ReleasedUnfenced(t) == Free

\* The value of the column after release(token of t).  The WHERE clause
\* compares the timestamps, so another task's lock is left alone.
Released(t) == IF lock = token[t] THEN Free ELSE lock

\* The clock has microseconds and a statement takes longer than one, so no two
\* calls of acquire() read the same time.
FreshClock == \A u \in Tasks : token[u] # now

----------------------------------------------------------------------------

\* acquire() succeeds.  The deploy, scale, release and rollback routes go on
\* to their start_* function; heal, restart and stop enter their try block.
Acquire(t) ==
    /\ cp = "up"
    /\ pc[t] = "new"
    /\ Acquirable
    /\ FreshClock
    /\ lock' = now
    /\ token' = [token EXCEPT ![t] = now]
    /\ stepStart' = [stepStart EXCEPT ![t] = now]
    /\ pc' = [pc EXCEPT ![t] = IF t \in Deploying THEN "setup" ELSE "running"]
    /\ UNCHANGED <<now, cp, steps, dep>>

\* acquire() raises OperationLockHeldError: a 409, or a heal left for a later
\* tick.
Refuse(t) ==
    /\ cp = "up"
    /\ pc[t] = "new"
    /\ ~Acquirable
    /\ pc' = [pc EXCEPT ![t] = "gone"]
    /\ UNCHANGED <<now, lock, cp, token, steps, stepStart, dep>>

\* start_deployment / start_scale / start_new_release / start_rollback commits
\* the IN_PROGRESS Deployment and the background task is scheduled.
StartOperation(t) ==
    /\ pc[t] = "setup"
    /\ pc' = [pc EXCEPT ![t] = "running"]
    /\ dep' = [dep EXCEPT ![t] = "in_progress"]
    /\ UNCHANGED <<now, lock, cp, token, steps, stepStart>>

\* The start_* function raises its *SetupError: the route releases the lock.
SetupRejected(t) ==
    /\ pc[t] = "setup"
    /\ pc' = [pc EXCEPT ![t] = "gone"]
    /\ lock' = Released(t)
    /\ UNCHANGED <<now, cp, token, steps, stepStart, dep>>

\* The start_* function raises anything else (a stored config that no longer
\* validates, a database error): the route has no handler for it and the lock
\* stays.
SetupRaises(t) ==
    /\ pc[t] = "setup"
    /\ pc' = [pc EXCEPT ![t] = "gone"]
    /\ UNCHANGED <<now, lock, cp, token, steps, stepStart, dep>>

\* One wait of a running operation ends and the next one begins.
Advance(t) ==
    /\ pc[t] \in {"running", "closing"}
    /\ steps[t] < MaxSteps
    /\ steps' = [steps EXCEPT ![t] = @ + 1]
    /\ stepStart' = [stepStart EXCEPT ![t] = now]
    /\ UNCHANGED <<now, lock, cp, pc, token, dep>>

\* The Deployment is committed as SUCCEEDED or FAILED.  The lock is released by
\* a later commit; a deploy waits for the Gateway Manager in between.
Conclude(t) ==
    /\ pc[t] = "running"
    /\ t \in Deploying
    /\ dep' = [dep EXCEPT ![t] = "finished"]
    /\ pc' = [pc EXCEPT ![t] = "closing"]
    /\ UNCHANGED <<now, lock, cp, token, steps, stepStart>>

\* The operation returns or raises: the finally block releases the lock.  A
\* Deployment is still IN_PROGRESS when an exception, or an early return, cut
\* the pipeline short.
Finish(t) ==
    /\ pc[t] \in {"running", "closing"}
    /\ pc' = [pc EXCEPT ![t] = "gone"]
    /\ lock' = Released(t)
    /\ UNCHANGED <<now, cp, token, steps, stepStart, dep>>

----------------------------------------------------------------------------

\* The process dies: nothing in memory survives, the database does.
Crash ==
    /\ cp \in {"up", "recovering"}
    /\ cp' = "down"
    /\ pc' = [t \in Tasks |-> IF Live(t) THEN "gone" ELSE pc[t]]
    /\ UNCHANGED <<now, lock, token, steps, stepStart, dep>>

\* The process starts and runs reconcile_on_startup before serving.
Restart ==
    /\ cp = "down"
    /\ cp' = "recovering"
    /\ UNCHANGED <<now, lock, pc, token, steps, stepStart, dep>>

\* Faulty variant: the Deployment is failed but its lock is left to go stale.
ReconcileWithoutRelease(t) ==
    /\ cp = "recovering"
    /\ dep[t] = "in_progress"
    /\ dep' = [dep EXCEPT ![t] = "recovered"]
    /\ UNCHANGED <<now, lock, cp, pc, token, steps, stepStart>>

\* Faulty variant: recovery also runs while the application serves.
ReconcileWhileServing(t) ==
    /\ cp # "down"
    /\ dep[t] = "in_progress"
    /\ dep' = [dep EXCEPT ![t] = "recovered"]
    /\ lock' = Free
    /\ UNCHANGED <<now, cp, pc, token, steps, stepStart>>

\* One iteration of reconcile_stuck_deployments.  The FAILED status is only
\* flushed; force_release commits it together with the cleared lock.
ReconcileDeployment(t) ==
    /\ cp = "recovering"
    /\ dep[t] = "in_progress"
    /\ dep' = [dep EXCEPT ![t] = "recovered"]
    /\ lock' = Free
    /\ UNCHANGED <<now, cp, pc, token, steps, stepStart>>

\* No IN_PROGRESS Deployment is left: the application starts serving.
Serve ==
    /\ cp = "recovering"
    /\ \A t \in Tasks : dep[t] # "in_progress"
    /\ cp' = "up"
    /\ UNCHANGED <<now, lock, pc, token, steps, stepStart, dep>>

\* Time passes.  No wait outlasts its own timeout.
Tick ==
    /\ now < MaxClock
    /\ \A t \in Tasks : Live(t) => now < stepStart[t] + StepTime
    /\ now' = now + 1
    /\ UNCHANGED <<lock, cp, pc, token, steps, stepStart, dep>>

----------------------------------------------------------------------------

TaskStep(t) ==
    \/ Acquire(t) \/ Refuse(t)
    \/ StartOperation(t) \/ SetupRejected(t) \/ SetupRaises(t)
    \/ Advance(t) \/ Conclude(t) \/ Finish(t)

LockNext ==
    \/ \E t \in Tasks : TaskStep(t) \/ ReconcileDeployment(t)
    \/ Crash \/ Restart \/ Serve \/ Tick

LockSpec == LockInit /\ [][LockNext]_lockVars

----------------------------------------------------------------------------

\* As long as a task's lock is not stale, the column still holds the timestamp
\* that the task was given: neither a slower task's release() nor the startup
\* recovery takes a lock away from an operation that is within its time.
FreshOwnerHoldsLock ==
    \A t \in Tasks : Live(t) /\ ~Overran(t) => lock = token[t]

\* Of all the operations running against the application, at most one is
\* within its time.  This is the "one operation at a time" that the docstring
\* of release() argues for: a stale holder may still run beside its successor,
\* but its release() never lets a third one in beside the second.
OneFreshOperation ==
    \A t, u \in Tasks :
        Live(t) /\ Live(u) /\ ~Overran(t) /\ ~Overran(u) => t = u

\* "Two conflicting operations can never run against one application at once",
\* with no allowance for stale holders.
OneOperation == \A t, u \in Tasks : Live(t) /\ Live(u) => t = u

\* While the application serves, the only Deployments that leave their lock
\* behind are those the pipeline itself had concluded, stopped between its two
\* commits.  One that is IN_PROGRESS with its task gone does not hold the lock,
\* nor does one that recovery has failed, even when recovery itself was killed
\* and started over.
StuckDeploymentHoldsNoLock ==
    \A t \in Tasks :
        cp = "up" /\ pc[t] = "gone" /\ dep[t] \in {"in_progress", "recovered"} => lock # token[t]

\* A lock that changes hands was given up by its owner, or had gone stale, or
\* is cleared by recovery at a time when no operation runs.
LockNeverStolen ==
    [][ lock # Free /\ lock' # lock =>
          \/ \E t \in Tasks : token[t] = lock /\ Live(t) /\ pc'[t] = "gone"
          \/ lock + StaleAfter < now
          \/ cp = "recovering" /\ \A t \in Tasks : ~Live(t) ]_lockVars

\* "To free the application's operation lock immediately rather than wait for
\* lock_service's own stale-lock timeout": no lock survives a restart.
RestartFreesLock == [][cp = "recovering" /\ cp' = "up" => lock' = Free]_lockVars
============================================================================
