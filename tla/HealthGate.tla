----------------------------- MODULE HealthGate -----------------------------
(***************************************************************************)
(* The health history of one instance: wait_until_healthy, which gates a   *)
(* new instance (services/health_check_service.py), and the monitor's poll *)
(* of a RUNNING one, which hands it to self-healing                        *)
(* (services/health_monitor.py).  Both append to the same                  *)
(* HealthCheckResult table; the gate counts in local variables, the        *)
(* monitor continues from the count stored in the last row.  What the      *)
(* instance answers is arbitrary.                                          *)
(***************************************************************************)
EXTENDS Naturals, Sequences

CONSTANTS
    MaxThreshold,  \* bound: healthy_threshold and unhealthy_threshold
    MaxPolls       \* bound: HealthCheckResult rows of the instance

ASSUME GateConstants == MaxThreshold \in Nat \ {0} /\ MaxPolls \in Nat

VARIABLES
    healthyThreshold, unhealthyThreshold,
    history,    \* HealthCheckResult rows: healthy, consecutive_failures
    begun,      \* the length of the history when the gate began to wait
    successes,  \* wait_until_healthy's consecutive_successes
    failures,   \* and its consecutive_failures
    phase       \* "gate", "running", "refused", "heal"

thresholds == <<healthyThreshold, unhealthyThreshold>>
counters == <<begun, successes, failures>>
healthVars == <<thresholds, history, counters, phase>>

HealthTypeOK ==
    /\ healthyThreshold \in 1..MaxThreshold
    /\ unhealthyThreshold \in 1..MaxThreshold
    /\ \A n \in DOMAIN history :
         history[n] \in [healthy : BOOLEAN, failures : 0..MaxPolls]
    /\ begun \in 0..Len(history)
    /\ successes \in 0..healthyThreshold
    /\ failures \in 0..unhealthyThreshold
    /\ phase \in {"gate", "running", "refused", "heal"}

\* The instance of a first deploy is RUNNING without having passed a gate.
HealthInit ==
    /\ healthyThreshold \in 1..MaxThreshold
    /\ unhealthyThreshold \in 1..MaxThreshold
    /\ history = <<>>
    /\ begun = 0 /\ successes = 0 /\ failures = 0
    /\ phase \in {"gate", "running"}

Record(healthy, inARow) ==
    /\ Len(history) < MaxPolls
    /\ history' = Append(history, [healthy |-> healthy, failures |-> inARow])

\* Faulty variant: a failure does not reset the successes.
GatePollAccumulating(healthy) ==
    /\ phase = "gate"
    /\ successes' = IF healthy THEN successes + 1 ELSE successes
    /\ failures' = IF healthy THEN 0 ELSE failures + 1
    /\ Record(healthy, failures')
    /\ phase' = IF successes' >= healthyThreshold THEN "running"
                ELSE IF failures' >= unhealthyThreshold THEN "refused"
                ELSE "gate"
    /\ UNCHANGED <<thresholds, begun>>

\* A pass of wait_until_healthy's loop, which has at most
\* healthy_threshold + unhealthy_threshold of them.
GatePoll(healthy) ==
    /\ phase = "gate"
    /\ successes' = IF healthy THEN successes + 1 ELSE 0
    /\ failures' = IF healthy THEN 0 ELSE failures + 1
    /\ Record(healthy, failures')
    /\ phase' =
         IF successes' >= healthyThreshold THEN "running"
         ELSE IF \/ failures' >= unhealthyThreshold
                 \/ Len(history') - begun = healthyThreshold + unhealthyThreshold
         THEN "refused"
         ELSE "gate"
    /\ UNCHANGED <<thresholds, begun>>

\* The newest row; no row counts like a success.
LastResult ==
    IF history = <<>> THEN [healthy |-> TRUE, failures |-> 0]
    ELSE history[Len(history)]

\* Faulty variant: a success does not start the count again.
MonitorPollAccumulating(healthy) ==
    LET inARow == LastResult.failures + (IF healthy THEN 0 ELSE 1)
    IN  /\ phase = "running"
        /\ Record(healthy, inARow)
        /\ phase' = IF ~healthy /\ inARow >= unhealthyThreshold
                    THEN "heal" ELSE phase
        /\ UNCHANGED <<thresholds, counters>>

\* _poll_and_maybe_heal on the RUNNING instance continues from the last row.
MonitorPoll(healthy) ==
    LET inARow == IF healthy THEN 0
                  ELSE IF LastResult.healthy THEN 1 ELSE LastResult.failures + 1
    IN  /\ phase = "running"
        /\ Record(healthy, inARow)
        /\ phase' = IF ~healthy /\ inARow >= unhealthyThreshold
                    THEN "heal" ELSE phase
        /\ UNCHANGED <<thresholds, counters>>

\* Self-healing restarted the instance: a new wait with counters of its own.
Restarted ==
    /\ phase = "heal"
    /\ phase' = "gate"
    /\ begun' = Len(history) /\ successes' = 0 /\ failures' = 0
    /\ UNCHANGED <<thresholds, history>>

\* A refusal and MaxPolls end the history.
HealthNext ==
    \/ \E healthy \in BOOLEAN : GatePoll(healthy) \/ MonitorPoll(healthy)
    \/ Restarted

HealthSpec == HealthInit /\ [][HealthNext]_healthVars
-----------------------------------------------------------------------------
\* The newest n answers exist and are all `healthy`: what the counters count.
Run(n, healthy) ==
    /\ n <= Len(history)
    /\ \A m \in (Len(history) - n + 1)..Len(history) :
         history[m].healthy = healthy

\* wait_until_healthy lets an instance pass only when its own newest
\* healthy_threshold answers are successes, and never after
\* unhealthy_threshold failures in a row of the same wait.
GateIsEarned ==
    [][phase = "gate" /\ phase' = "running"
         => /\ Run(healthyThreshold, TRUE)'
            /\ Len(history') - begun >= healthyThreshold
            /\ \A m \in begun..(Len(history) - unhealthyThreshold) :
                 \E k \in (m + 1)..(m + unhealthyThreshold) :
                   history[k].healthy]_healthVars

\* The monitor hands an instance to self-healing exactly when its newest
\* unhealthy_threshold answers, whoever asked for them, are failures.
HealsOnRun ==
    [][phase = "running" /\ history' # history
         => (phase' = "heal" <=> Run(unhealthyThreshold, FALSE)')]_healthVars

\* wait_until_healthy refuses an instance after unhealthy_threshold failures in
\* a row.
RefusalIsEarned == phase = "refused" => Run(unhealthyThreshold, FALSE)
============================================================================
