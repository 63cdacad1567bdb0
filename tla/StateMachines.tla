--------------------------- MODULE StateMachines ---------------------------
(***************************************************************************)
(* The transition tables of domain/state_machines.py.                      *)
(***************************************************************************)

DeploymentStatus ==
    {"pending", "in_progress", "succeeded", "failed", "rolled_back"}

DeploymentTransitions ==
    [pending     |-> {"in_progress", "failed"},
     in_progress |-> {"succeeded", "failed"},
     succeeded   |-> {"rolled_back"},
     failed      |-> {"rolled_back"},
     rolled_back |-> {}]

InstanceStatus ==
    {"pending", "starting", "running", "unhealthy", "restarting", "draining",
     "stopped", "failed"}

InstanceTransitions ==
    [pending    |-> {"starting", "failed"},
     starting   |-> {"running", "failed"},
     running    |-> {"unhealthy", "restarting", "draining", "stopped"},
     unhealthy  |-> {"running", "restarting", "draining", "stopped", "failed"},
     restarting |-> {"running", "failed"},
     draining   |-> {"stopped", "failed"},
     stopped    |-> {"starting"},
     failed     |-> {"starting"}]

CommandStatus ==
    {"pending", "sent", "acknowledged", "running", "succeeded", "failed",
     "timed_out", "expired"}

CommandTransitions ==
    [pending      |-> {"sent", "expired"},
     sent         |-> {"acknowledged", "failed", "timed_out"},
     acknowledged |-> {"running", "failed", "timed_out"},
     running      |-> {"succeeded", "failed", "timed_out"},
     succeeded    |-> {},
     failed       |-> {},
     timed_out    |-> {},
     expired      |-> {}]

\* can_transition: no status may move to itself.
CanTransition(table, current, target) ==
    current # target /\ target \in table[current]
============================================================================
