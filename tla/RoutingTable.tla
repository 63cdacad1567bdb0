---------------------------- MODULE RoutingTable ----------------------------
(***************************************************************************)
(* What the Gateway Manager promises: a routing table with one entry per   *)
(* application.  A request for an application either replaces that entry   *)
(* as a whole and is answered ok, or changes nothing and is answered not   *)
(* ok.  One that breaks off is not answered and may have been completed;   *)
(* a restart breaks off all of them and completes at most one.             *)
(***************************************************************************)
CONSTANTS Apps, Entries, Workers, Idle

VARIABLES
    routed,     \* the entry in force for each application
    request     \* per worker: Idle, or the request and its answer so far

Requests == [app : Apps, entry : Entries, answer : {"none", "ok", "failed"}]

Init ==
    /\ routed \in [Apps -> Entries]
    /\ request = [w \in Workers |-> Idle]

Ask(w) ==
    /\ request[w] = Idle
    /\ \E a \in Apps, e \in Entries :
          request' = [request EXCEPT ![w] =
                         [app |-> a, entry |-> e, answer |-> "none"]]
    /\ UNCHANGED routed

\* The request's own entry is replaced.
Complete(w) == routed' = [routed EXCEPT ![request[w].app] = request[w].entry]

Grant(w) ==
    /\ request[w] # Idle
    /\ request[w].answer = "none"
    /\ request' = [request EXCEPT ![w].answer = "ok"]
    /\ Complete(w)

Deny(w) ==
    /\ request[w] # Idle
    /\ request[w].answer = "none"
    /\ request' = [request EXCEPT ![w].answer = "failed"]
    /\ UNCHANGED routed

Answer(w) ==
    /\ request[w] # Idle
    /\ request[w].answer # "none"
    /\ request' = [request EXCEPT ![w] = Idle]
    /\ UNCHANGED routed

BreakOff(w) ==
    /\ request[w] # Idle
    /\ request[w].answer = "none"
    /\ request' = [request EXCEPT ![w] = Idle]
    /\ UNCHANGED routed \/ Complete(w)

Restart ==
    /\ request' = [w \in Workers |-> Idle]
    /\ \/ UNCHANGED routed
       \/ \E w \in Workers : request[w] # Idle /\ Complete(w)

Next ==
    \/ \E w \in Workers : Ask(w) \/ Grant(w) \/ Deny(w) \/ Answer(w) \/ BreakOff(w)
    \/ Restart

Spec == Init /\ [][Next]_<<routed, request>>
============================================================================
