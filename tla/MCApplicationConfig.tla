------------------------ MODULE MCApplicationConfig ------------------------
(* ApplicationConfig for TLC. *)
EXTENDS ApplicationConfig, TLC

CONSTANTS h1, h2, k1, k2

\* Bounds that overlap, bounds that exclude each other, with and without a
\* domain, a certificate and a secret.
SmallConfigs ==
    {[min |-> 1, max |-> 3, domain |-> NoHostname, cert |-> FALSE, secrets |-> {}],
     [min |-> 1, max |-> 1, domain |-> h1, cert |-> TRUE, secrets |-> {k1}],
     [min |-> 2, max |-> 3, domain |-> h2, cert |-> FALSE, secrets |-> {k2}]}

ConfigSymmetry == Permutations(Apps) \cup Permutations(Requests)
============================================================================
