----------------------------- MODULE MCAccounts -----------------------------
(* Accounts for TLC: interchangeable users and requests. *)
EXTENDS Accounts, TLC

AccountSymmetry == Permutations(Users) \cup Permutations(Requests)

\* Operator is left out: what the module decides depends on Administrator only.
Choices == {{}, {"Administrator"}, {"Viewer"}}
============================================================================
