----------------------------- MODULE MCAccounts -----------------------------
(* Instances of Accounts for TLC. *)
EXTENDS Accounts, TLC

\* Requests are interchangeable: no action or property tells one from another.
RequestSymmetry == Permutations(Request)

============================================================================
