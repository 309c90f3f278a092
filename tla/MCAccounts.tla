---------------------------- MODULE MCAccounts ----------------------------
(* Accounts on a small instance. *)
EXTENDS Accounts, TLC

RequestSymmetry == Permutations(Requests) \cup Permutations(Tokens)
=============================================================================
