----------------------------- MODULE MCAccounts -----------------------------
(* The instances of Accounts that TLC checks.                              *)
EXTENDS Accounts, TLC

RequestSymmetry == Permutations(Handlers) \cup Permutations(Tokens)
=============================================================================
