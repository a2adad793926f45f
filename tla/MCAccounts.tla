----------------------------- MODULE MCAccounts -----------------------------
(***************************************************************************)
(* Accounts for TLC: a few accounts, interchangeable.                      *)
(***************************************************************************)
EXTENDS Accounts, TLC

Symmetry == Permutations(Account)
=============================================================================
