----------------------------- MODULE MCAccounts -----------------------------
(* Instances of Accounts for TLC: the ids are small numbers, taken in order. *)
EXTENDS Accounts
=============================================================================
