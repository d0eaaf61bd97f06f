----------------------------- MODULE MCAccounts -----------------------------
(* Three accounts, so that an administrator can meet another and a third one, and *)
(* two sessions, so that two requests can be under way at once.                   *)
EXTENDS Accounts, TLC

OneOrAnother == Permutations(Users) \cup Permutations(Tokens)
=============================================================================
