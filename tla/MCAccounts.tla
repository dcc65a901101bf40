----------------------------- MODULE MCAccounts -----------------------------
(* Instances of Accounts for TLC.                                           *)
EXTENDS Accounts, TLC

Symmetry == Permutations(Account) \cup Permutations(Request)
                \cup Permutations(Token)
=============================================================================
