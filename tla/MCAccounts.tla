----------------------------- MODULE MCAccounts -----------------------------
(***************************************************************************)
(* A small instance of Accounts: custody operations by name.               *)
(***************************************************************************)
EXTENDS TLC, Accounts

CONSTANTS k1, k2

ClerkSymmetry == Permutations({k1, k2})
=============================================================================
