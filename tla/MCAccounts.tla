------------------------------ MODULE MCAccounts ------------------------------
(* Small instances of Accounts: the seeded administrator's name and one more. *)
EXTENDS Accounts

CONSTANTS r1, r2, c1
===============================================================================
