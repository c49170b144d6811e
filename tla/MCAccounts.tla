------------------------------ MODULE MCAccounts ------------------------------
(* Model-checking instances of Accounts.                                   *)
EXTENDS Accounts, TLC

CONSTANTS w1, w2, firm, old
=============================================================================
