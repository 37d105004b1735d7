------------------------------ MODULE MCAccounts ------------------------------
(* Instance of Accounts for TLC.                                            *)
EXTENDS Accounts, TLC

CONSTANTS admin, alice, bob, secret1, secret2, s1, s2
=============================================================================
