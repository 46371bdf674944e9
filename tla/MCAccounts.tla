------------------------------ MODULE MCAccounts ------------------------------
(* The instances of Accounts that TLC checks. *)
EXTENDS Accounts, TLC

CONSTANTS phone, laptop, tablet, alice, bob

Symmetric == Permutations(Conns) \cup Permutations(Users)

=============================================================================
