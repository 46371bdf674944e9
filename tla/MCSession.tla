------------------------------ MODULE MCSession ------------------------------
(* The instances of Session that TLC checks. *)
EXTENDS Session, TLC

Symmetric == Permutations(Conns) \cup Permutations(Users)

=============================================================================
