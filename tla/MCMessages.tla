------------------------------ MODULE MCMessages ------------------------------
(* The instances of Messages that TLC checks. *)
EXTENDS Messages, TLC

Symmetric == Permutations(Conns) \cup Permutations(Users)

=============================================================================
