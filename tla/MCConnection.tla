---------------------------- MODULE MCConnection ----------------------------
(* The instances of Connection that TLC checks. *)
EXTENDS Connection, TLC

Symmetric == Permutations(Blocks) \cup Permutations(Workers)

=============================================================================
