----------------------------- MODULE MCRelations -----------------------------
(* The instances of Relations that TLC checks. *)
EXTENDS Relations, TLC

CONSTANTS alice, bob, phone, tablet, laptop

MCUserOf == phone :> alice @@ tablet :> alice @@ laptop :> bob

\* The two connections of alice are alike.
Symmetric == Permutations({phone, tablet})

=============================================================================
