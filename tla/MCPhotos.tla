------------------------------- MODULE MCPhotos -------------------------------
(* The instances of Photos that TLC checks. *)
EXTENDS Photos, TLC

CONSTANTS alice, bob, phone, laptop

MCUserOf == phone :> alice @@ laptop :> bob

=============================================================================
