----------------------------- MODULE MC_Publish -----------------------------
(* TLC instance of Publish: two packages that differ in their first chunk,  *)
(* so that a part overwritten between two reads turns one into the other.   *)
EXTENDS Publish, TLC

CONSTANTS a, b, z1, z2

MCBodies    == {<<a, b>>, <<b, b>>}
MCArchiveOf == <<a, b>> :> z1 @@ <<b, b>> :> z2

Symmetry    == Permutations(Requests)
=============================================================================
