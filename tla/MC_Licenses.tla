---------------------------- MODULE MC_Licenses ----------------------------
(* TLC instance of Licenses: a time edition and a perpetual one that sell   *)
(* the same set, so that they meet on a key.                                *)
EXTENDS Licenses, TLC

CONSTANTS year, forever, s1, s2, p1, p2

MCKind  == year :> "time" @@ forever :> "perpetual"
MCSetOf == year :> s1 @@ forever :> s1
MCSold  == s1 :> {p1} @@ s2 :> {}
MCOperatorBounds == {[until |-> 1, major |-> None]}

Symmetry == Permutations(Keys) \union Permutations(Calls)
=============================================================================
