----------------------------- MODULE MC_Mirror ------------------------------
(* TLC instance of Mirror and Closure: the syncs of a registry r and a git    *)
(* upstream g that both have package p, and the dependency plan of a          *)
(* repository with a private registry created after a public one.  A run is   *)
(* of one of them.                                                            *)
EXTENDS Mirror, Closure, TLC

MCKind == [r |-> "composer", g |-> "git"]
MCClaim == [r |-> "shasum", g |-> "none"]
MCSubs == {{[names |-> {"p"}, floor |-> 0]}}
MCInitially ==
  [u \in Upstream |->
     [root |-> "ok", listed |-> IF u = "r" THEN {"p"} ELSE Patterns,
      doc |-> [p \in Pkg |-> "ok"], bytes |-> [p \in Pkg |-> [v \in Version |-> "b1"]]]]
MCRegistry == <<"pub", "priv">>
\* The private registry lists another latest version of b, one request or the next.
MCRequires ==
  LET lists == [a |-> {{"b"}}, b |-> {{"c"}}, c |-> {{"a", "d"}}, d |-> {{"e"}}, e |-> {{}}]
  IN [pub |-> lists, priv |-> [lists EXCEPT !.b = {{"c"}, {"c", "d"}}]]
MCDirect == {"a"}
Symmetry == Permutations(Worker)

VARIABLE part

MCInit == part \in {"mirror", "closure"} /\ MirrorInit /\ ClosureInit

MCNext ==
  \/ part = "mirror" /\ MirrorNext /\ UNCHANGED <<closureVars, part>>
  \/ part = "closure" /\ ClosureNext /\ UNCHANGED <<mirrorVars, part>>

MCSpec == MCInit /\ [][MCNext]_<<mirrorVars, closureVars, part>>
=============================================================================
