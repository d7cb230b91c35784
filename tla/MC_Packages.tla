---------------------------- MODULE MC_Packages -----------------------------
(* TLC instance of Packages and of Members: the calls of one package of one *)
(* repository, and three repositories of one organization (one of another   *)
(* organization could only be refused).  The two share no state, and a run  *)
(* is of one of them while the other stays at its initial state.            *)
EXTENDS Packages, Members, TLC

CONSTANTS r1, r2, r3

VARIABLE part

MCOrgOf == [r \in Repositories |-> "org"]
MCLists == {<<>>, <<r3>>, <<r2, r3>>}

MCInit ==
    /\ part \in {"packages", "members"}
    /\ Init
    /\ MembersInit

MCNext ==
    \/ part = "packages" /\ Next /\ UNCHANGED <<membersVars, part>>
    \/ part = "members" /\ MembersNext /\ UNCHANGED <<vars, part>>

MCSpec == MCInit /\ [][MCNext]_<<vars, membersVars, part>>

Symmetry == Permutations(Calls) \union Permutations(Admins)
=============================================================================
