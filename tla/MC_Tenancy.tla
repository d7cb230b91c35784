------------------------------- MODULE MC_Tenancy -------------------------------
(* TLC instance of Tenancy.  A remote comes without names retired earlier:  *)
(* no property relates the two, and both can still be made in the run.  A   *)
(* repository comes by one of the two names that trim to one, and may be    *)
(* given the third.                                                         *)
EXTENDS Tenancy, TLC

MCTrim == [s \in Slugs |-> IF s = " acme" THEN "acme" ELSE s]

MCInit ==
    /\ TenancyInit
    /\ \A r \in Repos : repo[r].slug # "beta"
    /\ \/ history = {} /\ ListOrganizations = Orgs
       \/ remote = [m \in Remotes |-> NoRemote]

MCSpec == MCInit /\ [][TenancyNext]_tenancy

(* A slug is what its letters are.                                          *)
Symmetry == Permutations(Orgs) \union Permutations(Repos) \union Permutations(Visits)
=============================================================================
