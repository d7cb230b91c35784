----------------------------- MODULE MC_Serving -----------------------------
(* TLC instance of Serving and ReadCache: what one request is answered, and   *)
(* what a cache in front makes of such answers.  A run is of one of them.     *)
(* Home h owns row 1 of package a; repository s owns row 2, also a, and row 3, *)
(* package b.  Rows 1 and 2 were mirrored from one upstream path.             *)
EXTENDS Serving, ReadCache, TLC

MCRow == 1..3
MCNameOf == <<"a", "a", "b">>
MCRepoOf == <<"h", "s", "s">>
MCDistOf == <<"x", "y", "z">>
MCPathOf == <<"p", "p", "q">>
MCRowId == <<2, 1, 3>>
MCRank == <<1, 2, 1>>
MCMajor == <<1, 2, 1>>
MCBoundChoice == {[until |-> 1, major |-> Unbounded], [until |-> Unbounded, major |-> 1]}
MCPolicyChoice == {[mode |-> "auto", cool |-> 0], [mode |-> "delayed", cool |-> 1],
                   [mode |-> "manual", cool |-> 0]}
MCOverrideChoice == {NoOverride, [mode |-> "none", cool |-> 1], [mode |-> "manual", cool |-> 0]}
Grants(over) == [r \in MCRow |-> IF r \in DOMAIN over THEN [given |-> TRUE, over |-> over[r]] ELSE NoGrant]
MCHome(p, private, rule, members) ==
  [policy |-> p, anonymous |-> TRUE, private |-> private, rule |-> rule, members |-> members]
Auto == [mode |-> "auto", cool |-> 0]
\* Nothing shared yet; row 2 granted under a policy; s a member, row 2 hidden
\* or shown where it is private; row 2 granted, and by rule as well.
MCHomes == {<<Grants(<<>>), MCHome(p, TRUE, FALSE, <<>>)>> : p \in {Auto, [mode |-> "delayed", cool |-> 1]}}
   \cup {<<Grants(2 :> o), MCHome(Auto, TRUE, FALSE, <<>>)>> : o \in MCOverrideChoice \ {NoOverride}}
   \cup {<<Grants(<<>>), MCHome(Auto, private, FALSE, <<"s">>)>> : private \in BOOLEAN}
   \cup {<<Grants(2 :> NoOverride), MCHome(Auto, FALSE, TRUE, <<>>)>>}
\* Rows with a version, and private rows: row 2 is published later or private.
MCRows == {<<{1, 3}, {}>>, <<{1, 2}, {}>>, <<{1, 2}, {2}>>}
MCStart ==
  {[ver |-> [r \in MCRow |-> [live |-> r \in there[1], held |-> FALSE, yanked |-> FALSE, approved |-> FALSE,
                              age |-> 0]],
    public |-> [r \in MCRow |-> r \notin there[2]], grants |-> h[1], home |-> h[2],
    token |-> [live |-> TRUE, over |-> NoOverride],
    license |-> [live |-> TRUE, over |-> NoOverride, bound |-> [n \in {"a", "b"} |-> [until |-> 1, major |-> Unbounded]]]] :
      there \in MCRows, h \in MCHomes}
MCRequests == {<<"root", w, "a", 1>> : w \in Who} \cup {<<"index", w, "a", 1>> : w \in Who}
              \cup {<<"p2", w, "a", 1>> : w \in Who}
              \cup {<<"dist", w, "a", r>> : w \in Who, r \in {2, 3}}
              \cup {<<"path", w, "a", 1>> : w \in Who}

VARIABLE part

MCInit ==
  /\ part \in {"serving", "cache"}
  /\ IF part = "serving"
     THEN /\ ServingInit
          /\ now = 0 /\ url = "meta" /\ presigns = FALSE /\ open = FALSE /\ rev = 0
          /\ past = <<>> /\ flight = {} /\ stored = <<>> /\ handed = [to |-> Nobody, body |-> NoBody]
     ELSE /\ CacheInit
          /\ ver = <<>> /\ public = <<>> /\ grants = <<>> /\ home = <<>> /\ token = <<>>
          /\ license = <<>> /\ req = [at |-> "never"] /\ seen = <<>>

MCNext ==
  \/ part = "serving" /\ ServingNext /\ UNCHANGED <<cacheVars, part>>
  \/ part = "cache" /\ CacheNext /\ UNCHANGED <<servingVars, part>>

MCSpec == MCInit /\ [][MCNext]_<<servingVars, cacheVars, part>>

=============================================================================
