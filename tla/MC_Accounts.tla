----------------------------- MODULE MC_Accounts -----------------------------
(* TLC instance of Accounts, of the limiter in front of its forms, of       *)
(* Tokens and of Editions: one person, who is all the roles in turn, and    *)
(* two requests at a time.  The four share no state, and a run is of one of *)
(* them while the others stay at one initial state.  A rule of the          *)
(* organisation's besides the defaults comes without CI policies: no        *)
(* property relates the two, and both can still be made in the run.         *)
EXTENDS Accounts, RateLimit, Tokens, Editions, TLC

CONSTANT ann

VARIABLE part

MCDomainRules == {[allows |-> {}, admins |-> {}], [allows |-> {ann}, admins |-> {ann}]}
MCLimit       == "ip" :> 2 @@ "email" :> 1 @@ "basic" :> 1

MCInit ==
    /\ Init /\ LimiterInit
    /\ part \in {"accounts", "limiter", "tokens", "editions"}
    /\ part # "accounts" =>
        /\ \A u \in Users : ~ Known(u)
        /\ ~ scim /\ devices = {} /\ \A sc \in Scopes : conns[sc] = None
    /\ IF part = "tokens"
       THEN TokensInit /\ (ci # <<>> => orgRule = Defaults)
       ELSE /\ places = {} /\ orgRule = Defaults /\ repoRule = [p \in Places |-> Inherit]
            /\ ci = <<>> /\ tokens = {} /\ minted = 0
            /\ request = [q \in Requests |-> NoRequest] /\ requests = 0
            /\ rules = [q \in Requests |-> {}] /\ offers = [q \in Requests |-> {}]
    /\ IF part = "editions" THEN EditionsInit
       ELSE /\ plan = Unlimited /\ skus = {} /\ sets = [n \in SetNames |-> NoSet]
            /\ pool = 0 /\ lockedBy = NoCap /\ sale = [c \in Sellers |-> Off] /\ sales = 0
            /\ edited = {} /\ odd = {}

MCNext ==
    \/ part = "accounts" /\ Next /\ UNCHANGED <<limiter, credentials, editions, part>>
    \/ part = "limiter" /\ LimiterNext /\ UNCHANGED <<vars, credentials, editions, part>>
    \/ part = "tokens" /\ TokensNext /\ UNCHANGED <<vars, limiter, editions, part>>
    \/ part = "editions" /\ EditionsNext /\ UNCHANGED <<vars, limiter, credentials, part>>

MCSpec == MCInit /\ [][MCNext]_<<vars, limiter, credentials, editions, part>>

(* The parts use the same values, so that one set of permutations does for  *)
(* all: Calls = Requests = Sellers, Sessions = Places, Links = Workloads.   *)
Symmetry == Permutations(Calls) \union Permutations(Passwords) \union Permutations(Sessions)
                \union Permutations(Links) \union Permutations(ConnIds)
=============================================================================
