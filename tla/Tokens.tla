--------------------------------- MODULE Tokens ---------------------------------
(***************************************************************************)
(* Credentials of one organisation's repositories: read tokens made by     *)
(* hand under the organisation's and the repository's token policy, tokens *)
(* a CI workload gets for its JWT under the repository's ci_oidc_policies, *)
(* service tokens, and what each of them opens.  A request reads the       *)
(* policy first and inserts the token in a later statement.                *)
(***************************************************************************)
EXTENDS Integers, Sequences

CONSTANTS
    Places,         \* repositories of the organisation
    Workloads,      \* subjects of JWTs, as the claim matchers tell them apart
    Issuers,
    Days,           \* expiries and caps, in days
    Requests,       \* requests in flight
    MaxRequests,    \* bound: requests served
    MaxMinted,      \* bound: tokens ever made
    Forever         \* no cap, no expiry

ASSUME TokensAssumption ==
    /\ Days \subseteq Nat \ {0} /\ Forever \notin Nat
    /\ "org" \notin Places
    /\ MaxRequests \in Nat /\ MaxMinted \in Nat

VARIABLES
    places,     \* repositories that exist
    orgRule,    \* org_settings
    repoRule,   \* the repositories' overrides
    ci,         \* ci_oidc_policies, in the order they were made
    tokens,     \* tokens, service_tokens and publish_tokens
    minted,     \* tokens made so far
    request, requests,
    rules,      \* history: settings of both levels in force during a request
    offers      \* history: CI policies that stood during a request

credentials == <<places, orgRule, repoRule, ci, tokens, minted, request, requests, rules, offers>>

NoRequest     == [at |-> "idle"]
Defaults == [raw |-> TRUE, max |-> Forever]
Inherit  == [raw |-> "inherit", max |-> Forever]
Rules    == [raw : BOOLEAN, max : Days \union {Forever}]
Overrides == [raw : {"inherit", "allow", "deny"}, max : Days \union {Forever}]

-----------------------------------------------------------------------------
(* The policy for raw tokens: the repository can only tighten.              *)

MinCap(a, b) ==
    IF a = Forever THEN b ELSE IF b = Forever THEN a ELSE IF a < b THEN a ELSE b

(* Mutant of Effective: the repository's answer replaces the organisation's. *)
Effective_RepoWins(o, r) ==
    [raw |-> IF r.raw = "inherit" THEN o.raw ELSE r.raw = "allow",
     max |-> IF r.max = Forever THEN o.max ELSE r.max]

Effective(o, r) == [raw |-> o.raw /\ r.raw # "deny", max |-> MinCap(o.max, r.max)]

EffectiveTokenPolicy(p) == Effective(orgRule, repoRule[p])

Permits(rule, days) ==
    /\ rule.raw
    /\ rule.max # Forever => IF days = Forever THEN FALSE ELSE days =< rule.max

(* What a token opens.  Read tokens, service tokens and publish tokens are  *)
(* rows of different tables.                                                *)

Unexpired(t)     == t.left # 0
TokenValid(p, t) == t.kind = "read" /\ Unexpired(t) /\ t.for \in {p, "org"} /\ p \in places

ResolveTokenPolicy(p, t) ==
    IF TokenValid(p, t) THEN {t.override} ELSE {}

ResolvePublishToken(t) == IF t.kind = "publish" /\ Unexpired(t) THEN {t.for} ELSE {}

(* The lists leave out the organisation's own tokens.                       *)
ListTokens(p)        == {t \in tokens : t.kind = "read" /\ t.for = p}
ListServiceTokens(p) == {t \in tokens : t.kind = "service" /\ t.for = p}

-----------------------------------------------------------------------------
(* The exchange of a JWT: [issuer, subject].                                *)

ValidateJwt(jwt, policy)   == jwt.issuer = policy.issuer
ClaimsMatch(jwt, policy)   == policy.subject \in {jwt.subject, "any"}
CiPolicies(p)              == [i \in {j \in DOMAIN ci : ci[j].repo = p} |-> ci[i]]

(* Mutant of CiMatch: whatever the policy is for.                           *)
CiMatch_AnyCapability(list, jwt, capability, down) ==
    {i \in DOMAIN list : /\ list[i].issuer \notin down
                         /\ ValidateJwt(jwt, list[i]) /\ ClaimsMatch(jwt, list[i])}

(* The policies that would do, by their place in the list.                  *)
CiMatch(list, jwt, capability, down) ==
    {i \in DOMAIN list : /\ list[i].capability = capability
                         /\ list[i].issuer \notin down
                         /\ ValidateJwt(jwt, list[i]) /\ ClaimsMatch(jwt, list[i])}

-----------------------------------------------------------------------------
TokensInit ==
    /\ places = Places
    /\ orgRule \in {rule \in Rules : rule.raw}
    /\ repoRule = [p \in Places |-> Inherit]
    /\ ci \in {<<>>} \union
                {<<[repo |-> p, capability |-> c, scope |-> s, issuer |-> i, subject |-> w]>> :
                    p \in Places, c \in {"read"}, s \in {"repo", "org"}, i \in Issuers,
                    w \in Workloads}
    /\ tokens = {} /\ minted = 0
    /\ request = [q \in Requests |-> NoRequest] /\ requests = 0
    /\ rules = [q \in Requests |-> {}] /\ offers = [q \in Requests |-> {}]

Asks(q, r) ==
    /\ request[q] = NoRequest /\ requests < MaxRequests
    /\ requests' = requests + 1
    /\ request'  = [request EXCEPT ![q] = r]

Done(q) == request' = [request EXCEPT ![q] = NoRequest] /\ UNCHANGED requests

Policies == <<places, orgRule, repoRule, ci>>

(* What stood while a request ran, after this step.                         *)
Noted ==
    /\ rules'  = [q \in Requests |->
                    IF request'[q].at = "token"
                    THEN rules[q] \union {[whole |-> orgRule', own |-> repoRule'[request'[q].repo]]}
                    ELSE {}]
    /\ offers' = [q \in Requests |->
                    IF request'[q].at \in {"exchange", "mint"}
                    THEN offers[q] \union {ci'[i] : i \in DOMAIN ci'}
                    ELSE {}]

(* A request of one statement.                                              *)
AtOnce(q) == Asks(q, NoRequest)

Insert(kind, for, origin, left, was) ==
    /\ minted < MaxMinted
    /\ minted' = minted + 1
    /\ tokens' = tokens \union {[id |-> minted, kind |-> kind, for |-> for, origin |-> origin,
                                 left |-> left, override |-> "inherit", was |-> was]}

-----------------------------------------------------------------------------
(* Tokens made by hand.                                                     *)

CreateTokenCheck(q) ==
    \E p \in places, days \in Days \union {Forever} :
        /\ Permits(EffectiveTokenPolicy(p), days)
        /\ Asks(q, [at |-> "token", repo |-> p, days |-> days])
        /\ UNCHANGED <<Policies, tokens, minted>>

CreateToken(q) ==
    /\ request[q].at = "token"
    /\ IF request[q].repo \in places
       THEN Insert("read", request[q].repo, "manual", request[q].days, rules[q])
       ELSE UNCHANGED <<tokens, minted>>
    /\ Done(q)
    /\ UNCHANGED Policies

CreateServiceToken(q) ==
    \E p \in places, days \in Days \union {Forever} :
        /\ AtOnce(q)
        /\ Insert("service", p, "manual", days, {})
        /\ UNCHANGED Policies

-----------------------------------------------------------------------------
(* Tokens for a workload.  The matched policies are read, then the issuers' *)
(* keys are fetched, then the token is made.                                *)

OauthCi(q) ==
    \E p \in places, i \in Issuers, w \in Workloads, c \in {"read", "publish"} :
        /\ Asks(q, [at |-> "exchange", repo |-> p, jwt |-> [issuer |-> i, subject |-> w],
                    capability |-> c, list |-> CiPolicies(p)])
        /\ UNCHANGED <<Policies, tokens, minted>>

(* The first that does is taken.                                            *)
CiMatched(q) ==
    /\ request[q].at = "exchange"
    /\ LET r == request[q] IN
        \E down \in SUBSET Issuers :
            LET match == CiMatch(r.list, r.jwt, r.capability, down) IN
            \/ match = {} /\ request' = [request EXCEPT ![q] = NoRequest]
            \/ \E i \in match :
                /\ \A j \in match : i =< j
                /\ request' = [request EXCEPT ![q] =
                        [at |-> "mint", repo |-> r.repo, capability |-> r.capability,
                         jwt |-> r.jwt, scope |-> r.list[i].scope]]
    /\ UNCHANGED <<Policies, tokens, minted, requests>>

Witness(q) == {[policy |-> x, jwt |-> request[q].jwt] : x \in offers[q]}

(* org_id_for_repo finds nothing when the repository is gone.               *)
CreateOrgCiToken(q) ==
    /\ request[q].at = "mint" /\ request[q].capability = "read" /\ request[q].scope = "org"
    /\ IF request[q].repo \in places
       THEN \E days \in Days : Insert("read", "org", "ci", days, Witness(q))
       ELSE UNCHANGED <<tokens, minted>>
    /\ Done(q)
    /\ UNCHANGED Policies

CreateCiToken(q) ==
    /\ request[q].at = "mint" /\ request[q].capability = "read" /\ request[q].scope = "repo"
    /\ IF request[q].repo \in places
       THEN \E days \in Days : Insert("read", request[q].repo, "ci", days, Witness(q))
       ELSE UNCHANGED <<tokens, minted>>
    /\ Done(q)
    /\ UNCHANGED Policies

CreatePublishToken(q) ==
    /\ request[q].at = "mint" /\ request[q].capability = "publish"
    /\ IF request[q].repo \in places
       THEN \E days \in Days : Insert("publish", request[q].repo, "ci", days, Witness(q))
       ELSE UNCHANGED <<tokens, minted>>
    /\ Done(q)
    /\ UNCHANGED Policies

(* A device login's token.                                                  *)
CreateSessionToken(q) ==
    \E days \in Days :
        /\ AtOnce(q)
        /\ Insert("read", "org", "session", days, {})
        /\ UNCHANGED Policies

-----------------------------------------------------------------------------
(* Settings and CI policies.                                                *)

SetOrgSettings(q) ==
    \E rule \in Rules :
        /\ AtOnce(q)
        /\ orgRule' = rule
        /\ UNCHANGED <<places, repoRule, ci, tokens, minted>>

(* The command changes one setting of what it has read.                     *)
OrgSettingsRead(q) ==
    \E raw \in BOOLEAN :
        /\ Asks(q, [at |-> "org_settings", rule |-> [orgRule EXCEPT !.raw = raw]])
        /\ UNCHANGED <<Policies, tokens, minted>>

OrgSettingsSave(q) ==
    /\ request[q].at = "org_settings"
    /\ orgRule' = request[q].rule
    /\ Done(q)
    /\ UNCHANGED <<places, repoRule, ci, tokens, minted>>

SetRepoSettings(q) ==
    \E p \in places, override \in Overrides :
        /\ AtOnce(q)
        /\ repoRule' = [repoRule EXCEPT ![p] = override]
        /\ UNCHANGED <<places, orgRule, ci, tokens, minted>>

(* Only a policy to read may be of the whole organisation.                  *)
AddCiPolicy(q) ==
    \E p \in places, c \in {"read", "publish"}, s \in {"repo", "org"}, i \in Issuers,
       w \in Workloads \union {"any"} :
        /\ s = "org" => c = "read"
        /\ AtOnce(q)
        /\ ci' = Append(ci, [repo |-> p, capability |-> c, scope |-> s, issuer |-> i, subject |-> w])
        /\ UNCHANGED <<places, orgRule, repoRule, tokens, minted>>

DeleteCiPolicy(q) ==
    \E i \in DOMAIN ci :
        /\ AtOnce(q)
        /\ ci' = [j \in 1 .. Len(ci) - 1 |-> IF j < i THEN ci[j] ELSE ci[j + 1]]
        /\ UNCHANGED <<places, orgRule, repoRule, tokens, minted>>

DeletePlace(q) ==
    \E p \in places :
        /\ AtOnce(q)
        /\ places' = places \ {p}
        /\ ci'     = SelectSeq(ci, LAMBDA x : x.repo # p)
        /\ tokens' = {t \in tokens : t.for # p}
        /\ UNCHANGED <<orgRule, repoRule, minted>>

-----------------------------------------------------------------------------
(* What is done with tokens.                                                *)

(* By label: of the repository's own tokens only.                           *)
SetTokenPolicy(q) ==
    \E p \in places : \E t \in ListTokens(p), o \in {"manual", "inherit"} :
        /\ AtOnce(q)
        /\ tokens' = (tokens \ {t}) \union {[t EXCEPT !.override = o]}
        /\ UNCHANGED <<Policies, minted>>

RevokeToken(q) ==
    \E p \in places : \E t \in ListTokens(p) :
        /\ AtOnce(q)
        /\ tokens' = tokens \ {t}
        /\ UNCHANGED <<Policies, minted>>

RevokeServiceToken(q) ==
    \E p \in places : \E t \in ListServiceTokens(p) :
        /\ AtOnce(q)
        /\ tokens' = tokens \ {t}
        /\ UNCHANGED <<Policies, minted>>

(* A day passes.                                                            *)
TimePasses ==
    /\ \E t \in tokens : t.left # Forever /\ Unexpired(t)
    /\ tokens' = {[t EXCEPT !.left = IF t.left = Forever \/ t.left = 0 THEN t.left ELSE t.left - 1] :
                    t \in tokens}
    /\ UNCHANGED <<Policies, minted, request, requests>>

-----------------------------------------------------------------------------
(* Commands and forms, step by step.                                        *)
TokenCreate(q)    == CreateTokenCheck(q) \/ CreateToken(q)
OauthRead(q)      == CreateOrgCiToken(q) \/ CreateCiToken(q)
OrgSettings(q)    == OrgSettingsRead(q) \/ OrgSettingsSave(q)
CiPolicy(q)       == AddCiPolicy(q) \/ DeleteCiPolicy(q)

TokensNext ==
    /\ \/ \E q \in Requests :
            \/ TokenCreate(q) \/ CreateServiceToken(q) \/ CreateSessionToken(q)
            \/ OauthCi(q) \/ CiMatched(q) \/ OauthRead(q) \/ CreatePublishToken(q)
            \/ SetOrgSettings(q) \/ OrgSettings(q) \/ SetRepoSettings(q)
            \/ CiPolicy(q) \/ DeletePlace(q)
            \/ SetTokenPolicy(q) \/ RevokeToken(q) \/ RevokeServiceToken(q)
       \/ TimePasses
    /\ Noted

TokensSpec == TokensInit /\ [][TokensNext]_credentials

-----------------------------------------------------------------------------
(* A token made by hand had an expiry, and an organisation and a repository *)
(* that allowed it, under both their settings as they stood together at     *)
(* some moment of its request (create_token, effective_token_policy).       *)
TokenWithinPolicy ==
    \A t \in tokens : t.kind = "read" /\ t.origin = "manual" =>
        \E rule \in t.was :
            /\ rule.whole.raw /\ rule.own.raw # "deny"
            /\ \A max \in {rule.whole.max, rule.own.max} \ {Forever} :
                  IF t.left = Forever THEN FALSE ELSE t.left =< max

(* A workload's token opens a repository to read or to publish only if a    *)
(* policy with that capability, for the workload that asked and for that    *)
(* repository or (reading) its whole organisation, stood at some moment of  *)
(* the exchange (ci_match, oauth_ci, oauth_ci_publish).                     *)
ExchangeMatches ==
    \A t \in tokens : t.origin = "ci" =>
        \E w \in t.was :
            /\ ValidateJwt(w.jwt, w.policy) /\ ClaimsMatch(w.jwt, w.policy)
            /\ w.policy.capability = t.kind
            /\ \A p \in places :
                  TokenValid(p, t) \/ p \in ResolvePublishToken(t) =>
                      w.policy.repo = p \/ w.policy.scope = "org"
=============================================================================
