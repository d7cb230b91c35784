---------------------------- MODULE Tenancy_proofs -----------------------------
(* Names of organisations and repositories, editions and credentials, and   *)
(* the limiter: their safety properties for any number of each, and of      *)
(* requests in flight.                                                      *)
EXTENDS Tenancy, Editions, Tokens, Accounts, RateLimit, FiniteSetTheorems, SequenceTheorems,
        WellFoundedInduction, TLAPS

-----------------------------------------------------------------------------
(* Names.                                                                   *)

RepoRow  == [org : Orgs, slug : Slugs, host : Hosts \union {Nothing}]
HeldName == [scope : {Nothing}, slug : Slugs, id : Orgs] \union
            [scope : Orgs, slug : Slugs, id : Repos]

OrgName(o, s)     == [scope |-> Nothing, slug |-> s, id |-> o]
RepoName(o, t, r) == [scope |-> o, slug |-> t, id |-> r]

NameRows ==
    /\ org \in [Orgs -> Slugs \union {Nothing}]
    /\ repo \in [Repos -> {NoRepo} \union RepoRow]
    /\ history \subseteq held /\ held \subseteq HeldName

LiveHeld ==
    /\ \A o \in Orgs : org[o] # Nothing => OrgName(o, org[o]) \in held
    /\ \A r \in Repos : repo[r] # NoRepo => RepoName(repo[r].org, repo[r].slug, r) \in held

(* A name is its entity's until a rename or a deletion retires it.          *)
HeldStands ==
    \A h \in held :
        \/ Retired(h.scope, h.slug)
        \/ h.scope = Nothing /\ org[h.id] = h.slug
        \/ h.scope # Nothing /\ repo[h.id] # NoRepo /\ repo[h.id].org = h.scope /\ repo[h.id].slug = h.slug

(* A name has been one entity's, unless it was retired between a check and  *)
(* the taking of it.                                                        *)
Unshared ==
    \A h, k \in held :
        h.scope = k.scope /\ h.slug = k.slug => h.id = k.id \/ <<h.scope, h.slug>> \in Retaken

NamesOK == NameRows /\ LiveHeld /\ HeldStands /\ Unshared

LEMMA NamesFollow == NamesOK => OldNamesFollow
<1>. SUFFICES ASSUME NamesOK, NEW h \in held, <<h.scope, h.slug>> \notin Retaken
              PROVE  \/ h.scope = Nothing /\ OrgOf(h.slug) = {h.id}
                     \/ h.scope # Nothing /\ RepoOf(h.scope, h.slug) = {h.id} \intersect ListRepositories
  BY DEF OldNamesFollow
<1>1. h \in HeldName /\ \A k \in held : k.scope = h.scope /\ k.slug = h.slug => k.id = h.id
  BY DEF NamesOK, NameRows, Unshared
<1>2. CASE h.scope = Nothing
  <2>1. h.slug \in Slugs /\ h.slug # Nothing /\ h.id \in Orgs
    BY <1>1, <1>2, TenancyAssumption DEF HeldName
  <2>2. OrgIdBySlug(h.slug) \subseteq {h.id}
    <3>. SUFFICES ASSUME NEW p \in Orgs, org[p] = h.slug PROVE p = h.id
      BY DEF OrgIdBySlug
    <3>1. OrgName(p, h.slug) \in held
      BY <2>1 DEF NamesOK, LiveHeld
    <3>. QED
      BY <1>1, <1>2, <3>1 DEF OrgName
  <2>3. OrgByHistory(h.slug) \subseteq {h.id}
    BY <1>1, <1>2 DEF OrgByHistory, NamesOK, NameRows
  <2>4. CASE OrgIdBySlug(h.slug) = {}
    <3>1. org[h.id] # h.slug
      BY <2>1, <2>4 DEF OrgIdBySlug
    <3>2. Retired(Nothing, h.slug)
      BY <1>2, <3>1 DEF NamesOK, HeldStands
    <3>3. OrgByHistory(h.slug) # {}
      BY <3>2 DEF Retired, OrgByHistory
    <3>. QED
      BY <1>2, <2>3, <2>4, <3>3 DEF OrgOf
  <2>. QED
    BY <1>2, <2>2, <2>4 DEF OrgOf
<1>3. CASE h.scope # Nothing
  <2>1. h.scope \in Orgs /\ h.slug \in Slugs /\ h.id \in Repos
    BY <1>1, <1>3 DEF HeldName
  <2>2. LiveRepo(h.scope, h.slug) \subseteq {h.id} \intersect ListRepositories
    <3>. SUFFICES ASSUME NEW r \in LiveRepo(h.scope, h.slug) PROVE r = h.id /\ r \in ListRepositories
      OBVIOUS
    <3>1. r \in Repos /\ r \in ListRepositories /\ repo[r] # NoRepo
          /\ repo[r].org = h.scope /\ repo[r].slug = h.slug
      BY DEF LiveRepo, ReposForOrg, ListRepositories
    <3>2. RepoName(h.scope, h.slug, r) \in held
      BY <3>1 DEF NamesOK, LiveHeld
    <3>. QED
      BY <1>1, <3>1, <3>2 DEF RepoName
  <2>3. RepoByHistory(h.scope, h.slug) \subseteq {h.id} \intersect ListRepositories
    BY <1>1 DEF RepoByHistory, NamesOK, NameRows
  <2>4. CASE LiveRepo(h.scope, h.slug) = {} /\ h.id \in ListRepositories
    <3>1. ~ (repo[h.id].org = h.scope /\ repo[h.id].slug = h.slug)
      BY <2>4 DEF LiveRepo, ReposForOrg
    <3>2. Retired(h.scope, h.slug)
      BY <1>3, <3>1 DEF NamesOK, HeldStands
    <3>3. h.id \in RepoByHistory(h.scope, h.slug)
      BY <1>1, <2>4, <3>2 DEF Retired, RepoByHistory, NamesOK, NameRows
    <3>. QED
      BY <1>3, <2>3, <2>4, <3>3 DEF RepoOf
  <2>. QED
    BY <1>3, <2>2, <2>3, <2>4 DEF RepoOf
<1>. QED
  BY <1>2, <1>3

LEMMA NameTypes ==
    /\ \A o \in Orgs, s \in Slugs : OrgName(o, s) \in HeldName
    /\ \A o \in Orgs, s \in Slugs, r \in Repos : RepoName(o, s, r) \in HeldName
BY DEF OrgName, RepoName, HeldName

LEMMA NamesInit == TenancyInit => NamesOK
<1>. SUFFICES ASSUME TenancyInit PROVE NamesOK
  OBVIOUS
<1>1. PICK o \in Orgs, r \in Repos, s \in Slugs, t \in Slugs :
        /\ org \in [Orgs -> Slugs \union {Nothing}]
        /\ org[o] = s /\ \A p, q \in Orgs : org[p] = org[q] /\ org[p] # Nothing => p = q
        /\ repo = [x \in Repos |-> IF x = r THEN [org |-> o, slug |-> t, host |-> Nothing] ELSE NoRepo]
        /\ history \in {{}} \union
                {{OrgName(o, x)} : x \in {y \in Slugs : \A p \in Orgs : org[p] # y}}
                \union {{RepoName(o, x, r)} : x \in Slugs \ {t}}
        /\ held = history \union {RepoName(o, t, r)}
                          \union {OrgName(p, org[p]) : p \in {q \in Orgs : org[q] # Nothing}}
  BY DEF TenancyInit, OrgName, RepoName
<1>0. o # Nothing /\ o # Nothing
  BY TenancyAssumption
<1>2. \A p \in Orgs : org[p] # Nothing => org[p] \in Slugs /\ OrgName(p, org[p]) \in held
  BY <1>1
<1>3. repo \in [Repos -> {NoRepo} \union RepoRow] /\ repo[r] = [org |-> o, slug |-> t, host |-> Nothing]
      /\ \A x \in Repos : repo[x] # NoRepo => x = r
  BY <1>1 DEF RepoRow
<1>4. \A h \in history :
        \/ \E x \in Slugs : h = OrgName(o, x) /\ \A p \in Orgs : org[p] # x
        \/ \E x \in Slugs : h = RepoName(o, x, r) /\ x # t
  BY <1>1
<1>5. \A h \in held :
        \/ h \in history
        \/ h = RepoName(o, t, r)
        \/ \E p \in Orgs : h = OrgName(p, org[p]) /\ org[p] # Nothing
  BY <1>1
<1>6. \A h, k \in history : h = k
  BY <1>1
<1>7. NameRows
  <2>1. \A h \in held : h \in HeldName
    BY <1>2, <1>4, <1>5, NameTypes
  <2>. QED
    BY <1>1, <1>3, <2>1 DEF NameRows
<1>8. LiveHeld
  BY <1>1, <1>2, <1>3 DEF LiveHeld
<1>9. HeldStands
  <2>. SUFFICES ASSUME NEW h \in held
                PROVE  \/ Retired(h.scope, h.slug)
                       \/ h.scope = Nothing /\ org[h.id] = h.slug
                       \/ h.scope # Nothing /\ repo[h.id] # NoRepo /\ repo[h.id].org = h.scope
                          /\ repo[h.id].slug = h.slug
    BY DEF HeldStands
  <2>1. CASE h \in history
    BY <2>1 DEF Retired
  <2>2. CASE h = RepoName(o, t, r)
    <3>1. repo[r].org = o /\ repo[r].slug = t
      BY <1>3
    <3>2. repo[r] # NoRepo
      BY <1>0, <3>1 DEF NoRepo
    <3>. QED
      BY <1>0, <2>2, <3>1, <3>2 DEF RepoName
  <2>3. ASSUME NEW p \in Orgs, h = OrgName(p, org[p]) PROVE h.scope = Nothing /\ org[h.id] = h.slug
    BY <2>3 DEF OrgName
  <2>. QED
    BY <1>5, <2>1, <2>2, <2>3
<1>10. Unshared
  <2>. SUFFICES ASSUME NEW h \in held, NEW k \in held, h.scope = k.scope, h.slug = k.slug
                PROVE  h.id = k.id
    BY DEF Unshared
  <2>1. CASE h.scope = Nothing
    <3>1. ASSUME NEW x \in held, x.scope = Nothing
          PROVE  x \in history \/ \E p \in Orgs : x = OrgName(p, org[p]) /\ org[p] # Nothing
      BY <1>0, <1>5, <3>1 DEF RepoName
    <3>2. ASSUME NEW x \in history, x.scope = Nothing, NEW p \in Orgs PROVE x.slug # org[p]
      BY <1>0, <1>4, <3>2 DEF OrgName, RepoName
    <3>3. CASE h \in history /\ k \in history
      BY <1>6, <3>3
    <3>4. CASE h \notin history
      <4>1. PICK p \in Orgs : h = OrgName(p, org[p]) /\ org[p] # Nothing
        BY <2>1, <3>1, <3>4
      <4>2. k.scope = Nothing /\ k.slug = org[p]
        BY <2>1, <4>1 DEF OrgName
      <4>3. PICK q \in Orgs : k = OrgName(q, org[q]) /\ org[q] # Nothing
        BY <3>1, <3>2, <4>2
      <4>. QED
        BY <1>1, <4>1, <4>3 DEF OrgName
    <3>5. CASE k \notin history
      <4>1. PICK p \in Orgs : k = OrgName(p, org[p]) /\ org[p] # Nothing
        BY <2>1, <3>1, <3>5
      <4>2. PICK q \in Orgs : h = OrgName(q, org[q]) /\ org[q] # Nothing
        BY <2>1, <3>1, <3>2, <4>1 DEF OrgName
      <4>. QED
        BY <1>1, <4>1, <4>2 DEF OrgName
    <3>. QED
      BY <3>3, <3>4, <3>5
  <2>2. CASE h.scope # Nothing
    <3>1. /\ h \in history \/ h = RepoName(o, t, r)
          /\ k \in history \/ k = RepoName(o, t, r)
      BY <1>5, <2>2 DEF OrgName, RepoName
    <3>2. ASSUME NEW x \in history, x.scope # Nothing PROVE x.slug # t
      BY <1>4, <3>2 DEF OrgName, RepoName
    <3>. QED
      BY <1>6, <2>2, <3>1, <3>2 DEF OrgName, RepoName
  <2>. QED
    BY <2>1, <2>2
<1>. QED
  BY <1>7, <1>8, <1>9, <1>10 DEF NamesOK

(* A retired name that is taken is marked as one.                           *)
LEMMA Marked ==
    ASSUME NEW v \in Visits, NEW scope, NEW s, Overtaken(v, scope, s),
           visit[v].retired \in BOOLEAN, visit[v].retired => Trim[s] # s
    PROVE  Retaken \subseteq Retaken' /\ (Retired(scope, s) => <<scope, s>> \in Retaken')
BY DEF Overtaken, Retaken

(* What every step leaves of the names.                                     *)
NamesGrow ==
    /\ history \subseteq history' /\ held \subseteq held' /\ Retaken \subseteq Retaken'
    /\ \A o \in Orgs : org[o] # Nothing => org'[o] # Nothing

LEMMA NamesStay == ASSUME NamesOK, UNCHANGED Names PROVE NamesOK' /\ NamesGrow
<1>1. UNCHANGED <<org, repo, history, held, Retaken>>
  BY DEF Names, Marks, Retaken
<1>2. NameRows' /\ LiveHeld' /\ HeldStands' /\ Unshared'
  BY <1>1 DEF NamesOK, NameRows, LiveHeld, HeldStands, Unshared, Retired
<1>. QED
  BY <1>1, <1>2 DEF NamesOK, NamesGrow

(* An organisation takes a free name, its old one, if any, being history    *)
(* then.                                                                    *)
LEMMA OrgTakes ==
    ASSUME NamesOK, NEW o \in Orgs, NEW s \in Slugs, OrgIdBySlug(s) = {},
           org' = [org EXCEPT ![o] = s], held' = held \union {OrgName(o, s)},
           Retaken \subseteq Retaken', Retired(Nothing, s) => <<Nothing, s>> \in Retaken',
           history \subseteq history', history' \subseteq held,
           org[o] # Nothing => \E x \in history' : x.scope = Nothing /\ x.slug = org[o],
           repo' = repo
    PROVE  NamesOK' /\ NamesGrow
<1>1. s # Nothing /\ \A p \in Orgs : org[p] # s
  BY TenancyAssumption DEF OrgIdBySlug
<1>2. org \in [Orgs -> Slugs \union {Nothing}] /\ org'[o] = s
      /\ \A p \in Orgs : p # o => org'[p] = org[p]
  BY DEF NamesOK, NameRows
<1>3. NameRows'
  <2>1. org' \in [Orgs -> Slugs \union {Nothing}] /\ repo' \in [Repos -> {NoRepo} \union RepoRow]
    BY <1>2 DEF NamesOK, NameRows
  <2>2. history' \subseteq held' /\ held' \subseteq HeldName
    BY NameTypes DEF NamesOK, NameRows
  <2>. QED
    BY <2>1, <2>2 DEF NameRows
<1>4. LiveHeld'
  <2>1. ASSUME NEW p \in Orgs, org'[p] # Nothing PROVE OrgName(p, org'[p]) \in held'
    BY <1>2, <2>1 DEF NamesOK, LiveHeld
  <2>2. ASSUME NEW r \in Repos, repo'[r] # NoRepo
        PROVE  RepoName(repo'[r].org, repo'[r].slug, r) \in held'
    BY <2>2 DEF NamesOK, LiveHeld
  <2>. QED
    BY <2>1, <2>2 DEF LiveHeld
<1>5. HeldStands'
  <2>. SUFFICES ASSUME NEW h \in held'
                PROVE  \/ Retired(h.scope, h.slug)'
                       \/ h.scope = Nothing /\ org'[h.id] = h.slug
                       \/ h.scope # Nothing /\ repo'[h.id] # NoRepo /\ repo'[h.id].org = h.scope
                          /\ repo'[h.id].slug = h.slug
    BY DEF HeldStands
  <2>1. CASE h = OrgName(o, s)
    BY <1>2, <2>1 DEF OrgName
  <2>2. CASE h \in held /\ Retired(h.scope, h.slug)
    BY <2>2 DEF Retired
  <2>3. CASE h \in held /\ h.scope = Nothing /\ org[h.id] = h.slug
    <3>1. h.id \in Orgs /\ h.slug # Nothing
      BY <2>3, TenancyAssumption DEF NamesOK, NameRows, HeldName
    <3>2. CASE h.id = o
      BY <2>3, <3>1, <3>2 DEF Retired
    <3>. QED
      BY <1>2, <2>3, <3>1, <3>2
  <2>4. CASE h \in held /\ h.scope # Nothing /\ repo[h.id] # NoRepo /\ repo[h.id].org = h.scope
             /\ repo[h.id].slug = h.slug
    BY <2>4
  <2>. QED
    BY <2>1, <2>2, <2>3, <2>4 DEF NamesOK, HeldStands
<1>6. Unshared'
  <2>1. ASSUME NEW k \in held, k.scope = Nothing, k.slug = s PROVE <<Nothing, s>> \in Retaken'
    <3>1. k.id \in Orgs
      BY <2>1, TenancyAssumption DEF NamesOK, NameRows, HeldName
    <3>2. Retired(Nothing, s)
      BY <1>1, <2>1, <3>1 DEF NamesOK, HeldStands
    <3>. QED
      BY <3>2
  <2>2. Retaken \subseteq Retaken'
    OBVIOUS
  <2>3. ASSUME NEW h \in held', NEW k \in held', h.scope = k.scope, h.slug = k.slug
        PROVE  h.id = k.id \/ <<h.scope, h.slug>> \in Retaken'
    <3>1. CASE h \in held /\ k \in held
      BY <2>2, <2>3, <3>1 DEF NamesOK, Unshared
    <3>2. CASE h = OrgName(o, s)
      BY <2>1, <2>3, <3>2 DEF OrgName
    <3>3. CASE k = OrgName(o, s)
      BY <2>1, <2>3, <3>3 DEF OrgName
    <3>. QED
      BY <3>1, <3>2, <3>3
  <2>. QED
    BY <2>3 DEF Unshared
<1>7. NamesGrow
  BY <1>1, <1>2 DEF NamesGrow
<1>. QED
  BY <1>3, <1>4, <1>5, <1>6, <1>7 DEF NamesOK

(* A repository takes a free name.                                          *)
LEMMA RepoTakes ==
    ASSUME NamesOK, NEW o \in Orgs, NEW t \in Slugs, NEW r \in Repos, LiveRepo(o, t) = {},
           NEW row \in RepoRow, row.org = o, row.slug = t,
           repo' = [repo EXCEPT ![r] = row], held' = held \union {RepoName(o, t, r)},
           Retaken \subseteq Retaken', Retired(o, t) => <<o, t>> \in Retaken',
           history \subseteq history', history' \subseteq held,
           repo[r] # NoRepo =>
              \E x \in history' : x.scope = repo[r].org /\ x.slug = repo[r].slug,
           org' = org
    PROVE  NamesOK' /\ NamesGrow
<1>1. o # Nothing /\ row # NoRepo
  BY TenancyAssumption DEF NoRepo
<1>2. repo \in [Repos -> {NoRepo} \union RepoRow] /\ repo'[r] = row
      /\ \A x \in Repos : x # r => repo'[x] = repo[x]
  BY DEF NamesOK, NameRows
<1>3. \A x \in Repos : repo[x] # NoRepo => ~ (repo[x].org = o /\ repo[x].slug = t)
  BY DEF LiveRepo, ReposForOrg, ListRepositories
<1>4. NameRows'
  <2>1. org' \in [Orgs -> Slugs \union {Nothing}] /\ repo' \in [Repos -> {NoRepo} \union RepoRow]
    BY <1>2 DEF NamesOK, NameRows
  <2>2. history' \subseteq held' /\ held' \subseteq HeldName
    BY NameTypes DEF NamesOK, NameRows
  <2>. QED
    BY <2>1, <2>2 DEF NameRows
<1>5. LiveHeld'
  <2>1. ASSUME NEW p \in Orgs, org'[p] # Nothing PROVE OrgName(p, org'[p]) \in held'
    BY <2>1 DEF NamesOK, LiveHeld
  <2>2. ASSUME NEW x \in Repos, repo'[x] # NoRepo
        PROVE  RepoName(repo'[x].org, repo'[x].slug, x) \in held'
    BY <1>2, <2>2 DEF NamesOK, LiveHeld
  <2>. QED
    BY <2>1, <2>2 DEF LiveHeld
<1>6. HeldStands'
  <2>. SUFFICES ASSUME NEW h \in held'
                PROVE  \/ Retired(h.scope, h.slug)'
                       \/ h.scope = Nothing /\ org'[h.id] = h.slug
                       \/ h.scope # Nothing /\ repo'[h.id] # NoRepo /\ repo'[h.id].org = h.scope
                          /\ repo'[h.id].slug = h.slug
    BY DEF HeldStands
  <2>1. CASE h = RepoName(o, t, r)
    BY <1>1, <1>2, <2>1 DEF RepoName
  <2>2. CASE h \in held /\ Retired(h.scope, h.slug)
    BY <2>2 DEF Retired
  <2>3. CASE h \in held /\ h.scope = Nothing /\ org[h.id] = h.slug
    BY <2>3
  <2>4. CASE h \in held /\ h.scope # Nothing /\ repo[h.id] # NoRepo /\ repo[h.id].org = h.scope
             /\ repo[h.id].slug = h.slug
    <3>1. h.id \in Repos
      BY <2>4 DEF NamesOK, NameRows, HeldName
    <3>2. CASE h.id = r
      BY <2>4, <3>1, <3>2 DEF Retired
    <3>. QED
      BY <1>2, <2>4, <3>1, <3>2
  <2>. QED
    BY <2>1, <2>2, <2>3, <2>4 DEF NamesOK, HeldStands
<1>7. Unshared'
  <2>1. ASSUME NEW k \in held, k.scope = o, k.slug = t PROVE <<o, t>> \in Retaken'
    <3>1. k.id \in Repos
      BY <1>1, <2>1 DEF NamesOK, NameRows, HeldName
    <3>2. Retired(o, t)
      BY <1>1, <1>3, <2>1, <3>1 DEF NamesOK, HeldStands
    <3>. QED
      BY <3>2
  <2>2. Retaken \subseteq Retaken'
    OBVIOUS
  <2>3. ASSUME NEW h \in held', NEW k \in held', h.scope = k.scope, h.slug = k.slug
        PROVE  h.id = k.id \/ <<h.scope, h.slug>> \in Retaken'
    <3>1. CASE h \in held /\ k \in held
      BY <2>2, <2>3, <3>1 DEF NamesOK, Unshared
    <3>2. CASE h = RepoName(o, t, r)
      BY <2>1, <2>3, <3>2 DEF RepoName
    <3>3. CASE k = RepoName(o, t, r)
      BY <2>1, <2>3, <3>3 DEF RepoName
    <3>. QED
      BY <3>1, <3>2, <3>3
  <2>. QED
    BY <2>3 DEF Unshared
<1>8. NamesGrow
  BY DEF NamesGrow
<1>. QED
  BY <1>4, <1>5, <1>6, <1>7, <1>8 DEF NamesOK

(* A row that keeps its name, or goes with its name retired.                *)
LEMMA RepoKeeps ==
    ASSUME NamesOK, NEW r \in Repos, NEW row \in {NoRepo} \union RepoRow,
           repo' = [repo EXCEPT ![r] = row],
           row # NoRepo => repo[r] # NoRepo /\ row.org = repo[r].org /\ row.slug = repo[r].slug,
           row = NoRepo /\ repo[r] # NoRepo =>
              \E x \in history' : x.scope = repo[r].org /\ x.slug = repo[r].slug,
           history \subseteq history', history' \subseteq held,
           UNCHANGED <<org, held, Retaken>>
    PROVE  NamesOK' /\ NamesGrow
<1>1. repo \in [Repos -> {NoRepo} \union RepoRow] /\ repo'[r] = row
      /\ \A x \in Repos : x # r => repo'[x] = repo[x]
  BY DEF NamesOK, NameRows
<1>2. NameRows'
  <2>1. repo' \in [Repos -> {NoRepo} \union RepoRow]
    BY <1>1
  <2>. QED
    BY <2>1 DEF NamesOK, NameRows
<1>3. LiveHeld'
  <2>1. ASSUME NEW p \in Orgs, org'[p] # Nothing PROVE OrgName(p, org'[p]) \in held'
    BY <2>1 DEF NamesOK, LiveHeld
  <2>2. ASSUME NEW x \in Repos, repo'[x] # NoRepo
        PROVE  RepoName(repo'[x].org, repo'[x].slug, x) \in held'
    BY <1>1, <2>2 DEF NamesOK, LiveHeld
  <2>. QED
    BY <2>1, <2>2 DEF LiveHeld
<1>4. HeldStands'
  <2>. SUFFICES ASSUME NEW h \in held
                PROVE  \/ Retired(h.scope, h.slug)'
                       \/ h.scope = Nothing /\ org'[h.id] = h.slug
                       \/ h.scope # Nothing /\ repo'[h.id] # NoRepo /\ repo'[h.id].org = h.scope
                          /\ repo'[h.id].slug = h.slug
    BY DEF HeldStands
  <2>1. CASE Retired(h.scope, h.slug)
    BY <2>1 DEF Retired
  <2>2. CASE h.scope = Nothing /\ org[h.id] = h.slug
    BY <2>2
  <2>3. CASE h.scope # Nothing /\ repo[h.id] # NoRepo /\ repo[h.id].org = h.scope
             /\ repo[h.id].slug = h.slug
    <3>1. h.id \in Repos
      BY <2>3 DEF NamesOK, NameRows, HeldName
    <3>2. CASE h.id = r /\ row = NoRepo
      BY <2>3, <3>2 DEF Retired
    <3>. QED
      BY <1>1, <2>3, <3>1, <3>2
  <2>. QED
    BY <2>1, <2>2, <2>3 DEF NamesOK, HeldStands
<1>5. Unshared' /\ NamesGrow
  BY DEF NamesOK, Unshared, NamesGrow
<1>. QED
  BY <1>2, <1>3, <1>4, <1>5 DEF NamesOK

-----------------------------------------------------------------------------
(* What a visit knows of the names it goes by.                              *)

Stages == {"absent", "create_org", "create_repo", "org", "ask_org", "rename_org", "repo", "ask_repo",
           "rename_repo", "delete_repo", "org_history", "repo_live", "repo_history", "answered",
           "hosted", "parts", "sources", "recipes", "manifest"}

CallerOK(v) ==
    LET w == visit[v] IN
    /\ w.at \in Stages
    /\ w.at \in {"create_org", "create_repo", "ask_org", "rename_org", "ask_repo", "rename_repo"} =>
          w.slug \in Slugs /\ w.retired \in BOOLEAN /\ (w.retired => Trim[w.slug] # w.slug)
    /\ w.at = "org" => w.org \in Orgs /\ org[w.org] # Nothing
    /\ w.at \in {"ask_org", "rename_org"} => w.org \in Orgs /\ OrgName(w.org, w.old) \in held
    /\ w.at = "ask_org" =>
          w = [at |-> w.at, org |-> w.org, old |-> w.old, slug |-> w.slug, retired |-> w.retired]
    /\ w.at = "repo" => w.repo \in Repos
    /\ w.at \in {"ask_repo", "rename_repo", "delete_repo"} =>
          w.org \in Orgs /\ w.repo \in Repos /\ RepoName(w.org, w.old, w.repo) \in held
    /\ w.at = "ask_repo" =>
          w = [at |-> w.at, repo |-> w.repo, old |-> w.old, org |-> w.org, slug |-> w.slug,
               retired |-> w.retired]

(* A lookup that has found nothing yet either still can, or has seen that   *)
(* there was nothing to find.                                               *)
PathOK(v) ==
    LET w == visit[v] IN
    /\ w.at = "org_history" => Retired(Nothing, w.org) \/ {} \in seen[v]
    /\ w.at \in {"repo_live", "repo_history"} =>
          /\ w = [at |-> w.at, org |-> w.org, slug |-> w.slug, id |-> w.id]
          /\ <<Nothing, w.org>> \in Retaken \/ OrgName(w.id, w.org) \in held
    /\ w.at = "repo_history" =>
          <<Nothing, w.org>> \in Retaken \/ Retired(w.id, w.slug) \/ {} \in seen[v]
    /\ w.at = "answered" =>
          w.found \in seen[v] \/ \E x \in Retaken : x[2] \in {w.org, w.slug}

ManifestOK(v) ==
    LET w == visit[v] IN
    /\ w.at \in Gathering =>
          /\ w = [at |-> w.at, org |-> w.org, remote |-> w.remote, got |-> w.got]
          /\ w.remote \in Remotes /\ w.org # Nothing
          /\ \/ w.remote \in handed
             \/ remote[w.remote].org = w.org /\ w.got \subseteq {w.org}
    /\ w.at = "manifest" => w.got \subseteq {w.org} \/ w.remote \in handed

VisitOK(v) == CallerOK(v) /\ PathOK(v) /\ ManifestOK(v)

(* Only a remote that changed hands carries what another organisation put   *)
(* there.                                                                   *)
RemoteRow == [org : Orgs \union {Nothing}, snapshot : Repos \union {Nothing},
              by : Orgs \union {Nothing}, sources : SUBSET Orgs, recipes : SUBSET Orgs]
RemotesOK ==
    /\ remote \in [Remotes -> RemoteRow]
    /\ \A m \in Remotes \ handed :
          /\ remote[m].sources \union remote[m].recipes \subseteq {remote[m].org}
          /\ remote[m].snapshot # Nothing => remote[m].by = remote[m].org /\ remote[m].org # Nothing

TenancyIInv == NamesOK /\ RemotesOK /\ DOMAIN visit = Visits /\ \A v \in Visits : VisitOK(v)

WiresKept ==
    /\ handed \subseteq handed'
    /\ \A w \in Visits : visit[w].at \in Gathering =>
          \/ visit[w].remote \in handed'
          \/ remote'[visit[w].remote].org = remote[visit[w].remote].org

LEMMA WiresStay == ASSUME RemotesOK, UNCHANGED Wires PROVE RemotesOK' /\ WiresKept
<1>1. remote' = remote /\ handed' = handed
  BY DEF Wires
<1>. QED
  BY <1>1 DEF RemotesOK, WiresKept

(* A step of one visit leaves what the others know.                         *)
LEMMA VisitMoves ==
    ASSUME TenancyIInv, NamesOK', NamesGrow, RemotesOK', WiresKept, Watch,
           NEW v \in Visits, NEW k, visit' = [visit EXCEPT ![v] = k], VisitOK(v)'
    PROVE  TenancyIInv'
<1>1. DOMAIN visit' = Visits /\ \A w \in Visits : w # v => visit'[w] = visit[w]
  BY DEF TenancyIInv
<1>2. ASSUME NEW w \in Visits, w # v PROVE VisitOK(w)'
  <2>1. visit'[w] = visit[w] /\ VisitOK(w)
    BY <1>1, <1>2 DEF TenancyIInv
  <2>2. \A scope, s : Retired(scope, s) => Retired(scope, s)'
    BY DEF NamesGrow, Retired
  <2>3. visit[w].at \in Asking \union {"answered"} => seen[w] \subseteq seen'[w]
    BY <2>1 DEF Watch
  <2>4. CallerOK(w)'
    BY <2>1 DEF VisitOK, CallerOK, NamesGrow
  <2>5. PathOK(w)'
    BY <2>1, <2>2, <2>3 DEF VisitOK, PathOK, NamesGrow, Asking
  <2>6. ManifestOK(w)'
    BY <2>1 DEF VisitOK, ManifestOK, WiresKept
  <2>. QED
    BY <2>4, <2>5, <2>6 DEF VisitOK
<1>. QED
  BY <1>1, <1>2 DEF TenancyIInv

LEMMA VisitGoes ==
    ASSUME TenancyIInv, NamesOK', NamesGrow, RemotesOK', WiresKept, Watch,
           NEW v \in Visits, visit' = [visit EXCEPT ![v] = Absent]
    PROVE  TenancyIInv'
<1>1. visit'[v] = Absent
  BY DEF TenancyIInv
<1>2. VisitOK(v)'
  BY <1>1 DEF VisitOK, CallerOK, PathOK, ManifestOK, Gathering, Absent, Stages
<1>. QED
  BY <1>2, VisitMoves

LEMMA TenancyInitIInv == TenancyInit => TenancyIInv
<1>. SUFFICES ASSUME TenancyInit PROVE TenancyIInv
  OBVIOUS
<1>1. RemotesOK
  <2>1. PICK o \in Orgs : remote \in [Remotes -> {NoRemote, [NoRemote EXCEPT !.org = o, !.sources = {o}]}]
    BY DEF TenancyInit
  <2>. DEFINE row == [NoRemote EXCEPT !.org = o, !.sources = {o}]
  <2>2. NoRemote \in RemoteRow
    BY DEF RemoteRow, NoRemote
  <2>3. row \in RemoteRow /\ row.org = o /\ row.sources = {o} /\ row.recipes = {} /\ row.snapshot = Nothing
    BY <2>2 DEF RemoteRow, NoRemote
  <2>4. \A m \in Remotes : remote[m] = NoRemote \/ remote[m] = row
    BY <2>1
  <2>5. remote \in [Remotes -> RemoteRow]
    BY <2>1, <2>2, <2>3
  <2>. HIDE DEF row
  <2>. QED
    BY <2>3, <2>4, <2>5 DEF RemotesOK, NoRemote
<1>2. DOMAIN visit = Visits /\ \A v \in Visits : visit[v] = Absent
  BY DEF TenancyInit
<1>3. ASSUME NEW v \in Visits PROVE VisitOK(v)
  BY <1>2 DEF VisitOK, CallerOK, PathOK, ManifestOK, Gathering, Absent, Stages
<1>. QED
  BY NamesInit, <1>1, <1>2, <1>3 DEF TenancyIInv

-----------------------------------------------------------------------------
(* Steps that change names.                                                 *)

LEMMA CreateOrgStep ==
    ASSUME TenancyIInv, NEW v \in Visits, CreateOrg(v), Watch
    PROVE  TenancyIInv'
<1>. DEFINE s == visit[v].slug
<1>1. NamesOK /\ s \in Slugs /\ visit[v].retired \in BOOLEAN
      /\ (visit[v].retired => Trim[visit[v].slug] # visit[v].slug)
  BY DEF TenancyIInv, VisitOK, CallerOK, CreateOrg
<1>2. NamesOK' /\ NamesGrow
  <2>1. CASE OrgIdBySlug(s) # {}
    <3>1. UNCHANGED Names
      BY <2>1 DEF CreateOrg, Names, Marks
    <3>. QED
      BY <1>1, <3>1, NamesStay
  <2>2. CASE OrgIdBySlug(s) = {}
    <3>1. PICK o \in Orgs \ ListOrganizations :
              org' = [org EXCEPT ![o] = s] /\ Called(Nothing, s, o) /\ Overtaken(v, Nothing, s)
      BY <2>2 DEF CreateOrg
    <3>2. org[o] = Nothing
      BY DEF ListOrganizations
    <3>3. held' = held \union {OrgName(o, s)}
      BY <3>1 DEF Called, OrgName
    <3>4. Retaken \subseteq Retaken' /\ (Retired(Nothing, s) => <<Nothing, s>> \in Retaken')
      BY <1>1, <3>1, Marked
    <3>5. repo' = repo /\ history' = history /\ history \subseteq held
      BY <1>1 DEF CreateOrg, NamesOK, NameRows
    <3>. HIDE DEF s
    <3>. QED
      BY <1>1, <2>2, <3>1, <3>2, <3>3, <3>4, <3>5, OrgTakes
  <2>. QED
    BY <2>1, <2>2
<1>3. RemotesOK' /\ WiresKept
  BY WiresStay DEF TenancyIInv, CreateOrg
<1>. QED
  BY <1>2, <1>3, VisitGoes DEF CreateOrg, Left

LEMMA CreateRepoStep ==
    ASSUME TenancyIInv, NEW v \in Visits, CreateRepo(v), Watch
    PROVE  TenancyIInv'
<1>. DEFINE t == visit[v].slug
            found == OrgIdBySlug(visit[v].org)
<1>1. NamesOK /\ t \in Slugs /\ visit[v].retired \in BOOLEAN
      /\ (visit[v].retired => Trim[visit[v].slug] # visit[v].slug)
  BY DEF TenancyIInv, VisitOK, CallerOK, CreateRepo
<1>2. NamesOK' /\ NamesGrow
  <2>1. CASE found = {} \/ ResolveRepo(visit[v].org, t) # {}
    <3>1. UNCHANGED Names
      BY <2>1 DEF CreateRepo, Names, Marks
    <3>. QED
      BY <1>1, <3>1, NamesStay
  <2>2. CASE ~ (found = {} \/ ResolveRepo(visit[v].org, t) # {})
    <3>1. PICK o \in found, r \in Repos \ ListRepositories :
              /\ repo' = [repo EXCEPT ![r] = [org |-> o, slug |-> t, host |-> Nothing]]
              /\ Called(o, t, r) /\ Overtaken(v, o, t)
      BY <2>2 DEF CreateRepo
    <3>2. o \in Orgs /\ LiveRepo(o, t) = {}
      BY <2>2 DEF OrgIdBySlug, ResolveRepo
    <3>. DEFINE row == [org |-> o, slug |-> t, host |-> Nothing]
    <3>3. row \in RepoRow /\ row.org = o /\ row.slug = t
      BY <1>1, <3>2 DEF RepoRow
    <3>4. repo[r] = NoRepo
      BY DEF ListRepositories
    <3>5. held' = held \union {RepoName(o, t, r)}
      BY <3>1 DEF Called, RepoName
    <3>6. Retaken \subseteq Retaken' /\ (Retired(o, t) => <<o, t>> \in Retaken')
      BY <1>1, <3>1, Marked
    <3>7. org' = org /\ history' = history /\ history \subseteq held
      BY <1>1 DEF CreateRepo, NamesOK, NameRows
    <3>8. repo' = [repo EXCEPT ![r] = row]
      BY <3>1
    <3>. HIDE DEF t, row
    <3>. QED
      BY <1>1, <3>2, <3>3, <3>4, <3>5, <3>6, <3>7, <3>8, RepoTakes
  <2>. QED
    BY <2>1, <2>2
<1>3. RemotesOK' /\ WiresKept
  BY WiresStay DEF TenancyIInv, CreateRepo
<1>. QED
  BY <1>2, <1>3, VisitGoes DEF CreateRepo, Left

LEMMA RenameOrgStep ==
    ASSUME TenancyIInv, NEW v \in Visits, RenameOrg(v), Watch
    PROVE  TenancyIInv'
<1>. DEFINE o == visit[v].org
            s == visit[v].slug
            old == visit[v].old
<1>1. NamesOK /\ o \in Orgs /\ s \in Slugs /\ visit[v].retired \in BOOLEAN
      /\ (visit[v].retired => Trim[visit[v].slug] # visit[v].slug) /\ OrgName(o, old) \in held
  BY DEF TenancyIInv, VisitOK, CallerOK, RenameOrg
<1>2. NamesOK' /\ NamesGrow
  <2>1. CASE Retired(Nothing, old) \/ OrgIdBySlug(s) # {}
    <3>1. UNCHANGED Names
      BY <2>1 DEF RenameOrg
    <3>. QED
      BY <1>1, <3>1, NamesStay
  <2>2. CASE ~ Retired(Nothing, old) /\ OrgIdBySlug(s) = {}
    <3>1. /\ history' = history \union {OrgName(o, old)} /\ org' = [org EXCEPT ![o] = s]
          /\ Called(Nothing, s, o) /\ Overtaken(v, Nothing, s) /\ repo' = repo
      BY <2>2 DEF RenameOrg, OrgName
    <3>2. org[o] = old
      BY <1>1, <2>2 DEF NamesOK, HeldStands, OrgName
    <3>3. \E x \in history' : x.scope = Nothing /\ x.slug = org[o]
      <4>1. OrgName(o, old) \in history'
        BY <3>1
      <4>. QED
        BY <3>2, <4>1 DEF OrgName
    <3>4. held' = held \union {OrgName(o, s)}
      BY <3>1 DEF Called, OrgName
    <3>5. Retaken \subseteq Retaken' /\ (Retired(Nothing, s) => <<Nothing, s>> \in Retaken')
      BY <1>1, <3>1, Marked
    <3>6. history \subseteq history' /\ history' \subseteq held
      BY <1>1, <3>1 DEF NamesOK, NameRows
    <3>. HIDE DEF o, s, old
    <3>. QED
      BY <1>1, <2>2, <3>1, <3>3, <3>4, <3>5, <3>6, OrgTakes
  <2>. QED
    BY <2>1, <2>2
<1>3. RemotesOK' /\ WiresKept
  BY WiresStay DEF TenancyIInv, RenameOrg
<1>. QED
  BY <1>2, <1>3, VisitGoes DEF RenameOrg, Left

(* The row a rename or a deletion is about, while the name that was read is *)
(* no history.                                                              *)
LEMMA NamedRow ==
    ASSUME NamesOK, NEW o \in Orgs, NEW old, NEW r \in Repos, RepoName(o, old, r) \in held,
           ~ Retired(o, old)
    PROVE  /\ r \in ListRepositories /\ repo[r] \in RepoRow
           /\ repo[r].org = o /\ repo[r].slug = old
<1>1. o # Nothing
  BY TenancyAssumption
<1>. QED
  BY <1>1 DEF NamesOK, NameRows, HeldStands, RepoName, ListRepositories

LEMMA RenameRepoStep ==
    ASSUME TenancyIInv, NEW v \in Visits, RenameRepo(v), Watch
    PROVE  TenancyIInv'
<1>. DEFINE o == visit[v].org
            r == visit[v].repo
            t == visit[v].slug
            old == visit[v].old
<1>1. /\ NamesOK /\ o \in Orgs /\ r \in Repos /\ t \in Slugs /\ visit[v].retired \in BOOLEAN
      /\ (visit[v].retired => Trim[visit[v].slug] # visit[v].slug)
      /\ RepoName(o, old, r) \in held
  BY DEF TenancyIInv, VisitOK, CallerOK, RenameRepo
<1>2. NamesOK' /\ NamesGrow
  <2>1. CASE Retired(o, old) \/ LiveRepo(o, t) # {}
    <3>1. UNCHANGED Names
      BY <2>1 DEF RenameRepo
    <3>. QED
      BY <1>1, <3>1, NamesStay
  <2>2. CASE ~ Retired(o, old) /\ LiveRepo(o, t) = {}
    <3>1. r \in ListRepositories /\ repo[r] \in RepoRow /\ repo[r].org = o /\ repo[r].slug = old
      BY <1>1, <2>2, NamedRow
    <3>2. /\ history' = history \union {RepoName(o, old, r)}
          /\ repo' = [repo EXCEPT ![r].slug = t]
          /\ Called(o, t, r) /\ Overtaken(v, o, t) /\ org' = org
      BY <2>2, <3>1 DEF RenameRepo, RepoName
    <3>. DEFINE row == [repo[r] EXCEPT !.slug = t]
    <3>3. row \in RepoRow /\ row.org = o /\ row.slug = t
      BY <1>1, <3>1 DEF RepoRow
    <3>4. repo' = [repo EXCEPT ![r] = row]
      BY <3>2
    <3>5. \E x \in history' : x.scope = repo[r].org /\ x.slug = repo[r].slug
      <4>1. RepoName(o, old, r) \in history'
        BY <3>2
      <4>. QED
        BY <3>1, <4>1 DEF RepoName
    <3>6. held' = held \union {RepoName(o, t, r)}
      BY <3>2 DEF Called, RepoName
    <3>7. Retaken \subseteq Retaken' /\ (Retired(o, t) => <<o, t>> \in Retaken')
      BY <1>1, <3>2, Marked
    <3>8. history \subseteq history' /\ history' \subseteq held /\ org' = org
      BY <1>1, <3>2 DEF NamesOK, NameRows
    <3>. HIDE DEF o, r, t, old, row
    <3>. QED
      BY <1>1, <2>2, <3>3, <3>4, <3>5, <3>6, <3>7, <3>8, RepoTakes
  <2>. QED
    BY <2>1, <2>2
<1>3. RemotesOK' /\ WiresKept
  BY WiresStay DEF TenancyIInv, RenameRepo
<1>. QED
  BY <1>2, <1>3, VisitGoes DEF RenameRepo, Left

LEMMA DeleteRepoStep ==
    ASSUME TenancyIInv, NEW v \in Visits, DeleteRepo(v), Watch
    PROVE  TenancyIInv'
<1>. DEFINE o == visit[v].org
            r == visit[v].repo
            old == visit[v].old
<1>1. /\ NamesOK /\ o \in Orgs /\ r \in Repos /\ RepoName(o, old, r) \in held
      /\ org' = org /\ held' = held /\ Retaken' = Retaken /\ handed' = handed
  BY DEF TenancyIInv, VisitOK, CallerOK, DeleteRepo, Marks, Retaken
<1>2. CASE Retired(o, old)
  <2>1. UNCHANGED Names /\ UNCHANGED Wires
    BY <1>1, <1>2 DEF DeleteRepo, Names, Marks, Wires
  <2>2. NamesOK' /\ NamesGrow /\ RemotesOK' /\ WiresKept
    BY <1>1, <2>1, NamesStay, WiresStay DEF TenancyIInv
  <2>. QED
    BY <2>2, VisitGoes DEF DeleteRepo, Left
<1>3. CASE ~ Retired(o, old)
  <2>1. repo[r].org = o /\ repo[r].slug = old
    BY <1>1, <1>3, NamedRow
  <2>2. /\ history' = history \union {RepoName(o, old, r)}
        /\ repo' = [repo EXCEPT ![r] = NoRepo]
        /\ remote' = [m \in Remotes |-> IF remote[m].snapshot = r
                                        THEN [remote[m] EXCEPT !.snapshot = Nothing]
                                        ELSE remote[m]]
    BY <1>3 DEF DeleteRepo, RepoName
  <2>3. \E x \in history' : x.scope = repo[r].org /\ x.slug = repo[r].slug
    <3>1. RepoName(o, old, r) \in history'
      BY <2>2
    <3>. QED
      BY <2>1, <3>1 DEF RepoName
  <2>4. history \subseteq history' /\ history' \subseteq held
    BY <1>1, <2>2 DEF NamesOK, NameRows
  <2>5. NamesOK' /\ NamesGrow
    <3>. HIDE DEF o, r, old
    <3>. QED
      BY <1>1, <2>2, <2>3, <2>4, RepoKeeps
  <2>6. RemotesOK' /\ WiresKept
    <3>1. ASSUME NEW m \in Remotes
          PROVE  /\ remote'[m] \in RemoteRow /\ remote'[m].org = remote[m].org
                 /\ remote'[m].by = remote[m].by
                 /\ remote'[m].sources = remote[m].sources /\ remote'[m].recipes = remote[m].recipes
                 /\ remote'[m].snapshot \in {remote[m].snapshot, Nothing}
      BY <2>2 DEF TenancyIInv, RemotesOK, RemoteRow
    <3>2. RemotesOK'
      BY <1>1, <2>2, <3>1 DEF TenancyIInv, RemotesOK
    <3>3. WiresKept
      BY <1>1, <3>1 DEF TenancyIInv, VisitOK, ManifestOK, WiresKept
    <3>. QED
      BY <3>2, <3>3
  <2>. QED
    BY <2>5, <2>6, VisitGoes DEF DeleteRepo, Left
<1>. QED
  BY <1>2, <1>3

LEMMA SetCustomDomainStep ==
    ASSUME TenancyIInv, NEW v \in Visits, SetCustomDomain(v), Watch
    PROVE  TenancyIInv'
<1>. DEFINE r == visit[v].repo
<1>1. /\ NamesOK /\ r \in Repos /\ org' = org /\ history' = history /\ held' = held
      /\ Retaken' = Retaken /\ history \subseteq held
  BY DEF TenancyIInv, VisitOK, CallerOK, SetCustomDomain, NamesOK, NameRows, Marks, Retaken
<1>2. NamesOK' /\ NamesGrow
  <2>1. CASE repo' = repo
    BY <1>1, <2>1, NamesStay DEF SetCustomDomain, Names
  <2>2. CASE repo' # repo
    <3>1. PICK h \in Hosts \union {Nothing} : r \in ListRepositories /\ repo' = [repo EXCEPT ![r].host = h]
      BY <2>2 DEF SetCustomDomain
    <3>2. repo[r] \in RepoRow /\ repo[r] # NoRepo
      BY <1>1, <3>1 DEF NamesOK, NameRows, ListRepositories
    <3>. DEFINE row == [repo[r] EXCEPT !.host = h]
    <3>3. row \in RepoRow /\ row.org = repo[r].org /\ row.slug = repo[r].slug
      BY <3>2 DEF RepoRow
    <3>4. row # NoRepo
      BY <3>3, TenancyAssumption DEF RepoRow, NoRepo
    <3>5. repo' = [repo EXCEPT ![r] = row]
      BY <3>1
    <3>. HIDE DEF r, row
    <3>. QED
      BY <1>1, <3>2, <3>3, <3>4, <3>5, RepoKeeps
  <2>. QED
    BY <2>1, <2>2
<1>3. RemotesOK' /\ WiresKept
  BY WiresStay DEF TenancyIInv, SetCustomDomain
<1>. QED
  BY <1>2, <1>3, VisitGoes DEF SetCustomDomain, Left

-----------------------------------------------------------------------------
(* Steps that change no name.                                               *)

LEMMA QuietMove ==
    ASSUME TenancyIInv, UNCHANGED <<Names, Wires>>, Watch,
           NEW v \in Visits, NEW k, visit' = [visit EXCEPT ![v] = k],
           visit'[v] = k => VisitOK(v)'
    PROVE  TenancyIInv'
<1>1. NamesOK' /\ NamesGrow
  BY NamesStay DEF TenancyIInv
<1>2. RemotesOK' /\ WiresKept
  BY WiresStay DEF TenancyIInv
<1>3. visit'[v] = k
  BY DEF TenancyIInv
<1>. QED
  BY <1>1, <1>2, <1>3, VisitMoves

LEMMA QuietGoes ==
    ASSUME TenancyIInv, UNCHANGED <<Names, Wires>>, Watch, NEW v \in Visits, Left(v)
    PROVE  TenancyIInv'
BY NamesStay, WiresStay, VisitGoes DEF TenancyIInv, Left

(* Who asks about the name itself, or about it without the space around it, *)
(* knows that a name that is history has space around it.                   *)
LEMMA Asked ==
    ASSUME TenancyIInv, UNCHANGED <<Names, Wires>>, Watch, NEW v \in Visits, NEW k, NEW s \in Slugs,
           visit' = [visit EXCEPT ![v] = k], k.at \in {"create_org", "create_repo"},
           k.slug = s, k.retired \in BOOLEAN, k.retired => Trim[s] # s
    PROVE  TenancyIInv'
<1>1. visit'[v] = k
  BY DEF TenancyIInv
<1>2. VisitOK(v)'
  BY <1>1 DEF VisitOK, CallerOK, PathOK, ManifestOK, Gathering, Stages
<1>. QED
  BY <1>2, QuietMove

LEMMA CreateOrgCheckStep ==
    ASSUME TenancyIInv, NEW v \in Visits, CreateOrgCheck(v) \/ OrgCreateCheck(v), Watch
    PROVE  TenancyIInv'
<1>1. UNCHANGED <<Names, Wires>>
  BY DEF CreateOrgCheck, OrgCreateCheck
<1>2. PICK s \in Slugs : \E b \in BOOLEAN :
        /\ b => Trim[s] # s
        /\ visit' = [visit EXCEPT ![v] = [at |-> "create_org", slug |-> s, retired |-> b]]
  <2>1. CASE CreateOrgCheck(v)
    <3>1. PICK s \in Slugs :
            /\ ~ OrgSlugRetired(Trim[s])
            /\ visit' = [visit EXCEPT ![v] = [at |-> "create_org", slug |-> s, retired |-> OrgSlugRetired(s)]]
      BY <2>1 DEF CreateOrgCheck, Comes
    <3>2. OrgSlugRetired(s) \in BOOLEAN /\ (OrgSlugRetired(s) => Trim[s] # s)
      BY <3>1 DEF OrgSlugRetired, Retired
    <3>. QED
      BY <3>1, <3>2
  <2>2. CASE OrgCreateCheck(v)
    BY <2>2 DEF OrgCreateCheck, Comes
  <2>. QED
    BY <2>1, <2>2
<1>3. PICK b \in BOOLEAN :
        /\ b => Trim[s] # s
        /\ visit' = [visit EXCEPT ![v] = [at |-> "create_org", slug |-> s, retired |-> b]]
  BY <1>2
<1>. QED
  BY <1>1, <1>3, Asked

LEMMA CreateRepoCheckStep ==
    ASSUME TenancyIInv, NEW v \in Visits, CreateRepoCheck(v) \/ RepoCreateCheck(v), Watch
    PROVE  TenancyIInv'
<1>1. UNCHANGED <<Names, Wires>>
  BY DEF CreateRepoCheck, RepoCreateCheck
<1>2. PICK s \in Slugs, t \in Slugs : \E b \in BOOLEAN :
        /\ b => Trim[t] # t
        /\ visit' = [visit EXCEPT ![v] = [at |-> "create_repo", org |-> s, slug |-> t, retired |-> b]]
  <2>1. CASE CreateRepoCheck(v)
    <3>1. PICK s \in Slugs, t \in Slugs : \E o \in OrgIdBySlug(s) :
            /\ ~ RepoSlugRetired(o, Trim[t])
            /\ visit' = [visit EXCEPT ![v] = [at |-> "create_repo", org |-> s, slug |-> t,
                                              retired |-> RepoSlugRetired(o, t)]]
      BY <2>1 DEF CreateRepoCheck, Comes
    <3>2. PICK o \in OrgIdBySlug(s) :
            /\ ~ RepoSlugRetired(o, Trim[t])
            /\ visit' = [visit EXCEPT ![v] = [at |-> "create_repo", org |-> s, slug |-> t,
                                              retired |-> RepoSlugRetired(o, t)]]
      BY <3>1
    <3>3. RepoSlugRetired(o, t) \in BOOLEAN /\ (RepoSlugRetired(o, t) => Trim[t] # t)
      BY <3>2 DEF RepoSlugRetired, Retired
    <3>. QED
      BY <3>2, <3>3
  <2>2. CASE RepoCreateCheck(v)
    BY <2>2 DEF RepoCreateCheck, Comes
  <2>. QED
    BY <2>1, <2>2
<1>3. PICK b \in BOOLEAN :
        /\ b => Trim[t] # t
        /\ visit' = [visit EXCEPT ![v] = [at |-> "create_repo", org |-> s, slug |-> t, retired |-> b]]
  BY <1>2
<1>. QED
  BY <1>1, <1>3, Asked

LEMMA LookupOrgStep ==
    ASSUME TenancyIInv, NEW v \in Visits, LookupOrg(v), Watch
    PROVE  TenancyIInv'
<1>1. PICK s \in Slugs : \E o \in OrgIdBySlug(s) : visit' = [visit EXCEPT ![v] = [at |-> "org", org |-> o]]
  BY DEF LookupOrg, Comes
<1>2. PICK o \in OrgIdBySlug(s) : visit' = [visit EXCEPT ![v] = [at |-> "org", org |-> o]]
  BY <1>1
<1>3. o \in Orgs /\ org[o] # Nothing /\ org' = org
  BY DEF OrgIdBySlug, LookupOrg, Names
<1>4. visit'[v] = [at |-> "org", org |-> o] => VisitOK(v)'
  BY <1>3 DEF VisitOK, CallerOK, PathOK, ManifestOK, Gathering, Stages
<1>. QED
  BY <1>2, <1>4, QuietMove DEF LookupOrg

LEMMA NewSlug == ASSUME NEW s \in NewSlugs PROVE s \in Slugs
BY TenancyAssumption DEF NewSlugs

LEMMA RenameOrgReadStep ==
    ASSUME TenancyIInv, NEW v \in Visits, RenameOrgRead(v), Watch
    PROVE  TenancyIInv'
<1>1. UNCHANGED <<Names, Wires>> /\ held' = held
  BY DEF RenameOrgRead, Names, Marks
<1>2. visit[v].org \in Orgs /\ OrgName(visit[v].org, org[visit[v].org]) \in held
  BY DEF TenancyIInv, VisitOK, CallerOK, RenameOrgRead, NamesOK, LiveHeld
<1>3. CASE Left(v)
  BY <1>1, <1>3, QuietGoes
<1>4. CASE ~ Left(v)
  <2>1. PICK s \in NewSlugs :
          visit' = [visit EXCEPT ![v] = [at |-> "ask_org", org |-> visit[v].org,
                                         old |-> org[visit[v].org], slug |-> s, retired |-> FALSE]]
    BY <1>4 DEF RenameOrgRead, Onward
  <2>. DEFINE k == [at |-> "ask_org", org |-> visit[v].org, old |-> org[visit[v].org],
                    slug |-> s, retired |-> FALSE]
  <2>2. visit'[v] = k
    BY <2>1 DEF TenancyIInv
  <2>3. VisitOK(v)'
    BY <1>1, <1>2, <2>2, NewSlug DEF VisitOK, CallerOK, PathOK, ManifestOK, Gathering, Stages
  <2>. QED
    BY <1>1, <2>1, <2>3, QuietMove
<1>. QED
  BY <1>3, <1>4

LEMMA RenameOrgCheckStep ==
    ASSUME TenancyIInv, NEW v \in Visits, RenameOrgCheck(v), Watch
    PROVE  TenancyIInv'
<1>1. UNCHANGED <<Names, Wires>> /\ held' = held
  BY DEF RenameOrgCheck, Names, Marks
<1>2. CASE Left(v)
  BY <1>1, <1>2, QuietGoes
<1>3. CASE ~ Left(v)
  <2>. DEFINE w == visit[v]
              k == [at |-> "rename_org", org |-> w.org, old |-> w.old, slug |-> w.slug,
                    retired |-> w.retired]
  <2>1. w.at = "ask_org" /\ CallerOK(v)
    BY DEF TenancyIInv, VisitOK, RenameOrgCheck
  <2>2. [w EXCEPT !.at = "rename_org"] = k
    BY <2>1 DEF CallerOK
  <2>3. visit' = [visit EXCEPT ![v] = k] /\ visit'[v] = k
    BY <1>3, <2>2 DEF RenameOrgCheck, Onward, TenancyIInv
  <2>4. VisitOK(v)'
    BY <1>1, <2>1, <2>3 DEF VisitOK, CallerOK, PathOK, ManifestOK, Gathering, Stages
  <2>. HIDE DEF k
  <2>. QED
    BY <1>1, <2>3, <2>4, QuietMove
<1>. QED
  BY <1>2, <1>3

LEMMA LookupStep ==
    ASSUME TenancyIInv, NEW v \in Visits, Lookup(v), Watch
    PROVE  TenancyIInv'
<1>1. PICK s \in Slugs, t \in Slugs : \E r \in ResolveRepo(s, t) :
        visit' = [visit EXCEPT ![v] = [at |-> "repo", repo |-> r, confirm |-> t]]
  BY DEF Lookup, Comes
<1>2. PICK r \in ResolveRepo(s, t) :
        visit' = [visit EXCEPT ![v] = [at |-> "repo", repo |-> r, confirm |-> t]]
  BY <1>1
<1>3. r \in Repos
  BY DEF ResolveRepo, LiveRepo, ReposForOrg, ListRepositories
<1>4. visit'[v] = [at |-> "repo", repo |-> r, confirm |-> t] => VisitOK(v)'
  BY <1>3 DEF VisitOK, CallerOK, PathOK, ManifestOK, Gathering, Stages
<1>. QED
  BY <1>2, <1>4, QuietMove DEF Lookup

LEMMA LiveName ==
    ASSUME NamesOK, NEW r \in ListRepositories
    PROVE  repo[r].org \in Orgs /\ RepoName(repo[r].org, repo[r].slug, r) \in held
BY DEF NamesOK, NameRows, LiveHeld, ListRepositories, RepoRow

LEMMA RenameRepoReadStep ==
    ASSUME TenancyIInv, NEW v \in Visits, RenameRepoRead(v), Watch
    PROVE  TenancyIInv'
<1>. DEFINE r == visit[v].repo
<1>1. UNCHANGED <<Names, Wires>> /\ held' = held
  BY DEF RenameRepoRead, Names, Marks
<1>2. CASE Left(v)
  BY <1>1, <1>2, QuietGoes
<1>3. CASE ~ Left(v)
  <2>1. PICK s \in NewSlugs :
          /\ r \in ListRepositories
          /\ visit' = [visit EXCEPT ![v] = [at |-> "ask_repo", repo |-> r, old |-> repo[r].slug,
                                            org |-> repo[r].org, slug |-> s, retired |-> FALSE]]
    BY <1>3 DEF RenameRepoRead, Onward
  <2>2. repo[r].org \in Orgs /\ RepoName(repo[r].org, repo[r].slug, r) \in held /\ r \in Repos
    BY <2>1, LiveName DEF TenancyIInv, ListRepositories
  <2>. DEFINE k == [at |-> "ask_repo", repo |-> r, old |-> repo[r].slug,
                    org |-> repo[r].org, slug |-> s, retired |-> FALSE]
  <2>3. visit'[v] = k
    BY <2>1 DEF TenancyIInv
  <2>4. VisitOK(v)'
    BY <1>1, <2>2, <2>3, NewSlug DEF VisitOK, CallerOK, PathOK, ManifestOK, Gathering, Stages
  <2>. QED
    BY <1>1, <2>1, <2>4, QuietMove
<1>. QED
  BY <1>2, <1>3

LEMMA RenameRepoCheckStep ==
    ASSUME TenancyIInv, NEW v \in Visits, RenameRepoCheck(v), Watch
    PROVE  TenancyIInv'
<1>1. UNCHANGED <<Names, Wires>> /\ held' = held
  BY DEF RenameRepoCheck, Names, Marks
<1>2. CASE Left(v)
  BY <1>1, <1>2, QuietGoes
<1>3. CASE ~ Left(v)
  <2>. DEFINE w == visit[v]
              k == [at |-> "rename_repo", repo |-> w.repo, old |-> w.old, org |-> w.org,
                    slug |-> w.slug, retired |-> w.retired]
  <2>1. w.at = "ask_repo" /\ CallerOK(v)
    BY DEF TenancyIInv, VisitOK, RenameRepoCheck
  <2>2. [w EXCEPT !.at = "rename_repo"] = k
    BY <2>1 DEF CallerOK
  <2>3. visit' = [visit EXCEPT ![v] = k] /\ visit'[v] = k
    BY <1>3, <2>2 DEF RenameRepoCheck, Onward, TenancyIInv
  <2>4. VisitOK(v)'
    BY <1>1, <2>1, <2>3 DEF VisitOK, CallerOK, PathOK, ManifestOK, Gathering, Stages
  <2>. HIDE DEF k
  <2>. QED
    BY <1>1, <2>3, <2>4, QuietMove
<1>. QED
  BY <1>2, <1>3

LEMMA DeleteRepoCheckStep ==
    ASSUME TenancyIInv, NEW v \in Visits, DeleteRepoCheck(v), Watch
    PROVE  TenancyIInv'
<1>. DEFINE r == visit[v].repo
<1>1. UNCHANGED <<Names, Wires>> /\ held' = held
  BY DEF DeleteRepoCheck, Names, Marks
<1>2. CASE Left(v)
  BY <1>1, <1>2, QuietGoes
<1>3. CASE ~ Left(v)
  <2>1. /\ r \in ListRepositories
        /\ visit' = [visit EXCEPT ![v] = [at |-> "delete_repo", repo |-> r, org |-> repo[r].org,
                                          old |-> repo[r].slug]]
    BY <1>3 DEF DeleteRepoCheck, Onward
  <2>2. repo[r].org \in Orgs /\ RepoName(repo[r].org, repo[r].slug, r) \in held /\ r \in Repos
    BY <2>1, LiveName DEF TenancyIInv, ListRepositories
  <2>3. /\ visit'[v].at = "delete_repo" /\ visit'[v].org = repo[r].org
        /\ visit'[v].old = repo[r].slug /\ visit'[v].repo = r
    BY <2>1 DEF TenancyIInv
  <2>4. VisitOK(v)'
    BY <1>1, <2>2, <2>3 DEF VisitOK, CallerOK, PathOK, ManifestOK, Gathering, Stages
  <2>. QED
    BY <1>1, <2>1, <2>4, QuietMove
<1>. QED
  BY <1>2, <1>3

-----------------------------------------------------------------------------
(* Looking a path up.                                                       *)

LEMMA CanonicalIs ==
    ASSUME NamesOK, NEW s, NEW t, NEW o, OrgName(o, s) \in held, <<Nothing, s>> \notin Retaken
    PROVE  Canonical(s, t) = RepoOf(o, t)
<1>1. OrgOf(s) = {o}
  BY NamesFollow DEF OldNamesFollow, OrgName, NamesOK, NameRows, HeldName
<1>. QED
  BY <1>1 DEF Canonical

LEMMA HistoryIs ==
    ASSUME NamesOK, NEW o \in Orgs, NEW t, Retired(o, t), <<o, t>> \notin Retaken
    PROVE  RepoOf(o, t) = RepoByHistory(o, t)
<1>1. PICK h \in history : h.scope = o /\ h.slug = t
  BY DEF Retired
<1>2. h \in held /\ o # Nothing /\ history \subseteq held
  BY TenancyAssumption DEF NamesOK, NameRows
<1>3. RepoOf(o, t) = {h.id} \intersect ListRepositories
  BY <1>1, <1>2, NamesFollow DEF OldNamesFollow
<1>4. \A k \in history : k.scope = o /\ k.slug = t => k.id = h.id
  BY <1>1, <1>2 DEF NamesOK, Unshared
<1>5. {k.id : k \in {x \in history : x.scope = o /\ x.slug = t}} = {h.id}
  BY <1>1, <1>4
<1>. QED
  BY <1>3, <1>5 DEF RepoByHistory

LEMMA ResolveOrgStep ==
    ASSUME TenancyIInv, NEW v \in Visits, ResolveOrg(v), Watch
    PROVE  TenancyIInv'
<1>1. UNCHANGED <<Names, Wires>> /\ history' = history /\ held' = held /\ Retaken' = Retaken /\ NamesOK
  BY DEF TenancyIInv, ResolveOrg, Names, Marks, Retaken
<1>2. PICK s \in Slugs, t \in Slugs :
        /\ visit[v] = Absent
        /\ visit' = [visit EXCEPT ![v] =
                       IF OrgIdBySlug(s) = {} THEN [at |-> "org_history", org |-> s, slug |-> t]
                       ELSE [at |-> "repo_live", org |-> s, slug |-> t,
                             id |-> CHOOSE o \in OrgIdBySlug(s) : TRUE]]
  BY DEF ResolveOrg, Comes
<1>3. CASE OrgIdBySlug(s) = {}
  <2>. DEFINE k == [at |-> "org_history", org |-> s, slug |-> t]
  <2>1. visit' = [visit EXCEPT ![v] = k] /\ visit'[v] = k
    BY <1>2, <1>3 DEF TenancyIInv
  <2>2. seen'[v] = {Canonical(s, t)}
    BY <1>2, <2>1 DEF Watch, Asking, Absent
  <2>3. Retired(Nothing, s)' \/ {} \in seen'[v]
    <3>1. CASE ~ Retired(Nothing, s)
      <4>1. OrgOf(s) = {}
        BY <1>3, <3>1 DEF OrgOf, OrgByHistory, Retired
      <4>. QED
        BY <2>2, <4>1 DEF Canonical
    <3>2. CASE Retired(Nothing, s)
      BY <1>1, <3>2 DEF Retired
    <3>. QED
      BY <3>1, <3>2
  <2>4. VisitOK(v)'
    <3>1. CallerOK(v)' /\ ManifestOK(v)'
      BY <2>1 DEF CallerOK, ManifestOK, Gathering, Stages
    <3>2. PathOK(v)'
      BY <2>1, <2>3 DEF PathOK
    <3>. QED
      BY <3>1, <3>2 DEF VisitOK
  <2>. HIDE DEF k
  <2>. QED
    BY <1>1, <2>1, <2>4, QuietMove
<1>4. CASE OrgIdBySlug(s) # {}
  <2>. DEFINE o == CHOOSE x \in OrgIdBySlug(s) : TRUE
              k == [at |-> "repo_live", org |-> s, slug |-> t, id |-> o]
  <2>1. visit' = [visit EXCEPT ![v] = k] /\ visit'[v] = k
    BY <1>2, <1>4 DEF TenancyIInv
  <2>2. o \in OrgIdBySlug(s)
    BY <1>4
  <2>. HIDE DEF o
  <2>3. OrgName(o, s) \in held'
    BY <1>1, <2>2 DEF OrgIdBySlug, NamesOK, LiveHeld
  <2>4. VisitOK(v)'
    <3>1. CallerOK(v)' /\ ManifestOK(v)'
      BY <2>1 DEF CallerOK, ManifestOK, Gathering, Stages
    <3>2. PathOK(v)'
      BY <2>1, <2>3 DEF PathOK
    <3>. QED
      BY <3>1, <3>2 DEF VisitOK
  <2>. HIDE DEF k
  <2>. QED
    BY <1>1, <2>1, <2>4, QuietMove
<1>. QED
  BY <1>3, <1>4

(* The visit leaves a query with something found, or nothing.               *)
LEMMA AnswerStep ==
    ASSUME TenancyIInv, UNCHANGED <<Names, Wires>>, NEW v \in Visits, NEW found, Answer(v, found), Watch,
           \/ found \in seen'[v]
           \/ \E x \in Retaken : x[2] \in {visit[v].org, visit[v].slug}
    PROVE  TenancyIInv'
<1>. DEFINE k == [at |-> "answered", org |-> visit[v].org, slug |-> visit[v].slug, found |-> found]
<1>1. visit' = [visit EXCEPT ![v] = k] /\ visit'[v] = k /\ Retaken' = Retaken
  BY DEF TenancyIInv, Answer, Onward, Names, Marks, Retaken
<1>2. VisitOK(v)'
  <2>1. CallerOK(v)' /\ ManifestOK(v)'
    BY <1>1 DEF CallerOK, ManifestOK, Gathering, Stages
  <2>2. PathOK(v)'
    BY <1>1 DEF PathOK
  <2>. QED
    BY <2>1, <2>2 DEF VisitOK
<1>. HIDE DEF k
<1>. QED
  BY <1>1, <1>2, QuietMove

LEMMA ResolveOrgByHistoryStep ==
    ASSUME TenancyIInv, NEW v \in Visits, ResolveOrgByHistory(v), Watch
    PROVE  TenancyIInv'
<1>1. UNCHANGED <<Names, Wires>> /\ held' = held /\ NamesOK
  BY DEF TenancyIInv, ResolveOrgByHistory, Names, Marks
<1>2. visit[v].at = "org_history" /\ PathOK(v)
  BY DEF TenancyIInv, VisitOK, CallerOK, Stages, ResolveOrgByHistory
<1>. DEFINE s == visit[v].org
<1>3. CASE OrgByHistory(s) = {}
  <2>1. Answer(v, {})
    BY <1>2, <1>3 DEF ResolveOrgByHistory
  <2>2. {} \in seen[v]
    BY <1>2, <1>3 DEF PathOK, Retired, OrgByHistory
  <2>3. visit'[v].at = "answered"
    BY <2>1 DEF TenancyIInv, Answer, Onward
  <2>4. {} \in seen'[v]
    BY <1>2, <2>2, <2>3 DEF Watch, Asking
  <2>. QED
    BY <1>1, <2>1, <2>4, AnswerStep
<1>4. CASE OrgByHistory(s) # {}
  <2>. DEFINE o == CHOOSE x \in OrgByHistory(s) : TRUE
              k == [at |-> "repo_live", org |-> s, slug |-> visit[v].slug, id |-> o]
  <2>1. visit' = [visit EXCEPT ![v] = k] /\ visit'[v] = k
    BY <1>2, <1>4 DEF TenancyIInv, ResolveOrgByHistory, Onward
  <2>2. o \in OrgByHistory(s)
    BY <1>4
  <2>. HIDE DEF o
  <2>3. OrgName(o, s) \in held'
    <3>1. PICK h \in history : h.scope = Nothing /\ h.slug = s /\ h.id = o
      BY <2>2 DEF OrgByHistory
    <3>2. h \in [scope : {Nothing}, slug : Slugs, id : Orgs]
      BY <1>1, <3>1, TenancyAssumption DEF NamesOK, NameRows, HeldName
    <3>3. h = OrgName(o, s)
      BY <3>1, <3>2 DEF OrgName
    <3>. QED
      BY <1>1, <3>3 DEF NamesOK, NameRows
  <2>4. VisitOK(v)'
    <3>1. CallerOK(v)' /\ ManifestOK(v)'
      BY <2>1 DEF CallerOK, ManifestOK, Gathering, Stages
    <3>2. PathOK(v)'
      BY <2>1, <2>3 DEF PathOK
    <3>. QED
      BY <3>1, <3>2 DEF VisitOK
  <2>. HIDE DEF k
  <2>. QED
    BY <1>1, <2>1, <2>4, QuietMove
<1>. QED
  BY <1>3, <1>4

(* Where a path that is being looked up leads is among what was seen.       *)
LEMMA SeenNow ==
    ASSUME NEW v \in Visits, Watch, visit[v].at \in Asking,
           visit'[v].at \in Asking \union {"answered"}
    PROVE  seen[v] \subseteq seen'[v] /\ Canonical(visit[v].org, visit[v].slug) \in seen'[v]
BY DEF Watch, Asking

LEMMA ResolveLiveRepoStep ==
    ASSUME TenancyIInv, NEW v \in Visits, ResolveLiveRepo(v), Watch
    PROVE  TenancyIInv'
<1>1. /\ UNCHANGED <<Names, Wires>> /\ history' = history /\ held' = held /\ Retaken' = Retaken
      /\ NamesOK
  BY DEF TenancyIInv, ResolveLiveRepo, Names, Marks, Retaken
<1>2. visit[v].at = "repo_live" /\ PathOK(v)
  BY DEF TenancyIInv, VisitOK, ResolveLiveRepo
<1>3. PICK s, t, o : s = visit[v].org /\ t = visit[v].slug /\ o = visit[v].id
  OBVIOUS
<1>4. /\ visit[v] = [at |-> "repo_live", org |-> s, slug |-> t, id |-> o]
      /\ <<Nothing, s>> \in Retaken \/ OrgName(o, s) \in held
  BY <1>2, <1>3 DEF PathOK
<1>5. <<Nothing, s>> \in Retaken \/ Canonical(s, t) = RepoOf(o, t)
  BY <1>1, <1>4, CanonicalIs
<1>6. CASE LiveRepo(o, t) # {}
  <2>1. Answer(v, LiveRepo(o, t))
    BY <1>3, <1>6 DEF ResolveLiveRepo
  <2>2. visit'[v].at = "answered"
    BY <2>1 DEF TenancyIInv, Answer, Onward
  <2>3. Canonical(s, t) \in seen'[v]
    BY <1>2, <1>3, <2>2, SeenNow DEF Asking
  <2>4. CASE <<Nothing, s>> \notin Retaken
    <3>1. LiveRepo(o, t) \in seen'[v]
      BY <1>5, <1>6, <2>3, <2>4 DEF RepoOf
    <3>. QED
      BY <1>1, <2>1, <3>1, AnswerStep
  <2>5. CASE <<Nothing, s>> \in Retaken
    <3>1. \E x \in Retaken : x[2] \in {visit[v].org, visit[v].slug}
      BY <1>3, <2>5
    <3>. QED
      BY <1>1, <2>1, <3>1, AnswerStep
  <2>. QED
    BY <2>4, <2>5
<1>7. CASE LiveRepo(o, t) = {}
  <2>. DEFINE k == [at |-> "repo_history", org |-> s, slug |-> t, id |-> o]
  <2>1. visit' = [visit EXCEPT ![v] = k] /\ visit'[v] = k
    <3>1. [visit[v] EXCEPT !.at = "repo_history"] = k
      BY <1>4
    <3>. QED
      BY <1>3, <1>7, <3>1 DEF TenancyIInv, ResolveLiveRepo, Onward
  <2>2. Canonical(s, t) \in seen'[v]
    BY <1>2, <1>3, <2>1, SeenNow DEF Asking
  <2>3. <<Nothing, s>> \in Retaken \/ Retired(o, t) \/ {} \in seen'[v]
    <3>1. ~ Retired(o, t) => RepoOf(o, t) = {}
      BY <1>7 DEF RepoOf, RepoByHistory, Retired
    <3>. QED
      BY <1>5, <2>2, <3>1
  <2>4. PathOK(v)'
    BY <1>1, <1>4, <2>1, <2>3 DEF PathOK, Retired
  <2>5. VisitOK(v)'
    BY <2>1, <2>4 DEF VisitOK, CallerOK, ManifestOK, Gathering, Stages
  <2>. HIDE DEF k
  <2>. QED
    BY <1>1, <2>1, <2>5, QuietMove
<1>. QED
  BY <1>6, <1>7

LEMMA ResolveRepoByHistoryStep ==
    ASSUME TenancyIInv, NEW v \in Visits, ResolveRepoByHistory(v), Watch
    PROVE  TenancyIInv'
<1>1. UNCHANGED <<Names, Wires>> /\ NamesOK
  BY DEF TenancyIInv, ResolveRepoByHistory
<1>2. visit[v].at = "repo_history" /\ PathOK(v)
  BY DEF TenancyIInv, VisitOK, ResolveRepoByHistory
<1>3. PICK s, t, o : s = visit[v].org /\ t = visit[v].slug /\ o = visit[v].id
  OBVIOUS
<1>4. \/ <<Nothing, s>> \in Retaken
      \/ OrgName(o, s) \in held /\ Canonical(s, t) = RepoOf(o, t)
  <2>1. <<Nothing, s>> \in Retaken \/ OrgName(o, s) \in held
    BY <1>2, <1>3 DEF PathOK
  <2>2. ASSUME OrgName(o, s) \in held, <<Nothing, s>> \notin Retaken
        PROVE  Canonical(s, t) = RepoOf(o, t)
    BY <1>1, <2>2, CanonicalIs
  <2>. QED
    BY <2>1, <2>2
<1>5. Answer(v, RepoByHistory(o, t))
  BY <1>3 DEF ResolveRepoByHistory
<1>6. visit'[v].at = "answered"
  BY <1>5 DEF TenancyIInv, Answer, Onward
<1>7. seen[v] \subseteq seen'[v] /\ Canonical(s, t) \in seen'[v]
  BY <1>2, <1>3, <1>6, SeenNow DEF Asking
<1>8. \/ RepoByHistory(o, t) \in seen'[v]
      \/ <<Nothing, s>> \in Retaken \/ <<o, t>> \in Retaken
  <2>1. CASE OrgName(o, s) \in held /\ Retired(o, t) /\ <<o, t>> \notin Retaken
    <3>1. o \in Orgs
      BY <1>1, <2>1, TenancyAssumption DEF NamesOK, NameRows, HeldName, OrgName
    <3>2. RepoOf(o, t) = RepoByHistory(o, t)
      BY <1>1, <2>1, <3>1, HistoryIs
    <3>. QED
      BY <1>4, <1>7, <3>2
  <2>2. CASE ~ Retired(o, t)
    <3>1. RepoByHistory(o, t) = {}
      BY <2>2 DEF RepoByHistory, Retired
    <3>. QED
      BY <1>2, <1>3, <1>7, <2>2, <3>1 DEF PathOK
  <2>. QED
    BY <1>4, <2>1, <2>2
<1>9. \/ RepoByHistory(o, t) \in seen'[v]
      \/ \E x \in Retaken : x[2] \in {visit[v].org, visit[v].slug}
  BY <1>3, <1>8
<1>. QED
  BY <1>1, <1>5, <1>9, AnswerStep

-----------------------------------------------------------------------------
(* Manifests.                                                               *)

LEMMA RemoteChanges ==
    ASSUME TenancyIInv, UNCHANGED Names, Watch, NEW v \in Visits, visit' = [visit EXCEPT ![v] = Absent],
           NEW m \in Remotes, NEW row \in RemoteRow, remote' = [remote EXCEPT ![m] = row],
           handed' \in {handed, handed \union {m}},
           m \notin handed' =>
              /\ row.sources \union row.recipes \subseteq {row.org}
              /\ row.snapshot # Nothing => row.by = row.org /\ row.org # Nothing
              /\ row.org # remote[m].org =>
                    ~ \E w \in Visits : visit[w].at \in Gathering /\ visit[w].remote = m
    PROVE  TenancyIInv'
<1>1. remote \in [Remotes -> RemoteRow] /\ remote'[m] = row
      /\ \A x \in Remotes : x # m => remote'[x] = remote[x]
  BY DEF TenancyIInv, RemotesOK
<1>2. RemotesOK'
  <2>1. remote' \in [Remotes -> RemoteRow]
    BY <1>1
  <2>2. ASSUME NEW x \in Remotes \ handed'
        PROVE  /\ remote'[x].sources \union remote'[x].recipes \subseteq {remote'[x].org}
               /\ remote'[x].snapshot # Nothing => remote'[x].by = remote'[x].org /\ remote'[x].org # Nothing
    <3>1. CASE x = m
      BY <1>1, <2>2, <3>1
    <3>2. CASE x # m
      <4>1. x \in Remotes \ handed
        BY <3>2
      <4>. QED
        BY <1>1, <3>2, <4>1 DEF TenancyIInv, RemotesOK
    <3>. QED
      BY <3>1, <3>2
  <2>. QED
    BY <2>1, <2>2 DEF RemotesOK
<1>3. WiresKept
  <2>1. ASSUME NEW w \in Visits, visit[w].at \in Gathering
        PROVE  \/ visit[w].remote \in handed'
               \/ remote'[visit[w].remote].org = remote[visit[w].remote].org
    <3>1. visit[w].remote \in Remotes
      BY <2>1 DEF TenancyIInv, VisitOK, ManifestOK
    <3>2. CASE visit[w].remote = m
      BY <1>1, <2>1, <3>2
    <3>. QED
      BY <1>1, <3>1, <3>2
  <2>. QED
    BY <2>1 DEF WiresKept
<1>. QED
  BY <1>2, <1>3, NamesStay, VisitGoes DEF TenancyIInv

LEMMA RemoteFacts ==
    ASSUME TenancyIInv, NEW m \in Remotes
    PROVE  /\ remote[m] \in RemoteRow
           /\ m \notin handed =>
                /\ remote[m].sources \union remote[m].recipes \subseteq {remote[m].org}
                /\ remote[m].snapshot # Nothing => remote[m].by = remote[m].org /\ remote[m].org # Nothing
BY DEF TenancyIInv, RemotesOK

LEMMA SetOrgRemoteStep ==
    ASSUME TenancyIInv, NEW v \in Visits, SetOrgRemote(v), Watch
    PROVE  TenancyIInv'
<1>1. PICK s \in Slugs, m \in Remotes : \E o \in OrgIdBySlug(s) :
        /\ visit' = [visit EXCEPT ![v] = Absent]
        /\ remote' = [remote EXCEPT ![m].org = o]
        /\ handed' = IF remote[m].org \notin {Nothing, o} THEN handed \union {m} ELSE handed
  BY DEF SetOrgRemote, Comes
<1>2. PICK o \in OrgIdBySlug(s) :
        /\ visit' = [visit EXCEPT ![v] = Absent]
        /\ remote' = [remote EXCEPT ![m].org = o]
        /\ handed' = IF remote[m].org \notin {Nothing, o} THEN handed \union {m} ELSE handed
  BY <1>1
<1>3. o \in Orgs /\ o # Nothing
  BY TenancyAssumption DEF OrgIdBySlug
<1>. DEFINE row == [remote[m] EXCEPT !.org = o]
<1>4. /\ row \in RemoteRow /\ row.org = o /\ row.snapshot = remote[m].snapshot /\ row.by = remote[m].by
      /\ row.sources = remote[m].sources /\ row.recipes = remote[m].recipes
      /\ remote' = [remote EXCEPT ![m] = row]
  BY <1>2, <1>3, RemoteFacts DEF RemoteRow
<1>. HIDE DEF row
<1>5. ASSUME m \notin handed'
      PROVE  /\ row.sources \union row.recipes \subseteq {row.org}
             /\ row.snapshot # Nothing => row.by = row.org /\ row.org # Nothing
             /\ row.org # remote[m].org =>
                   ~ \E w \in Visits : visit[w].at \in Gathering /\ visit[w].remote = m
  <2>1. m \notin handed /\ remote[m].org \in {Nothing, o}
    BY <1>2, <1>5
  <2>2. CASE remote[m].org = o
    BY <1>3, <1>4, <2>1, <2>2, RemoteFacts
  <2>3. CASE remote[m].org = Nothing
    <3>1. remote[m].sources = {} /\ remote[m].recipes = {}
      BY <2>1, <2>3, RemoteFacts, TenancyAssumption DEF RemoteRow
    <3>2. remote[m].snapshot = Nothing
      BY <2>1, <2>3, RemoteFacts
    <3>3. \A w \in Visits : ~ (visit[w].at \in Gathering /\ visit[w].remote = m)
      BY <2>1, <2>3 DEF TenancyIInv, VisitOK, ManifestOK
    <3>. QED
      BY <1>4, <3>1, <3>2, <3>3
  <2>. QED
    BY <2>1, <2>2, <2>3
<1>6. UNCHANGED Names /\ handed' \in {handed, handed \union {m}}
  BY <1>2 DEF SetOrgRemote
<1>. QED
  BY <1>2, <1>4, <1>5, <1>6, RemoteChanges

LEMMA DeleteOrgRemoteStep ==
    ASSUME TenancyIInv, NEW v \in Visits, DeleteOrgRemote(v), Watch
    PROVE  TenancyIInv'
<1>1. PICK m \in Remotes :
        /\ visit' = [visit EXCEPT ![v] = Absent]
        /\ remote' = [remote EXCEPT ![m] = NoRemote]
        /\ handed' = IF \E w \in Visits : visit[w].at \in Gathering THEN handed \union {m} ELSE handed
        /\ UNCHANGED Names
  BY DEF DeleteOrgRemote, Comes
<1>2. /\ NoRemote \in RemoteRow /\ NoRemote.sources = {} /\ NoRemote.recipes = {}
      /\ NoRemote.snapshot = Nothing
  BY DEF NoRemote, RemoteRow
<1>3. handed' \in {handed, handed \union {m}}
      /\ (m \notin handed' => ~ \E w \in Visits : visit[w].at \in Gathering)
  BY <1>1
<1>. HIDE DEF NoRemote
<1>4. m \notin handed' =>
          /\ NoRemote.sources \union NoRemote.recipes \subseteq {NoRemote.org}
          /\ NoRemote.snapshot # Nothing => NoRemote.by = NoRemote.org /\ NoRemote.org # Nothing
          /\ NoRemote.org # remote[m].org =>
                ~ \E w \in Visits : visit[w].at \in Gathering /\ visit[w].remote = m
  BY <1>2, <1>3
<1>. QED
  BY <1>1, <1>2, <1>3, <1>4, RemoteChanges

(* What hangs on a remote is set by its owner, or cleared.                  *)
LEMMA RemoteEdited ==
    ASSUME TenancyIInv, UNCHANGED <<Names, handed>>, Watch, NEW v \in Visits,
           visit' = [visit EXCEPT ![v] = Absent],
           NEW m \in Remotes, NEW row \in RemoteRow, remote' = [remote EXCEPT ![m] = row],
           row.org = remote[m].org,
           row.sources \subseteq remote[m].sources \union {row.org},
           row.recipes \subseteq remote[m].recipes \union {row.org},
           \/ row.snapshot = Nothing
           \/ row.snapshot = remote[m].snapshot /\ row.by = remote[m].by
           \/ row.by = row.org /\ row.org # Nothing
    PROVE  TenancyIInv'
<1>1. m \notin handed' =>
          /\ row.sources \union row.recipes \subseteq {row.org}
          /\ row.snapshot # Nothing => row.by = row.org /\ row.org # Nothing
          /\ row.org # remote[m].org =>
                ~ \E w \in Visits : visit[w].at \in Gathering /\ visit[w].remote = m
  BY RemoteFacts
<1>2. UNCHANGED Names /\ handed' \in {handed, handed \union {m}}
  OBVIOUS
<1>. QED
  BY <1>1, <1>2, RemoteChanges

LEMMA RemoteSnapshotStep ==
    ASSUME TenancyIInv, NEW v \in Visits, RemoteSnapshot(v), Watch
    PROVE  TenancyIInv'
<1>1. CASE SetRemoteSnapshot(v)
  <2>1. PICK m \in Remotes :
          /\ remote[m].org # Nothing /\ visit[v].repo \in ListRepositories
          /\ remote' = [remote EXCEPT ![m].snapshot = visit[v].repo, ![m].by = remote[m].org]
    BY <1>1 DEF SetRemoteSnapshot
  <2>2. visit' = [visit EXCEPT ![v] = Absent] /\ UNCHANGED <<Names, handed>>
    BY <1>1 DEF SetRemoteSnapshot, Left
  <2>. DEFINE row == [remote[m] EXCEPT !.snapshot = visit[v].repo, !.by = remote[m].org]
  <2>3. /\ row \in RemoteRow /\ row.org = remote[m].org /\ row.by = remote[m].org
        /\ row.sources = remote[m].sources /\ row.recipes = remote[m].recipes
    BY <2>1, RemoteFacts DEF RemoteRow, ListRepositories
  <2>4. remote' = [remote EXCEPT ![m] = row]
    BY <2>1
  <2>. HIDE DEF row
  <2>. QED
    BY <2>1, <2>2, <2>3, <2>4, RemoteEdited
<1>2. CASE ClearRemoteSnapshot(v)
  <2>1. PICK m \in Remotes :
          /\ visit' = [visit EXCEPT ![v] = Absent] /\ UNCHANGED <<Names, handed>>
          /\ remote' = [remote EXCEPT ![m].snapshot = Nothing, ![m].by = Nothing]
    BY <1>2 DEF ClearRemoteSnapshot, Comes
  <2>. DEFINE row == [remote[m] EXCEPT !.snapshot = Nothing, !.by = Nothing]
  <2>2. /\ row \in RemoteRow /\ row.org = remote[m].org /\ row.snapshot = Nothing
        /\ row.sources = remote[m].sources /\ row.recipes = remote[m].recipes
    BY <2>1, RemoteFacts DEF RemoteRow
  <2>3. remote' = [remote EXCEPT ![m] = row]
    BY <2>1
  <2>. HIDE DEF row
  <2>. QED
    BY <2>1, <2>2, <2>3, RemoteEdited
<1>. QED
  BY <1>1, <1>2 DEF RemoteSnapshot

LEMMA RemoteSourceStep ==
    ASSUME TenancyIInv, NEW v \in Visits, RemoteSource(v), Watch
    PROVE  TenancyIInv'
<1>1. CASE SetRemoteSource(v)
  <2>1. PICK m \in Remotes :
          /\ remote[m].org # Nothing
          /\ visit' = [visit EXCEPT ![v] = Absent] /\ UNCHANGED <<Names, handed>>
          /\ remote' = [remote EXCEPT ![m].sources = @ \union {remote[m].org}]
    BY <1>1 DEF SetRemoteSource, Comes
  <2>. DEFINE row == [remote[m] EXCEPT !.sources = @ \union {remote[m].org}]
  <2>2. /\ row \in RemoteRow /\ row.org = remote[m].org /\ row.by = remote[m].by
        /\ row.snapshot = remote[m].snapshot /\ row.recipes = remote[m].recipes
        /\ row.sources = remote[m].sources \union {remote[m].org}
    BY <2>1, RemoteFacts DEF RemoteRow
  <2>3. remote' = [remote EXCEPT ![m] = row]
    BY <2>1
  <2>. HIDE DEF row
  <2>. QED
    BY <2>1, <2>2, <2>3, RemoteEdited
<1>2. CASE ClearRemoteSource(v)
  <2>1. PICK m \in Remotes : \E o \in remote[m].sources :
          /\ visit' = [visit EXCEPT ![v] = Absent] /\ UNCHANGED <<Names, handed>>
          /\ remote' = [remote EXCEPT ![m].sources = @ \ {o}]
    BY <1>2 DEF ClearRemoteSource, Comes
  <2>2. PICK o \in remote[m].sources :
          /\ visit' = [visit EXCEPT ![v] = Absent] /\ UNCHANGED <<Names, handed>>
          /\ remote' = [remote EXCEPT ![m].sources = @ \ {o}]
    BY <2>1
  <2>. DEFINE row == [remote[m] EXCEPT !.sources = @ \ {o}]
  <2>3. /\ row \in RemoteRow /\ row.org = remote[m].org /\ row.by = remote[m].by
        /\ row.snapshot = remote[m].snapshot /\ row.recipes = remote[m].recipes
        /\ row.sources = remote[m].sources \ {o}
    BY <2>2, RemoteFacts DEF RemoteRow
  <2>4. remote' = [remote EXCEPT ![m] = row]
    BY <2>2
  <2>. HIDE DEF row
  <2>. QED
    BY <2>2, <2>3, <2>4, RemoteEdited
<1>. QED
  BY <1>1, <1>2 DEF RemoteSource

LEMMA RemoteRecipeStep ==
    ASSUME TenancyIInv, NEW v \in Visits, RemoteRecipe(v), Watch
    PROVE  TenancyIInv'
<1>1. CASE SetRemoteRecipe(v)
  <2>1. PICK m \in Remotes :
          /\ remote[m].org # Nothing
          /\ visit' = [visit EXCEPT ![v] = Absent] /\ UNCHANGED <<Names, handed>>
          /\ remote' = [remote EXCEPT ![m].recipes = @ \union {remote[m].org}]
    BY <1>1 DEF SetRemoteRecipe, Comes
  <2>. DEFINE row == [remote[m] EXCEPT !.recipes = @ \union {remote[m].org}]
  <2>2. /\ row \in RemoteRow /\ row.org = remote[m].org /\ row.by = remote[m].by
        /\ row.snapshot = remote[m].snapshot /\ row.sources = remote[m].sources
        /\ row.recipes = remote[m].recipes \union {remote[m].org}
    BY <2>1, RemoteFacts DEF RemoteRow
  <2>3. remote' = [remote EXCEPT ![m] = row]
    BY <2>1
  <2>. HIDE DEF row
  <2>. QED
    BY <2>1, <2>2, <2>3, RemoteEdited
<1>2. CASE ClearRemoteRecipe(v)
  <2>1. PICK m \in Remotes : \E o \in remote[m].recipes :
          /\ visit' = [visit EXCEPT ![v] = Absent] /\ UNCHANGED <<Names, handed>>
          /\ remote' = [remote EXCEPT ![m].recipes = @ \ {o}]
    BY <1>2 DEF ClearRemoteRecipe, Comes
  <2>2. PICK o \in remote[m].recipes :
          /\ visit' = [visit EXCEPT ![v] = Absent] /\ UNCHANGED <<Names, handed>>
          /\ remote' = [remote EXCEPT ![m].recipes = @ \ {o}]
    BY <2>1
  <2>. DEFINE row == [remote[m] EXCEPT !.recipes = @ \ {o}]
  <2>3. /\ row \in RemoteRow /\ row.org = remote[m].org /\ row.by = remote[m].by
        /\ row.snapshot = remote[m].snapshot /\ row.sources = remote[m].sources
        /\ row.recipes = remote[m].recipes \ {o}
    BY <2>2, RemoteFacts DEF RemoteRow
  <2>4. remote' = [remote EXCEPT ![m] = row]
    BY <2>2
  <2>. HIDE DEF row
  <2>. QED
    BY <2>2, <2>3, <2>4, RemoteEdited
<1>. QED
  BY <1>1, <1>2 DEF RemoteRecipe

LEMMA ManifestStep ==
    ASSUME TenancyIInv, NEW v \in Visits, GetManifest(v) \/ ManifestParts(v) \/ SendManifest(v), Watch
    PROVE  TenancyIInv'
<1>1. UNCHANGED <<Names, Wires>> /\ remote' = remote /\ handed' = handed
  BY DEF GetManifest, ManifestParts, Part, SendManifest, Wires
<1>2. CASE GetManifest(v)
  <2>1. PICK m \in Remotes, o \in ListOrganizations :
          /\ remote[m].org = o
          /\ visit' = [visit EXCEPT ![v] = [at |-> "parts", org |-> o, remote |-> m, got |-> {}]]
    BY <1>2 DEF GetManifest, Comes, OrgForRemote
  <2>2. o # Nothing
    BY TenancyAssumption DEF ListOrganizations
  <2>3. visit'[v] = [at |-> "parts", org |-> o, remote |-> m, got |-> {}] => VisitOK(v)'
    BY <1>1, <2>1, <2>2 DEF VisitOK, CallerOK, PathOK, ManifestOK, Gathering, Stages
  <2>. QED
    BY <1>1, <2>1, <2>3, QuietMove
<1>3. CASE ManifestParts(v)
  <2>1. PICK m, o, got, next, found :
          /\ m = visit[v].remote /\ o = visit[v].org /\ got = visit[v].got
          /\ next \in {"sources", "recipes", "manifest"} /\ Part(v, next, found)
          /\ found \in {SnapshotForRemote(m), SourcesForRemote(m), RecipesForRemote(m)}
    BY <1>3 DEF ManifestParts
  <2>2. visit[v].at \in Gathering /\ ManifestOK(v)
    BY <1>3 DEF TenancyIInv, VisitOK, ManifestParts, Gathering
  <2>3. /\ visit[v] = [at |-> visit[v].at, org |-> o, remote |-> m, got |-> got]
        /\ m \in Remotes /\ o # Nothing /\ (m \in handed \/ (remote[m].org = o /\ got \subseteq {o}))
    BY <2>1, <2>2 DEF ManifestOK
  <2>4. m \in handed \/ got \union found \subseteq {o}
    BY <2>1, <2>3, RemoteFacts DEF SnapshotForRemote, SourcesForRemote, RecipesForRemote
  <2>. DEFINE all == got \union found
              k == [at |-> next, org |-> o, remote |-> m, got |-> all]
  <2>6. visit' = [visit EXCEPT ![v] = k] /\ visit'[v] = k
    BY <2>1 DEF Part, Onward, TenancyIInv
  <2>7. VisitOK(v)'
    <3>1. /\ visit'[v] = [at |-> next, org |-> o, remote |-> m, got |-> all]
          /\ visit'[v].got = all /\ visit'[v].org = o /\ visit'[v].remote = m /\ visit'[v].at = next
      BY <2>6
    <3>2. m \in handed \/ all \subseteq {o}
      BY <2>4
    <3>. HIDE DEF all, k
    <3>3. ManifestOK(v)'
      BY <1>1, <2>1, <2>3, <3>1, <3>2 DEF ManifestOK, Gathering
    <3>. QED
      BY <2>1, <3>1, <3>3 DEF VisitOK, CallerOK, PathOK, Stages
  <2>. HIDE DEF k
  <2>. QED
    BY <1>1, <2>6, <2>7, QuietMove
<1>4. CASE SendManifest(v)
  BY <1>1, <1>4, QuietGoes DEF SendManifest
<1>. QED
  BY <1>2, <1>3, <1>4

LEMMA TenancyNextIInv == TenancyIInv /\ [TenancyNext]_tenancy => TenancyIInv'
<1>. SUFFICES ASSUME TenancyIInv, [TenancyNext]_tenancy PROVE TenancyIInv'
  OBVIOUS
<1>1. CASE UNCHANGED tenancy
  <2>1. UNCHANGED <<Names, Wires>> /\ UNCHANGED <<visit, seen, history, held, Retaken, org, remote, handed>>
    BY <1>1 DEF tenancy, Names, Marks, Retaken, Wires
  <2>2. NamesOK' /\ RemotesOK'
    BY <2>1, NamesStay, WiresStay DEF TenancyIInv
  <2>3. ASSUME NEW v \in Visits PROVE VisitOK(v)'
    BY <2>1 DEF TenancyIInv, VisitOK, CallerOK, PathOK, ManifestOK, Retired
  <2>. QED
    BY <2>1, <2>2, <2>3 DEF TenancyIInv
<1>2. ASSUME NEW v \in Visits, Watch,
             Naming(v) \/ ResolveRepoCanonical(v) \/ ByHost(v) \/ Respond(v) \/ Manifesting(v)
      PROVE  TenancyIInv'
  <2>1. CASE OrgCreate(v)
    BY <1>2, <2>1, CreateOrgCheckStep, CreateOrgStep DEF OrgCreate
  <2>2. CASE RepoCreate(v)
    BY <1>2, <2>2, CreateRepoCheckStep, CreateRepoStep DEF RepoCreate
  <2>3. CASE RenameOrgAction(v)
    BY <1>2, <2>3, LookupOrgStep, RenameOrgReadStep, RenameOrgCheckStep, RenameOrgStep DEF RenameOrgAction
  <2>4. CASE Lookup(v)
    BY <1>2, <2>4, LookupStep
  <2>5. CASE RenameRepoAction(v)
    BY <1>2, <2>5, RenameRepoReadStep, RenameRepoCheckStep, RenameRepoStep DEF RenameRepoAction
  <2>6. CASE DeleteRepoAction(v)
    BY <1>2, <2>6, DeleteRepoCheckStep, DeleteRepoStep DEF DeleteRepoAction
  <2>7. CASE SetCustomDomain(v)
    BY <1>2, <2>7, SetCustomDomainStep
  <2>8. CASE ResolveRepoCanonical(v)
    BY <1>2, <2>8, ResolveOrgStep, ResolveOrgByHistoryStep, ResolveLiveRepoStep,
       ResolveRepoByHistoryStep DEF ResolveRepoCanonical
  <2>9. CASE ByHost(v)
    <3>1. PICK h \in Hosts : visit' = [visit EXCEPT ![v] = [at |-> "hosted", found |-> RepoByCustomDomain(h)]]
      BY <2>9 DEF ByHost, Comes
    <3>2. visit'[v] = [at |-> "hosted", found |-> RepoByCustomDomain(h)] => VisitOK(v)'
      BY DEF VisitOK, CallerOK, PathOK, ManifestOK, Gathering, Stages
    <3>. QED
      BY <1>2, <2>9, <3>1, <3>2, QuietMove DEF ByHost
  <2>10. CASE Respond(v)
    BY <1>2, <2>10, QuietGoes DEF Respond
  <2>11. CASE Manifesting(v)
    BY <1>2, <2>11, SetOrgRemoteStep, DeleteOrgRemoteStep, RemoteSnapshotStep, RemoteSourceStep,
       RemoteRecipeStep, ManifestStep DEF Manifesting
  <2>. QED
    BY <1>2, <2>1, <2>2, <2>3, <2>4, <2>5, <2>6, <2>7, <2>8, <2>9, <2>10, <2>11 DEF Naming
<1>. QED
  BY <1>1, <1>2 DEF TenancyNext

LEMMA TenancyInvariant == TenancySpec => []TenancyIInv
BY TenancyInitIInv, TenancyNextIInv, PTL DEF TenancySpec

(* After any renames, deletions and creations, interleaved at will, a name  *)
(* leads to what it led to first or to nothing (rename_org, rename_repo,    *)
(* delete_repo, slug_history), but for the names in Retaken: those that     *)
(* were retired under somebody about to take them, or in an organisation    *)
(* the check of them had not found (raced), and those with space around     *)
(* them that a form took, having asked about them without (spaced).         *)
THEOREM NamesLeadHome == TenancySpec => []OldNamesFollow
<1>1. TenancyIInv => OldNamesFollow
  BY NamesFollow DEF TenancyIInv
<1>. QED
  BY <1>1, TenancyInvariant, PTL

(* A path looked up in four queries gets an answer that was right while it  *)
(* was looked up, and a manifest is its owner's (resolve_repo_canonical,    *)
(* get_manifest).                                                           *)
THEOREM AnswersRight == TenancySpec => []AnswersAreRight
<1>1. TenancyIInv => AnswersAreRight
  <2>1. TenancyIInv => AnswerWasRight
    BY DEF TenancyIInv, VisitOK, PathOK, AnswerWasRight
  <2>2. TenancyIInv => ManifestIsOwn
    BY DEF TenancyIInv, VisitOK, ManifestOK, ManifestIsOwn
  <2>. QED
    BY <2>1, <2>2 DEF AnswersAreRight
<1>. QED
  BY <1>1, TenancyInvariant, PTL

-----------------------------------------------------------------------------
(* Types, and what the unique indexes and foreign keys promise.  Nobody     *)
(* asks an index before writing: each write below is refused by it instead. *)
OneOrg  == \A p, q \in Orgs : org[p] = org[q] /\ org[p] # Nothing => p = q
OneRepo == \A q, r \in ListRepositories :
              repo[q].org = repo[r].org /\ repo[q].slug = repo[r].slug => q = r
OneHost == \A q, r \in ListRepositories :
              repo[q].host = repo[r].host /\ repo[q].host # Nothing => q = r
OneRetirement == \A h, k \in history : h.scope = k.scope /\ h.slug = k.slug => h = k
SnapshotThere == \A m \in Remotes : remote[m].snapshot # Nothing => repo[remote[m].snapshot] # NoRepo

IndexOK == OneOrg /\ OneRepo /\ OneHost /\ OneRetirement /\ SnapshotThere

LEMMA IndexInit == TenancyInit => IndexOK
<1>. SUFFICES ASSUME TenancyInit PROVE IndexOK
  OBVIOUS
<1>1. OneOrg
  BY DEF TenancyInit, OneOrg
<1>2. \E r \in Repos : \A x \in Repos : repo[x] # NoRepo => x = r
  BY DEF TenancyInit
<1>3. OneRepo /\ OneHost
  BY <1>2 DEF ListRepositories, OneRepo, OneHost
<1>4. \A h, k \in history : h = k
  BY DEF TenancyInit
<1>5. \A m \in Remotes : remote[m].snapshot = Nothing
  <2>1. PICK o \in Orgs : remote \in [Remotes -> {NoRemote, [NoRemote EXCEPT !.org = o, !.sources = {o}]}]
    BY DEF TenancyInit
  <2>2. [NoRemote EXCEPT !.org = o, !.sources = {o}].snapshot = Nothing /\ NoRemote.snapshot = Nothing
    BY DEF NoRemote
  <2>. QED
    BY <2>1, <2>2
<1>. QED
  BY <1>1, <1>3, <1>4, <1>5 DEF IndexOK, OneRetirement, SnapshotThere

LEMMA OrgIndexed ==
    ASSUME NamesOK, OneOrg, NEW o \in Orgs, NEW s \in Slugs, OrgIdBySlug(s) = {},
           org' = [org EXCEPT ![o] = s]
    PROVE  OneOrg'
<1>1. \A p \in Orgs : org[p] # s
  BY TenancyAssumption DEF OrgIdBySlug
<1>. QED
  BY <1>1 DEF NamesOK, NameRows, OneOrg

LEMMA RepoIndexed ==
    ASSUME NamesOK, OneRepo, OneHost, NEW r \in Repos, NEW row \in RepoRow,
           repo' = [repo EXCEPT ![r] = row],
           \A q \in Repos \ {r} : repo[q] # NoRepo => ~ (repo[q].org = row.org /\ repo[q].slug = row.slug),
           \/ row.host = Nothing
           \/ \A q \in Repos \ {r} : repo[q] # NoRepo => repo[q].host # row.host
    PROVE  /\ OneRepo' /\ OneHost'
           /\ \A q \in Repos : repo[q] # NoRepo => repo'[q] # NoRepo
<1>1. row # NoRepo
  BY TenancyAssumption DEF RepoRow, NoRepo
<1>2. repo'[r] = row /\ \A q \in Repos \ {r} : repo'[q] = repo[q]
  BY DEF NamesOK, NameRows
<1>. QED
  BY <1>1, <1>2 DEF ListRepositories, OneRepo, OneHost

LEMMA HistoryIndexed ==
    ASSUME OneRetirement, NEW h, ~ Retired(h.scope, h.slug), history' = history \union {h}
    PROVE  OneRetirement'
BY DEF OneRetirement, Retired

LEMMA RemoteIndexed ==
    ASSUME RemotesOK, SnapshotThere, UNCHANGED repo, NEW m \in Remotes, NEW row,
           remote' = [remote EXCEPT ![m] = row],
           row.snapshot # Nothing => row.snapshot = remote[m].snapshot \/ repo[row.snapshot] # NoRepo
    PROVE  SnapshotThere'
<1>1. remote'[m] = row /\ \A x \in Remotes \ {m} : remote'[x] = remote[x]
  BY DEF RemotesOK
<1>2. ASSUME NEW x \in Remotes, remote'[x].snapshot # Nothing PROVE repo[remote'[x].snapshot] # NoRepo
  BY <1>1, <1>2 DEF SnapshotThere
<1>. QED
  BY <1>2 DEF SnapshotThere

LEMMA NamingIndexed ==
    ASSUME TenancyIInv, IndexOK, NEW v \in Visits,
           CreateOrg(v) \/ CreateRepo(v) \/ RenameOrg(v)
    PROVE  IndexOK'
<1>. USE DEF TenancyIInv, IndexOK, NamesOK
<1>0. CallerOK(v)
  BY DEF VisitOK
<1>1. CASE CreateOrg(v)
  <2>1. UNCHANGED <<repo, history, remote>>
    BY <1>1 DEF CreateOrg, Wires
  <2>2. OneRepo' /\ OneHost' /\ OneRetirement' /\ SnapshotThere'
    BY <2>1 DEF ListRepositories, OneRepo, OneHost, OneRetirement, SnapshotThere
  <2>3. CASE org' = org
    BY <2>2, <2>3 DEF OneOrg
  <2>4. CASE org' # org
    <3>1. /\ visit[v].slug \in Slugs /\ OrgIdBySlug(visit[v].slug) = {}
          /\ \E o \in Orgs : org' = [org EXCEPT ![o] = visit[v].slug]
      BY <1>0, <1>1, <2>4 DEF CreateOrg, CallerOK
    <3>. QED
      BY <2>2, <3>1, OrgIndexed
  <2>. QED
    BY <2>3, <2>4
<1>2. CASE CreateRepo(v)
  <2>1. UNCHANGED <<org, history, remote>>
    BY <1>2 DEF CreateRepo, Wires
  <2>2. OneOrg' /\ OneRetirement'
    BY <2>1 DEF OneOrg, OneRetirement
  <2>3. CASE repo' = repo
    BY <2>1, <2>2, <2>3 DEF ListRepositories, OneRepo, OneHost, SnapshotThere
  <2>4. CASE repo' # repo
    <3>. DEFINE t == visit[v].slug
    <3>1. PICK o \in OrgIdBySlug(visit[v].org), r \in Repos \ ListRepositories :
             /\ ResolveRepo(visit[v].org, t) = {}
             /\ repo' = [repo EXCEPT ![r] = [org |-> o, slug |-> t, host |-> Nothing]]
      BY <1>2, <2>4 DEF CreateRepo
    <3>. DEFINE row == [org |-> o, slug |-> t, host |-> Nothing]
    <3>2. o \in Orgs /\ t \in Slugs
      BY <1>0, <1>2 DEF CreateRepo, CallerOK, OrgIdBySlug
    <3>3. row \in RepoRow /\ row.org = o /\ row.slug = t /\ row.host = Nothing
      BY <3>2 DEF RepoRow
    <3>4. LiveRepo(o, t) = {}
      BY <3>1 DEF ResolveRepo
    <3>5. \A q \in Repos \ {r} : repo[q] # NoRepo => ~ (repo[q].org = row.org /\ repo[q].slug = row.slug)
      BY <3>3, <3>4 DEF LiveRepo, ReposForOrg, ListRepositories
    <3>6. r \in Repos /\ repo' = [repo EXCEPT ![r] = row]
      BY <3>1
    <3>. HIDE DEF row, t
    <3>7. OneRepo' /\ OneHost' /\ \A q \in Repos : repo[q] # NoRepo => repo'[q] # NoRepo
      BY <3>3, <3>5, <3>6, RepoIndexed
    <3>8. SnapshotThere'
      BY <2>1, <3>7 DEF SnapshotThere, RemotesOK, RemoteRow
    <3>. QED
      BY <2>2, <3>7, <3>8
  <2>. QED
    BY <2>3, <2>4
<1>3. CASE RenameOrg(v)
  <2>1. UNCHANGED <<repo, remote>>
    BY <1>3 DEF RenameOrg, Wires, Names
  <2>2. OneRepo' /\ OneHost' /\ SnapshotThere'
    BY <2>1 DEF ListRepositories, OneRepo, OneHost, SnapshotThere
  <2>3. CASE UNCHANGED <<org, history>>
    BY <2>2, <2>3 DEF OneOrg, OneRetirement
  <2>4. CASE ~ UNCHANGED <<org, history>>
    <3>. DEFINE w == visit[v]
    <3>1. /\ ~ Retired(Nothing, w.old) /\ OrgIdBySlug(w.slug) = {}
          /\ history' = history \union {OrgName(w.org, w.old)}
          /\ org' = [org EXCEPT ![w.org] = w.slug]
      BY <1>3, <2>4 DEF RenameOrg, Names, OrgName
    <3>2. w.org \in Orgs /\ w.slug \in Slugs
      BY <1>0, <1>3 DEF RenameOrg, CallerOK
    <3>3. OneOrg'
      BY <3>1, <3>2, OrgIndexed
    <3>4. OrgName(w.org, w.old).scope = Nothing /\ OrgName(w.org, w.old).slug = w.old
      BY DEF OrgName
    <3>5. OneRetirement'
      BY <3>1, <3>4, HistoryIndexed
    <3>. QED
      BY <2>2, <3>3, <3>5
  <2>. QED
    BY <2>3, <2>4
<1>. QED
  BY <1>1, <1>2, <1>3

LEMMA RepoStepIndexed ==
    ASSUME TenancyIInv, IndexOK, NEW v \in Visits,
           RenameRepo(v) \/ DeleteRepo(v) \/ SetCustomDomain(v)
    PROVE  IndexOK'
<1>. USE DEF TenancyIInv, IndexOK, NamesOK
<1>0. CallerOK(v)
  BY DEF VisitOK
<1>1. CASE RenameRepo(v)
  <2>1. CASE UNCHANGED <<org, repo, history, remote>>
    BY <2>1 DEF OneOrg, ListRepositories, OneRepo, OneHost, OneRetirement, SnapshotThere
  <2>2. CASE ~ UNCHANGED <<org, repo, history, remote>>
    <3>. DEFINE w == visit[v]
                o == w.org
                r == w.repo
                old == w.old
                t == w.slug
    <3>1. o \in Orgs /\ r \in Repos /\ t \in Slugs /\ RepoName(o, old, r) \in held
      BY <1>0, <1>1 DEF RenameRepo, CallerOK
    <3>2. ~ Retired(o, old) /\ LiveRepo(o, t) = {}
      BY <1>1, <2>2 DEF RenameRepo, Names, Wires
    <3>3. r \in ListRepositories /\ repo[r] \in RepoRow /\ repo[r].org = o /\ repo[r].slug = old
      BY <3>1, <3>2, NamedRow
    <3>4. /\ history' = history \union {RepoName(o, old, r)}
          /\ repo' = [repo EXCEPT ![r].slug = t] /\ UNCHANGED <<org, remote>>
      BY <1>1, <3>2, <3>3 DEF RenameRepo, RepoName, Wires
    <3>. DEFINE row == [repo[r] EXCEPT !.slug = t]
    <3>5. row \in RepoRow /\ row.org = o /\ row.slug = t /\ row.host = repo[r].host
      BY <3>1, <3>3 DEF RepoRow
    <3>6. repo' = [repo EXCEPT ![r] = row]
      BY <3>4
    <3>7. \A q \in Repos : repo[q] # NoRepo => ~ (repo[q].org = o /\ repo[q].slug = t)
      BY <3>2 DEF LiveRepo, ReposForOrg, ListRepositories
    <3>8. RepoName(o, old, r).scope = o /\ RepoName(o, old, r).slug = old
      BY DEF RepoName
    <3>. HIDE DEF w, o, r, t, old, row
    <3>9. \/ row.host = Nothing
          \/ \A q \in Repos \ {r} : repo[q] # NoRepo => repo[q].host # row.host
      BY <3>1, <3>3, <3>5 DEF OneHost, ListRepositories
    <3>10. OneRepo' /\ OneHost' /\ \A q \in Repos : repo[q] # NoRepo => repo'[q] # NoRepo
      BY <3>1, <3>5, <3>6, <3>7, <3>9, RepoIndexed
    <3>11. SnapshotThere' /\ OneOrg'
      BY <3>4, <3>10 DEF SnapshotThere, OneOrg, RemotesOK, RemoteRow
    <3>12. OneRetirement'
      BY <3>2, <3>4, <3>8, HistoryIndexed
    <3>. QED
      BY <3>10, <3>11, <3>12
  <2>. QED
    BY <2>1, <2>2
<1>2. CASE DeleteRepo(v)
  <2>1. CASE UNCHANGED <<repo, history, remote>>
    BY <1>2, <2>1 DEF DeleteRepo, OneOrg, ListRepositories, OneRepo, OneHost, OneRetirement, SnapshotThere
  <2>2. CASE ~ UNCHANGED <<repo, history, remote>>
    <3>. DEFINE w == visit[v]
    <3>1. /\ ~ Retired(w.org, w.old)
          /\ history' = history \union {RepoName(w.org, w.old, w.repo)}
          /\ repo' = [repo EXCEPT ![w.repo] = NoRepo]
          /\ remote' = [m \in Remotes |-> IF remote[m].snapshot = w.repo
                                          THEN [remote[m] EXCEPT !.snapshot = Nothing]
                                          ELSE remote[m]]
          /\ org' = org
      BY <1>2, <2>2 DEF DeleteRepo, RepoName
    <3>2. w.repo \in Repos
      BY <1>0, <1>2 DEF DeleteRepo, CallerOK
    <3>3. RepoName(w.org, w.old, w.repo).scope = w.org /\ RepoName(w.org, w.old, w.repo).slug = w.old
      BY DEF RepoName
    <3>. HIDE DEF w
    <3>4. OneRetirement'
      BY <3>1, <3>3, HistoryIndexed
    <3>5. repo'[w.repo] = NoRepo /\ \A q \in Repos \ {w.repo} : repo'[q] = repo[q]
      BY <3>1, <3>2 DEF NameRows
    <3>6. OneRepo' /\ OneHost' /\ OneOrg'
      BY <3>1, <3>5 DEF ListRepositories, OneRepo, OneHost, OneOrg
    <3>7. ASSUME NEW m \in Remotes, remote'[m].snapshot # Nothing PROVE repo'[remote'[m].snapshot] # NoRepo
      <4>1. remote[m] \in RemoteRow
        BY DEF RemotesOK
      <4>2. remote[m].snapshot # w.repo /\ remote'[m] = remote[m]
        BY <3>1, <3>7, <4>1 DEF RemoteRow
      <4>3. remote[m].snapshot \in Repos
        BY <3>7, <4>1, <4>2 DEF RemoteRow
      <4>. QED
        BY <3>5, <3>7, <4>2, <4>3 DEF SnapshotThere
    <3>. QED
      BY <3>4, <3>6, <3>7 DEF SnapshotThere
  <2>. QED
    BY <2>1, <2>2
<1>3. CASE SetCustomDomain(v)
  <2>1. UNCHANGED <<org, history, remote>>
    BY <1>3 DEF SetCustomDomain, Wires
  <2>2. OneOrg' /\ OneRetirement'
    BY <2>1 DEF OneOrg, OneRetirement
  <2>3. CASE repo' = repo
    BY <2>1, <2>2, <2>3 DEF ListRepositories, OneRepo, OneHost, SnapshotThere
  <2>4. CASE repo' # repo
    <3>. DEFINE r == visit[v].repo
    <3>1. PICK h \in Hosts \union {Nothing} :
            /\ r \in ListRepositories /\ ~ (h # Nothing /\ RepoByCustomDomain(h) \ {r} # {})
            /\ repo' = [repo EXCEPT ![r].host = h]
      BY <1>3, <2>4 DEF SetCustomDomain
    <3>. DEFINE row == [repo[r] EXCEPT !.host = h]
    <3>2. r \in Repos /\ repo[r] # NoRepo /\ repo[r] \in RepoRow
      BY <3>1 DEF ListRepositories, NameRows
    <3>3. row \in RepoRow /\ row.org = repo[r].org /\ row.slug = repo[r].slug /\ row.host = h
      BY <3>1, <3>2 DEF RepoRow
    <3>4. repo' = [repo EXCEPT ![r] = row]
      BY <3>1
    <3>5. h = Nothing \/ \A q \in Repos \ {r} : repo[q] # NoRepo => repo[q].host # h
      BY <3>1 DEF RepoByCustomDomain, ListRepositories
    <3>. HIDE DEF r, row
    <3>6. \A q \in Repos \ {r} : repo[q] # NoRepo => ~ (repo[q].org = row.org /\ repo[q].slug = row.slug)
      BY <3>1, <3>2, <3>3 DEF OneRepo, ListRepositories
    <3>7. OneRepo' /\ OneHost' /\ \A q \in Repos : repo[q] # NoRepo => repo'[q] # NoRepo
      BY <3>2, <3>3, <3>4, <3>5, <3>6, RepoIndexed
    <3>8. SnapshotThere'
      BY <2>1, <3>7 DEF SnapshotThere, RemotesOK, RemoteRow
    <3>. QED
      BY <2>2, <3>7, <3>8
  <2>. QED
    BY <2>3, <2>4
<1>. QED
  BY <1>1, <1>2, <1>3

LEMMA WiringIndexed ==
    ASSUME TenancyIInv, IndexOK, NEW v \in Visits,
           \/ SetOrgRemote(v) \/ DeleteOrgRemote(v)
           \/ RemoteSnapshot(v) \/ RemoteSource(v) \/ RemoteRecipe(v)
    PROVE  IndexOK'
<1>. USE DEF TenancyIInv, IndexOK
<1>1. UNCHANGED <<org, repo, history>>
  BY DEF SetOrgRemote, DeleteOrgRemote, RemoteSnapshot, SetRemoteSnapshot, ClearRemoteSnapshot,
     RemoteSource, SetRemoteSource, ClearRemoteSource, RemoteRecipe, SetRemoteRecipe, ClearRemoteRecipe, Names
<1>2. \E m \in Remotes : \E row :
         /\ remote' = [remote EXCEPT ![m] = row]
         /\ row.snapshot # Nothing => row.snapshot = remote[m].snapshot \/ repo[row.snapshot] # NoRepo
  <2>0. \A m \in Remotes : remote[m] \in RemoteRow
    BY DEF RemotesOK
  <2>1. CASE SetOrgRemote(v)
    <3>1. PICK m \in Remotes, o \in Orgs : remote' = [remote EXCEPT ![m].org = o]
      BY <2>1 DEF SetOrgRemote, OrgIdBySlug
    <3>. DEFINE row == [remote[m] EXCEPT !.org = o]
    <3>2. row.snapshot = remote[m].snapshot /\ remote' = [remote EXCEPT ![m] = row]
      BY <2>0, <3>1 DEF RemoteRow
    <3>. HIDE DEF row
    <3>. QED
      BY <3>2
  <2>2. CASE DeleteOrgRemote(v)
    <3>1. PICK m \in Remotes : remote' = [remote EXCEPT ![m] = NoRemote]
      BY <2>2 DEF DeleteOrgRemote
    <3>2. NoRemote.snapshot = Nothing
      BY DEF NoRemote
    <3>. QED
      BY <3>1, <3>2
  <2>3. CASE SetRemoteSnapshot(v)
    <3>1. PICK m \in Remotes : remote' = [remote EXCEPT ![m].snapshot = visit[v].repo, ![m].by = remote[m].org]
      BY <2>3 DEF SetRemoteSnapshot
    <3>. DEFINE row == [remote[m] EXCEPT !.snapshot = visit[v].repo, !.by = remote[m].org]
    <3>2. row.snapshot = visit[v].repo /\ remote' = [remote EXCEPT ![m] = row]
      BY <2>0, <3>1 DEF RemoteRow
    <3>3. repo[visit[v].repo] # NoRepo
      BY <2>3 DEF SetRemoteSnapshot, ListRepositories
    <3>. HIDE DEF row
    <3>. QED
      BY <3>2, <3>3
  <2>4. CASE ClearRemoteSnapshot(v)
    <3>1. PICK m \in Remotes : remote' = [remote EXCEPT ![m].snapshot = Nothing, ![m].by = Nothing]
      BY <2>4 DEF ClearRemoteSnapshot
    <3>. DEFINE row == [remote[m] EXCEPT !.snapshot = Nothing, !.by = Nothing]
    <3>2. row.snapshot = Nothing /\ remote' = [remote EXCEPT ![m] = row]
      BY <2>0, <3>1 DEF RemoteRow
    <3>. HIDE DEF row
    <3>. QED
      BY <3>2
  <2>5. CASE RemoteSource(v)
    <3>1. PICK m \in Remotes : \E sources : remote' = [remote EXCEPT ![m].sources = sources]
      BY <2>5 DEF RemoteSource, SetRemoteSource, ClearRemoteSource
    <3>2. PICK sources : remote' = [remote EXCEPT ![m].sources = sources]
      BY <3>1
    <3>. DEFINE row == [remote[m] EXCEPT !.sources = sources]
    <3>3. row.snapshot = remote[m].snapshot /\ remote' = [remote EXCEPT ![m] = row]
      BY <2>0, <3>2 DEF RemoteRow
    <3>. HIDE DEF row
    <3>. QED
      BY <3>3
  <2>6. CASE RemoteRecipe(v)
    <3>1. PICK m \in Remotes : \E recipes : remote' = [remote EXCEPT ![m].recipes = recipes]
      BY <2>6 DEF RemoteRecipe, SetRemoteRecipe, ClearRemoteRecipe
    <3>2. PICK recipes : remote' = [remote EXCEPT ![m].recipes = recipes]
      BY <3>1
    <3>. DEFINE row == [remote[m] EXCEPT !.recipes = recipes]
    <3>3. row.snapshot = remote[m].snapshot /\ remote' = [remote EXCEPT ![m] = row]
      BY <2>0, <3>2 DEF RemoteRow
    <3>. HIDE DEF row
    <3>. QED
      BY <3>3
  <2>. QED
    BY <2>1, <2>2, <2>3, <2>4, <2>5, <2>6 DEF RemoteSnapshot
<1>3. SnapshotThere'
  BY <1>1, <1>2, RemoteIndexed
<1>. QED
  BY <1>1, <1>3 DEF OneOrg, ListRepositories, OneRepo, OneHost, OneRetirement

LEMMA NextIndexOK == TenancyIInv /\ IndexOK /\ [TenancyNext]_tenancy => IndexOK'
<1>. SUFFICES ASSUME TenancyIInv, IndexOK, [TenancyNext]_tenancy PROVE IndexOK'
  OBVIOUS
<1>1. ASSUME UNCHANGED <<Names, Wires>> PROVE IndexOK'
  BY <1>1 DEF Names, Wires, IndexOK, OneOrg, ListRepositories, OneRepo, OneHost, OneRetirement, SnapshotThere
<1>2. CASE UNCHANGED tenancy
  BY <1>1, <1>2 DEF tenancy, Names, Marks, Wires
<1>3. ASSUME NEW v \in Visits,
             Naming(v) \/ ResolveRepoCanonical(v) \/ ByHost(v) \/ Respond(v) \/ Manifesting(v)
      PROVE  IndexOK'
  <2>1. CASE CreateOrgCheck(v) \/ OrgCreateCheck(v) \/ CreateRepoCheck(v) \/ RepoCreateCheck(v)
    BY <1>1, <2>1 DEF CreateOrgCheck, OrgCreateCheck, CreateRepoCheck, RepoCreateCheck, Names, Marks
  <2>4. CASE LookupOrg(v) \/ RenameOrgRead(v) \/ RenameOrgCheck(v) \/ Lookup(v)
             \/ RenameRepoRead(v) \/ RenameRepoCheck(v) \/ DeleteRepoCheck(v)
    BY <1>1, <2>4 DEF LookupOrg, RenameOrgRead, RenameOrgCheck, Lookup, RenameRepoRead,
       RenameRepoCheck, DeleteRepoCheck, Names, Marks
  <2>2. CASE ResolveRepoCanonical(v) \/ ByHost(v) \/ Respond(v)
    BY <1>1, <2>2 DEF ResolveRepoCanonical, ResolveOrg, ResolveOrgByHistory, ResolveLiveRepo,
       ResolveRepoByHistory, ByHost, Respond, Names, Marks
  <2>3. CASE GetManifest(v) \/ ManifestParts(v) \/ SendManifest(v)
    BY <1>1, <2>3 DEF GetManifest, ManifestParts, Part, SendManifest, Names, Marks
  <2>. QED
    BY <1>3, <2>1, <2>2, <2>3, <2>4, NamingIndexed, RepoStepIndexed, WiringIndexed
       DEF Naming, OrgCreate, RepoCreate, RenameOrgAction, RenameRepoAction, DeleteRepoAction, Manifesting
<1>. QED
  BY <1>2, <1>3 DEF TenancyNext

LEMMA AtMostOne ==
    ASSUME NEW S, \A x, y \in S : x = y
    PROVE  Cardinality(S) =< 1
<1>1. CASE S = {}
  BY <1>1, FS_EmptySet
<1>2. CASE S # {}
  <2>1. PICK x \in S : S = {x}
    BY <1>2
  <2>. QED
    BY <2>1, FS_Singleton
<1>. QED
  BY <1>1, <1>2

(* A slug, a path and a host are one organisation's or repository's, a name *)
(* is history once, and a manifest's snapshot is a repository that exists:  *)
(* whatever creations, renames, deletions and set_custom_domain overlap.    *)
THEOREM TenancyTypesCorrect == TenancySpec => []TenancyTypes
<1>1. TenancyIInv /\ IndexOK => TenancyTypes
  <2>. SUFFICES ASSUME TenancyIInv, IndexOK PROVE TenancyTypes
    OBVIOUS
  <2>. USE DEF TenancyIInv, NamesOK, IndexOK
  <2>1. \A s : Cardinality(OrgIdBySlug(s)) =< 1
    <3>1. \A s : \A p, q \in OrgIdBySlug(s) : p = q
      BY DEF OrgIdBySlug, OneOrg
    <3>. QED
      BY <3>1, AtMostOne
  <2>2. \A o, s : Cardinality(LiveRepo(o, s)) =< 1
    <3>1. \A o, s : \A q, r \in LiveRepo(o, s) : q = r
      BY DEF LiveRepo, ReposForOrg, ListRepositories, OneRepo
    <3>. QED
      BY <3>1, AtMostOne
  <2>3. \A h \in Hosts : Cardinality(RepoByCustomDomain(h)) =< 1
    <3>1. \A h \in Hosts : \A q, r \in RepoByCustomDomain(h) : q = r
      BY TenancyAssumption DEF RepoByCustomDomain, ListRepositories, OneHost
    <3>. QED
      BY <3>1, AtMostOne
  <2>4. \A h \in history : history \ {h} \subseteq {x \in history : <<x.scope, x.slug>> # <<h.scope, h.slug>>}
    BY DEF OneRetirement
  <2>5. \A m \in Remotes : /\ remote[m].org \in Orgs \union {Nothing}
                           /\ remote[m].snapshot \in ListRepositories \union {Nothing}
                           /\ remote[m].sources \union remote[m].recipes \subseteq Orgs
    BY DEF RemotesOK, RemoteRow, SnapshotThere, ListRepositories
  <2>6. history \subseteq [scope : Orgs \union {Nothing}, slug : Slugs, id : Orgs \union Repos]
    BY DEF NameRows, HeldName
  <2>. QED
    BY <2>1, <2>2, <2>3, <2>4, <2>5, <2>6 DEF TenancyTypes, NameRows, RepoRow
<1>2. TenancySpec => []IndexOK
  BY IndexInit, NextIndexOK, TenancyInvariant, PTL DEF TenancySpec
<1>. QED
  BY <1>1, <1>2, TenancyInvariant, PTL

-----------------------------------------------------------------------------
(* Editions.                                                                *)

Locking   == {"locked", "capped", "write"}
SaleSteps == {"off", "make", "member", "target", "switch", "begun"} \union Locking
SetRow    == [exists : BOOLEAN, members : SUBSET Products, rule : BOOLEAN]

EditionRow(e) ==
    DOMAIN e = {"id", "set", "active"} /\ e.id \in Skus /\ e.active \in BOOLEAN

EditionRows ==
    /\ plan.cap \in Caps \union {NoCap}
    /\ IsFiniteSet(skus)
    /\ \A e \in skus : EditionRow(e)
    /\ \A d, e \in skus : d.id = e.id => d = e
    /\ sets \in [SetNames -> SetRow]
    /\ pool \in PoolSizes

LockOK ==
    \/ lockedBy = NoCap
    \/ lockedBy \in Sellers /\ sale[lockedBy].at \in Locking

(* A request for one product sells that product's set, which nobody else    *)
(* has touched or which it knows to be touched; a transaction past its      *)
(* count holds the lock that keeps the count true.                          *)
SaleOK(c) ==
    LET w == sale[c] IN
    /\ w.at \in SaleSteps
    /\ w.at \in {"make", "member", "target"} => w = [at |-> w.at, set |-> w.set, only |-> w.only]
    /\ w.at \in {"begun", "locked"} =>
          w = [at |-> w.at, sku |-> w.sku, set |-> w.set, only |-> w.only]
    /\ w.at \in {"capped", "write"} =>
          /\ w = [at |-> w.at, sku |-> w.sku, set |-> w.set, only |-> w.only, cap |-> w.cap]
          /\ w.cap \in Caps \union {NoCap}
    /\ w.at \notin {"off", "switch"} /\ w.only # {} => w.set \in Products /\ w.only = {w.set}
    /\ w.at \notin {"off", "switch", "make"} /\ w.only # {} /\ c \notin edited =>
          IsSingleton(w.set, w.set)
    /\ w.at \in {"make", "member"} => w.only # {}
    /\ w.at \in Locking => lockedBy = c
    /\ w.at = "write" => Fits(Counts(w.sku) + 1, w.cap)

EditionsIInv ==
    /\ EditionRows /\ LockOK /\ DOMAIN sale = Sellers
    /\ \A c \in Sellers : SaleOK(c)
    /\ odd = {}

LEMMA CountFacts ==
    ASSUME EditionRows
    PROVE  /\ IsFiniteSet(ActiveEditions) /\ CountActiveEditions \in Nat
           /\ \A id : Counts(id) \in Nat
           /\ ActiveEditions' \subseteq ActiveEditions =>
                /\ CountActiveEditions' \in Nat /\ CountActiveEditions' =< CountActiveEditions
                /\ \A id : Counts(id)' \in Nat /\ Counts(id)' =< Counts(id)
<1>1. IsFiniteSet(ActiveEditions)
  BY FS_Subset DEF EditionRows, ActiveEditions
<1>2. CountActiveEditions \in Nat
  BY <1>1, FS_CardinalityType DEF CountActiveEditions
<1>3. ASSUME NEW id PROVE Counts(id) \in Nat /\ IsFiniteSet({e \in ActiveEditions : e.id # id})
  <2>1. IsFiniteSet({e \in ActiveEditions : e.id # id})
    BY <1>1, FS_Subset
  <2>. QED
    BY <2>1, FS_CardinalityType DEF Counts
<1>4. ASSUME ActiveEditions' \subseteq ActiveEditions
      PROVE  /\ CountActiveEditions' \in Nat /\ CountActiveEditions' =< CountActiveEditions
             /\ \A id : Counts(id)' \in Nat /\ Counts(id)' =< Counts(id)
  <2>1. IsFiniteSet(ActiveEditions') /\ CountActiveEditions' =< CountActiveEditions
    BY <1>1, <1>4, FS_Subset DEF CountActiveEditions
  <2>2. CountActiveEditions' \in Nat
    BY <2>1, FS_CardinalityType DEF CountActiveEditions
  <2>3. ASSUME NEW id PROVE Counts(id)' \in Nat /\ Counts(id)' =< Counts(id)
    <3>1. {e \in ActiveEditions' : e.id # id} \subseteq {e \in ActiveEditions : e.id # id}
      BY <1>4
    <3>2. /\ IsFiniteSet({e \in ActiveEditions' : e.id # id})
          /\ Cardinality({e \in ActiveEditions' : e.id # id}) =< Cardinality({e \in ActiveEditions : e.id # id})
      BY <1>3, <3>1, FS_Subset
    <3>. QED
      BY <3>2, FS_CardinalityType DEF Counts
  <2>. QED
    BY <2>1, <2>2, <2>3
<1>. QED
  BY <1>1, <1>2, <1>3, <1>4

LEMMA EditionsInitIInv == EditionsInit => EditionsIInv
<1>. SUFFICES ASSUME EditionsInit PROVE EditionsIInv
  OBVIOUS
<1>1. PICK on \in SUBSET Skus, n \in SetNames, active \in BOOLEAN :
        /\ Cardinality(on) =< 1
        /\ skus = {[id |-> i, set |-> n, active |-> active] : i \in on}
        /\ sets = [m \in SetNames |-> IF m = n THEN [exists |-> TRUE, members |-> {}, rule |-> FALSE]
                                      ELSE NoSet]
  BY DEF EditionsInit
<1>2. EditionRows
  <2>1. plan.cap \in Caps \union {NoCap}
    BY DEF EditionsInit, Unlimited
  <2>2. /\ \A e \in skus : EditionRow(e)
        /\ \A d, e \in skus : d.id = e.id => d = e
    BY <1>1 DEF EditionRow
  <2>3. IsFiniteSet(skus)
    <3>1. IsFiniteSet(on)
      BY EditionsAssumption, FS_Subset
    <3>2. Cardinality(on) \in Nat /\ Cardinality(on) =< 1
      BY <1>1, <3>1, FS_CardinalityType
    <3>3. CASE Cardinality(on) = 0
      <4>1. skus = {}
        BY <1>1, <3>1, <3>3, FS_EmptySet
      <4>. QED
        BY <4>1, FS_EmptySet
    <3>4. CASE Cardinality(on) = 1
      <4>1. PICK i : on = {i}
        BY <3>1, <3>4, FS_Singleton
      <4>2. skus = {[id |-> i, set |-> n, active |-> active]}
        BY <1>1, <4>1
      <4>. QED
        BY <4>2, FS_Singleton
    <3>. QED
      BY <3>2, <3>3, <3>4
  <2>4. sets \in [SetNames -> SetRow] /\ pool \in PoolSizes
    BY <1>1 DEF EditionsInit, SetRow, NoSet
  <2>. QED
    BY <2>1, <2>2, <2>3, <2>4 DEF EditionRows
<1>3. lockedBy = NoCap /\ odd = {} /\ DOMAIN sale = Sellers /\ \A c \in Sellers : sale[c] = Off
  BY DEF EditionsInit
<1>4. \A c \in Sellers : SaleOK(c)
  BY <1>3 DEF SaleOK, Off, SaleSteps, Locking
<1>. QED
  BY <1>2, <1>3, <1>4 DEF EditionsIInv, LockOK

(* What a step of one request leaves the others.                            *)
SetsSpared(c) ==
    /\ \A d \in Sellers \ {c} : d \in edited => d \in edited' \/ sale[d] = Off
    /\ \A d \in Sellers \ {c}, n \in Products :
          /\ sale[d].at \notin {"off", "switch"} /\ sale[d].set = n /\ d \notin edited'
          /\ IsSingleton(n, n)
          => IsSingleton(n, n)'

CountSpared(c) == sale[c].at = "write" \/ ActiveEditions' \subseteq ActiveEditions

LEMMA SaleMoves ==
    ASSUME EditionsIInv, EditionRows', NEW c \in Sellers, NEW k, sale' = [sale EXCEPT ![c] = k],
           SaleOK(c)', SetsSpared(c), CountSpared(c), odd' = odd,
           \/ lockedBy' = lockedBy /\ (lockedBy = c => k.at \in Locking)
           \/ lockedBy = NoCap /\ lockedBy' = c /\ k.at \in Locking
           \/ lockedBy = c /\ lockedBy' = NoCap
    PROVE  EditionsIInv'
<1>1. DOMAIN sale' = Sellers /\ sale'[c] = k /\ \A d \in Sellers : d # c => sale'[d] = sale[d]
  BY DEF EditionsIInv
<1>2. LockOK'
  BY <1>1 DEF EditionsIInv, LockOK
<1>3. ASSUME NEW d \in Sellers, d # c PROVE SaleOK(d)'
  <2>1. sale'[d] = sale[d] /\ SaleOK(d) /\ SaleOK(c) /\ NoCap \notin Sellers
    BY <1>1, <1>3, EditionsAssumption DEF EditionsIInv
  <2>2. sale[d].at \in Locking => lockedBy' = d
    BY <1>3, <2>1 DEF SaleOK
  <2>3. sale[d].at = "write" => Fits(Counts(sale[d].sku)' + 1, sale[d].cap)
    <3>. SUFFICES ASSUME sale[d].at = "write" PROVE Fits(Counts(sale[d].sku)' + 1, sale[d].cap)
      OBVIOUS
    <3>1. Fits(Counts(sale[d].sku) + 1, sale[d].cap) /\ sale[d].cap \in Caps \union {NoCap}
          /\ lockedBy = d
      BY <2>1 DEF SaleOK, Locking
    <3>2. ActiveEditions' \subseteq ActiveEditions
      BY <1>3, <2>1, <3>1 DEF CountSpared, SaleOK, Locking
    <3>3. PICK id : id = sale[d].sku
      OBVIOUS
    <3>4. Counts(id) \in Nat /\ Counts(id)' \in Nat /\ Counts(id)' =< Counts(id)
      BY <3>2, CountFacts DEF EditionsIInv
    <3>5. Counts(sale[d].sku)' = Counts(id)'
      BY <2>1, <3>3 DEF Counts
    <3>6. CASE sale[d].cap # NoCap
      <4>1. sale[d].cap \in Nat /\ Counts(id) + 1 =< sale[d].cap
        BY <3>1, <3>3, <3>6, EditionsAssumption DEF Fits
      <4>2. Counts(id)' + 1 =< sale[d].cap
        BY <3>4, <4>1
      <4>. QED
        BY <3>5, <4>2 DEF Fits
    <3>. QED
      BY <3>6 DEF Fits
  <2>4. sale[d].at \notin {"off", "switch", "make"} /\ sale[d].only # {} /\ d \notin edited' =>
          IsSingleton(sale[d].set, sale[d].set)'
    <3>. SUFFICES ASSUME sale[d].at \notin {"off", "switch", "make"}, sale[d].only # {}, d \notin edited'
                  PROVE  IsSingleton(sale[d].set, sale[d].set)'
      OBVIOUS
    <3>1. PICK n : n = sale[d].set
      OBVIOUS
    <3>2. n \in Products /\ sale[d] # Off
      BY <2>1, <3>1 DEF SaleOK, Off
    <3>3. d \notin edited
      BY <1>3, <3>2 DEF SetsSpared
    <3>4. IsSingleton(n, n)
      BY <2>1, <3>1, <3>3 DEF SaleOK
    <3>5. IsSingleton(n, n)'
      BY <1>3, <3>1, <3>2, <3>4 DEF SetsSpared
    <3>. QED
      BY <2>1, <3>1, <3>5 DEF IsSingleton
  <2>. QED
    BY <2>1, <2>2, <2>3, <2>4 DEF SaleOK
<1>. QED
  BY <1>1, <1>2, <1>3 DEF EditionsIInv

-----------------------------------------------------------------------------
(* Every edition that becomes active is one its transaction counted.        *)
CapStep ==
    CountActiveEditions' > CountActiveEditions =>
        \E c \in Sellers :
            /\ sale[c].at = "write"
            /\ sale'[c] = Off
            /\ Fits(CountActiveEditions', sale[c].cap)

LEMMA NotMore ==
    ASSUME EditionsIInv, ActiveEditions' \subseteq ActiveEditions
    PROVE  CapStep
<1>1. /\ CountActiveEditions \in Nat /\ CountActiveEditions' \in Nat
      /\ CountActiveEditions' =< CountActiveEditions
  BY CountFacts DEF EditionsIInv
<1>. QED
  BY <1>1 DEF CapStep

LEMMA NotHolder ==
    ASSUME EditionsIInv, NEW c \in Sellers, sale[c].at \notin Locking
    PROVE  lockedBy # c
BY EditionsAssumption DEF EditionsIInv, LockOK

LEMMA OffFacts == Off.at = "off" /\ Off.at \notin Locking /\ Off.at # "write"
BY DEF Off, Locking

(* A step that writes nothing but where the request is.                     *)
LEMMA QuietSale ==
    ASSUME EditionsIInv, NEW c \in Sellers, NEW k, sale' = [sale EXCEPT ![c] = k],
           UNCHANGED Catalogue, pool' = pool, sale'[c] = k => SaleOK(c)',
           \/ lockedBy' = lockedBy /\ (lockedBy = c => k.at \in Locking)
           \/ lockedBy = NoCap /\ lockedBy' = c /\ k.at \in Locking
           \/ lockedBy = c /\ lockedBy' = NoCap
    PROVE  EditionsIInv' /\ CapStep
<1>1. UNCHANGED <<plan, skus, sets, edited, odd>>
  BY DEF Catalogue
<1>2. EditionRows' /\ ActiveEditions' \subseteq ActiveEditions
  BY <1>1 DEF EditionsIInv, EditionRows, ActiveEditions
<1>3. SetsSpared(c) /\ CountSpared(c)
  BY <1>1, <1>2 DEF SetsSpared, CountSpared, IsSingleton
<1>4. sale'[c] = k
  BY DEF EditionsIInv
<1>. QED
  BY <1>1, <1>2, <1>3, <1>4, SaleMoves, NotMore

(* A request that ends, and with it its lock.                               *)
LEMMA SaleEnds ==
    ASSUME EditionsIInv, EditionRows', NEW c \in Sellers, sale' = [sale EXCEPT ![c] = Off],
           SetsSpared(c), CountSpared(c), odd' = odd,
           \/ lockedBy' = lockedBy /\ sale[c].at \notin Locking
           \/ Unlock(c)
    PROVE  EditionsIInv'
<1>1. sale'[c] = Off
  BY DEF EditionsIInv
<1>2. SaleOK(c)'
  BY <1>1 DEF SaleOK, Off, SaleSteps, Locking
<1>3. \/ lockedBy' = lockedBy /\ (lockedBy = c => Off.at \in Locking)
      \/ lockedBy = c /\ lockedBy' = NoCap
  BY NotHolder DEF Unlock
<1>. QED
  BY <1>2, <1>3, SaleMoves

LEMMA QuietEnd ==
    ASSUME EditionsIInv, NEW c \in Sellers, sale' = [sale EXCEPT ![c] = Off],
           UNCHANGED Catalogue, pool' = pool,
           \/ lockedBy' = lockedBy /\ sale[c].at \notin Locking
           \/ Unlock(c)
    PROVE  EditionsIInv' /\ CapStep
<1>1. UNCHANGED <<plan, skus, sets, edited, odd>>
  BY DEF Catalogue
<1>2. EditionRows' /\ ActiveEditions' \subseteq ActiveEditions
  BY <1>1 DEF EditionsIInv, EditionRows, ActiveEditions
<1>3. SetsSpared(c) /\ CountSpared(c)
  BY <1>1, <1>2 DEF SetsSpared, CountSpared, IsSingleton
<1>. QED
  BY <1>1, <1>2, <1>3, SaleEnds, NotMore

(* A request of one statement that touches no set.                          *)
LEMMA QuickSale ==
    ASSUME EditionsIInv, EditionRows', NEW c \in Sellers, Opens(c, Off),
           UNCHANGED <<sets, lockedBy, edited, odd>>, ActiveEditions' \subseteq ActiveEditions
    PROVE  EditionsIInv' /\ CapStep
<1>1. sale' = [sale EXCEPT ![c] = Off] /\ sale[c].at \notin Locking
  BY OffFacts DEF Opens
<1>2. SetsSpared(c) /\ CountSpared(c)
  BY DEF SetsSpared, CountSpared, IsSingleton
<1>. QED
  BY <1>1, <1>2, SaleEnds, NotMore

-----------------------------------------------------------------------------
LEMMA ChooseSetStep ==
    ASSUME EditionsIInv, NEW c \in Sellers, ChooseSet(c), pool' = pool
    PROVE  EditionsIInv' /\ CapStep
<1>1. PICK n \in ListPackageSets : Opens(c, [at |-> "target", set |-> n, only |-> {}])
  BY DEF ChooseSet
<1>. DEFINE k == [at |-> "target", set |-> n, only |-> {}]
<1>2. sale' = [sale EXCEPT ![c] = k] /\ sale[c].at \notin Locking
  BY <1>1, OffFacts DEF Opens
<1>3. sale'[c] = k => SaleOK(c)'
  BY DEF SaleOK, SaleSteps, Locking
<1>4. lockedBy' = lockedBy /\ lockedBy # c /\ UNCHANGED Catalogue
  BY <1>2, NotHolder DEF ChooseSet
<1>. HIDE DEF k
<1>. QED
  BY <1>2, <1>3, <1>4, QuietSale

LEMMA SingletonFindStep ==
    ASSUME EditionsIInv, NEW c \in Sellers, SingletonFind(c), pool' = pool
    PROVE  EditionsIInv' /\ CapStep
<1>1. PICK p \in Products :
        /\ sets[p].exists => IsSingleton(p, p)
        /\ Opens(c, [at |-> IF sets[p].exists THEN "member" ELSE "make", set |-> p, only |-> {p}])
  BY DEF SingletonFind
<1>2. edited' = edited \ {c} /\ UNCHANGED <<plan, skus, sets, odd, lockedBy>>
  BY DEF SingletonFind
<1>3. PICK step \in {"member", "make"} : /\ step = IF sets[p].exists THEN "member" ELSE "make"
  OBVIOUS
<1>. DEFINE k == [at |-> step, set |-> p, only |-> {p}]
<1>4. sale' = [sale EXCEPT ![c] = k] /\ sale[c].at \notin Locking /\ sale'[c] = k
  BY <1>1, <1>3, OffFacts DEF Opens, EditionsIInv
<1>5. SaleOK(c)'
  <2>1. step = "member" => IsSingleton(p, p)'
    BY <1>1, <1>2, <1>3 DEF IsSingleton
  <2>2. sale'[c].set = p /\ sale'[c].only = {p} /\ sale'[c].at = step
    BY <1>4
  <2>3. step = "member" => IsSingleton(sale[c].set, sale[c].set)'
    BY <2>1, <2>2
  <2>. QED
    BY <1>4, <2>2, <2>3 DEF SaleOK, SaleSteps, Locking
<1>6. EditionRows' /\ ActiveEditions' \subseteq ActiveEditions
  BY <1>2 DEF EditionsIInv, EditionRows, ActiveEditions
<1>7. SetsSpared(c) /\ CountSpared(c)
  BY <1>2, <1>6 DEF SetsSpared, CountSpared, IsSingleton
<1>8. lockedBy' = lockedBy /\ lockedBy # c
  BY <1>2, <1>4, NotHolder
<1>. HIDE DEF k
<1>. QED
  BY <1>2, <1>4, <1>5, <1>6, <1>7, <1>8, SaleMoves, NotMore

LEMMA SingletonMakeStep ==
    ASSUME EditionsIInv, NEW c \in Sellers, SingletonMake(c), pool' = pool
    PROVE  EditionsIInv' /\ CapStep
<1>. DEFINE n == sale[c].set
            fresh == [NoSet EXCEPT !.exists = TRUE]
<1>1. /\ sale[c].at = "make" /\ SaleOK(c) /\ sale[c].at \notin Locking
      /\ sale[c] = [at |-> "make", set |-> n, only |-> sale[c].only]
      /\ n \in Products /\ sale[c].only = {n} /\ Products \subseteq SetNames
  BY EditionsAssumption DEF SingletonMake, EditionsIInv, SaleOK, Locking
<1>2. lockedBy' = lockedBy /\ lockedBy # c
  BY <1>1, NotHolder DEF SingletonMake
<1>3. CASE sets[n].exists
  <2>1. sale' = [sale EXCEPT ![c] = Off] /\ UNCHANGED Catalogue
    BY <1>3 DEF SingletonMake, Ends, Moves
  <2>. QED
    BY <1>1, <1>2, <2>1, QuietEnd
<1>4. CASE ~ sets[n].exists
  <2>. DEFINE k == [at |-> "member", set |-> n, only |-> {n}]
  <2>1. /\ sets' = [sets EXCEPT ![n] = fresh] /\ UNCHANGED <<plan, skus, edited, odd>>
        /\ sale' = [sale EXCEPT ![c] = [sale[c] EXCEPT !.at = "member"]]
    BY <1>4 DEF SingletonMake, Moves
  <2>2. [sale[c] EXCEPT !.at = "member"] = k
    BY <1>1
  <2>3. sale' = [sale EXCEPT ![c] = k] /\ sale'[c] = k
    BY <2>1, <2>2 DEF EditionsIInv
  <2>4. fresh \in SetRow /\ fresh.members = {} /\ fresh.rule = FALSE
    BY DEF NoSet, SetRow
  <2>5. sets' \in [SetNames -> SetRow] /\ sets'[n] = fresh
        /\ \A m \in SetNames : m # n => sets'[m] = sets[m]
    BY <1>1, <2>1, <2>4 DEF EditionsIInv, EditionRows
  <2>7. SaleOK(c)'
    <3>1. sale'[c].set = n /\ sale'[c].only = {n} /\ sale'[c].at = "member"
      BY <2>3
    <3>2. IsSingleton(sale[c].set, sale[c].set)'
      BY <1>1, <2>4, <2>5, <3>1 DEF IsSingleton
    <3>. QED
      BY <1>1, <2>3, <3>1, <3>2 DEF SaleOK, SaleSteps, Locking
  <2>8. EditionRows' /\ ActiveEditions' \subseteq ActiveEditions
    BY <2>1, <2>5 DEF EditionsIInv, EditionRows, ActiveEditions
  <2>9. SetsSpared(c) /\ CountSpared(c)
    <3>1. ASSUME NEW m \in Products, IsSingleton(m, m) PROVE IsSingleton(m, m)'
      <4>1. CASE m = n
        BY <1>1, <2>4, <2>5, <4>1 DEF IsSingleton
      <4>2. CASE m # n
        BY <1>1, <2>5, <3>1, <4>2 DEF IsSingleton
      <4>. QED
        BY <4>1, <4>2
    <3>. QED
      BY <2>1, <2>8, <3>1 DEF SetsSpared, CountSpared
  <2>. HIDE DEF k
  <2>. QED
    BY <1>2, <2>1, <2>3, <2>7, <2>8, <2>9, SaleMoves, NotMore
<1>. QED
  BY <1>3, <1>4

LEMMA SingletonMemberStep ==
    ASSUME EditionsIInv, NEW c \in Sellers, SingletonMember(c), pool' = pool
    PROVE  EditionsIInv' /\ CapStep
<1>. DEFINE n == sale[c].set
<1>1. /\ sale[c].at = "member" /\ SaleOK(c) /\ sale[c].at \notin Locking
      /\ sale[c] = [at |-> "member", set |-> n, only |-> sale[c].only]
      /\ n \in Products /\ sale[c].only = {n} /\ Products \subseteq SetNames
  BY EditionsAssumption DEF SingletonMember, EditionsIInv, SaleOK, Locking
<1>2. /\ lockedBy' = lockedBy /\ lockedBy # c
      /\ UNCHANGED <<plan, skus, edited, odd>>
  BY <1>1, NotHolder DEF SingletonMember
<1>3. CASE ~ sets[n].exists
  <2>1. sale' = [sale EXCEPT ![c] = Off] /\ UNCHANGED Catalogue
    BY <1>2, <1>3 DEF SingletonMember, Ends, Moves, Catalogue
  <2>. QED
    BY <1>1, <1>2, <2>1, QuietEnd
<1>4. CASE sets[n].exists
  <2>. DEFINE k == [at |-> "target", set |-> n, only |-> {n}]
              row == [sets[n] EXCEPT !.members = @ \union {n}]
  <2>1. /\ sets' = [sets EXCEPT ![n] = row]
        /\ sale' = [sale EXCEPT ![c] = [sale[c] EXCEPT !.at = "target"]]
    BY <1>1, <1>4 DEF SingletonMember, Moves
  <2>2. [sale[c] EXCEPT !.at = "target"] = k
    BY <1>1
  <2>3. sale' = [sale EXCEPT ![c] = k] /\ sale'[c] = k
    BY <2>1, <2>2 DEF EditionsIInv
  <2>4. row \in SetRow /\ row.members = sets[n].members \union {n} /\ row.rule = sets[n].rule
    BY <1>1 DEF EditionsIInv, EditionRows, SetRow
  <2>5. sets' \in [SetNames -> SetRow] /\ sets'[n] = row
        /\ \A m \in SetNames : m # n => sets'[m] = sets[m]
    BY <1>1, <2>1, <2>4 DEF EditionsIInv, EditionRows
  <2>6. ASSUME NEW m \in Products, IsSingleton(m, m) PROVE IsSingleton(m, m)'
    <3>1. CASE m = n
      BY <1>1, <2>4, <2>5, <2>6, <3>1 DEF IsSingleton
    <3>2. CASE m # n
      BY <1>1, <2>5, <2>6, <3>2 DEF IsSingleton
    <3>. QED
      BY <3>1, <3>2
  <2>7. SaleOK(c)'
    <3>1. sale'[c].set = n /\ sale'[c].only = {n} /\ sale'[c].at = "target"
      BY <2>3
    <3>2. PICK m : m = n
      OBVIOUS
    <3>3. c \notin edited' => IsSingleton(m, m)'
      BY <1>1, <1>2, <2>6, <3>2 DEF SaleOK
    <3>4. c \notin edited' => IsSingleton(sale[c].set, sale[c].set)'
      BY <3>1, <3>2, <3>3 DEF IsSingleton
    <3>. QED
      BY <1>1, <2>3, <3>1, <3>4 DEF SaleOK, SaleSteps, Locking
  <2>8. EditionRows' /\ ActiveEditions' \subseteq ActiveEditions
    BY <1>2, <2>5 DEF EditionsIInv, EditionRows, ActiveEditions
  <2>9. SetsSpared(c) /\ CountSpared(c)
    BY <1>2, <2>6, <2>8 DEF SetsSpared, CountSpared
  <2>. HIDE DEF k
  <2>. QED
    BY <1>2, <2>3, <2>7, <2>8, <2>9, SaleMoves, NotMore
<1>. QED
  BY <1>3, <1>4

LEMMA ReactivateOpenStep ==
    ASSUME EditionsIInv, NEW c \in Sellers, ReactivateOpen(c), pool' = pool
    PROVE  EditionsIInv' /\ CapStep
<1>1. PICK e \in skus : Opens(c, [at |-> "switch", sku |-> e.id])
  BY DEF ReactivateOpen
<1>. DEFINE k == [at |-> "switch", sku |-> e.id]
<1>2. sale' = [sale EXCEPT ![c] = k] /\ sale[c].at \notin Locking
  BY <1>1, OffFacts DEF Opens
<1>3. sale'[c] = k => SaleOK(c)'
  BY DEF SaleOK, SaleSteps, Locking
<1>4. lockedBy' = lockedBy /\ lockedBy # c /\ UNCHANGED Catalogue
  BY <1>2, NotHolder DEF ReactivateOpen
<1>. HIDE DEF k
<1>. QED
  BY <1>2, <1>3, <1>4, QuietSale

LEMMA BeginStep ==
    ASSUME EditionsIInv, NEW c \in Sellers, Begin(c), pool' = pool
    PROVE  EditionsIInv' /\ CapStep
<1>1. UNCHANGED Catalogue /\ lockedBy' = lockedBy /\ SaleOK(c) /\ edited' = edited /\ sets' = sets
      /\ sale[c].at \in {"target", "switch"}
  BY DEF Begin, EditionsIInv, Catalogue
<1>2. lockedBy # c
  BY <1>1, NotHolder DEF Locking
<1>3. CASE sale[c].at = "target"
  <2>. DEFINE k == [at |-> "begun", sku |-> "new", set |-> sale[c].set, only |-> sale[c].only]
  <2>1. sale' = [sale EXCEPT ![c] = k]
    BY <1>3 DEF Begin, Moves
  <2>2. sale'[c] = k => SaleOK(c)'
    BY <1>1, <1>3 DEF SaleOK, SaleSteps, Locking, IsSingleton
  <2>. HIDE DEF k
  <2>. QED
    BY <1>1, <1>2, <2>1, <2>2, QuietSale
<1>4. CASE sale[c].at = "switch"
  <2>. DEFINE k == [at |-> "begun", sku |-> sale[c].sku, set |-> "none", only |-> {}]
  <2>1. sale' = [sale EXCEPT ![c] = k]
    BY <1>4 DEF Begin, Moves
  <2>2. sale'[c] = k => SaleOK(c)'
    BY DEF SaleOK, SaleSteps, Locking
  <2>. HIDE DEF k
  <2>. QED
    BY <1>1, <1>2, <2>1, <2>2, QuietSale
<1>. QED
  BY <1>1, <1>3, <1>4

LEMMA TakeLockStep ==
    ASSUME EditionsIInv, NEW c \in Sellers, TakeLock(c), pool' = pool
    PROVE  EditionsIInv' /\ CapStep
<1>. DEFINE k == [at |-> "locked", sku |-> sale[c].sku, set |-> sale[c].set, only |-> sale[c].only]
<1>1. /\ UNCHANGED Catalogue /\ edited' = edited /\ sets' = sets /\ SaleOK(c) /\ sale[c].at = "begun"
      /\ lockedBy = NoCap /\ lockedBy' = c
  BY DEF TakeLock, EditionsIInv, Catalogue
<1>2. [sale[c] EXCEPT !.at = "locked"] = k
  BY <1>1 DEF SaleOK
<1>3. sale' = [sale EXCEPT ![c] = k]
  BY <1>2 DEF TakeLock, Moves
<1>4. sale'[c] = k => SaleOK(c)'
  BY <1>1 DEF SaleOK, SaleSteps, Locking, IsSingleton
<1>5. k.at \in Locking
  BY DEF Locking
<1>. HIDE DEF k
<1>. QED
  BY <1>1, <1>3, <1>4, <1>5, QuietSale

LEMMA ReadCapStep ==
    ASSUME EditionsIInv, NEW c \in Sellers, ReadCap(c), pool' = pool
    PROVE  EditionsIInv' /\ CapStep
<1>. DEFINE k == [at |-> "capped", sku |-> sale[c].sku, set |-> sale[c].set, only |-> sale[c].only,
                  cap |-> plan.cap]
<1>1. /\ UNCHANGED Catalogue /\ edited' = edited /\ sets' = sets /\ SaleOK(c) /\ sale[c].at = "locked"
      /\ lockedBy' = lockedBy /\ plan.cap \in Caps \union {NoCap}
  BY DEF ReadCap, EditionsIInv, EditionRows, Catalogue
<1>2. sale' = [sale EXCEPT ![c] = k]
  BY DEF ReadCap, Moves, Entitlements
<1>3. sale'[c] = k => SaleOK(c)'
  BY <1>1 DEF SaleOK, SaleSteps, Locking, IsSingleton
<1>4. k.at \in Locking
  BY DEF Locking
<1>. HIDE DEF k
<1>. QED
  BY <1>1, <1>2, <1>3, <1>4, QuietSale

LEMMA RequireSkuCapacityStep ==
    ASSUME EditionsIInv, NEW c \in Sellers, RequireSkuCapacity(c), pool' = pool
    PROVE  EditionsIInv' /\ CapStep
<1>. DEFINE k == [at |-> "write", sku |-> sale[c].sku, set |-> sale[c].set, only |-> sale[c].only,
                  cap |-> sale[c].cap]
<1>1. /\ UNCHANGED Catalogue /\ edited' = edited /\ sets' = sets /\ skus' = skus
      /\ SaleOK(c) /\ sale[c].at = "capped"
      /\ lockedBy' = lockedBy /\ Fits(Counts(sale[c].sku) + 1, sale[c].cap)
  BY DEF RequireSkuCapacity, EditionsIInv, Catalogue
<1>2. [sale[c] EXCEPT !.at = "write"] = k
  BY <1>1 DEF SaleOK
<1>3. sale' = [sale EXCEPT ![c] = k]
  BY <1>2 DEF RequireSkuCapacity, Moves
<1>4. ASSUME sale'[c] = k PROVE SaleOK(c)'
  <2>1. /\ sale'[c].sku = sale[c].sku /\ sale'[c].cap = sale[c].cap /\ sale'[c].at = "write"
        /\ sale'[c].set = sale[c].set /\ sale'[c].only = sale[c].only
    BY <1>4
  <2>2. Counts(sale[c].sku)' = Counts(sale[c].sku)
    BY <1>1, <2>1 DEF Counts, ActiveEditions
  <2>3. Fits(Counts(sale[c].sku)' + 1, sale'[c].cap)
    BY <1>1, <2>1, <2>2
  <2>. QED
    BY <1>1, <1>4, <2>1, <2>3 DEF SaleOK, SaleSteps, Locking, IsSingleton
<1>5. k.at \in Locking
  BY DEF Locking
<1>. HIDE DEF k
<1>. QED
  BY <1>1, <1>3, <1>4, <1>5, QuietSale

LEMMA RefuseStep ==
    ASSUME EditionsIInv, NEW c \in Sellers, Refuse(c), pool' = pool
    PROVE  EditionsIInv' /\ CapStep
BY QuietEnd DEF Refuse, Ends, Moves

LEMMA PoolTimedOutStep ==
    ASSUME EditionsIInv, NEW c \in Sellers, PoolTimedOut(c), pool' = pool
    PROVE  EditionsIInv' /\ CapStep
BY QuietEnd DEF PoolTimedOut, Ends, Moves

(* The one step that makes an edition active by creating it.                *)
LEMMA CreateEditionStep ==
    ASSUME EditionsIInv, NEW c \in Sellers, CreateEdition(c), pool' = pool
    PROVE  EditionsIInv' /\ CapStep
<1>1. /\ sale[c].at = "write" /\ sale[c].sku = "new" /\ SaleOK(c) /\ EditionRows /\ odd = {}
      /\ sale' = [sale EXCEPT ![c] = Off] /\ sale'[c] = Off /\ Unlock(c)
      /\ UNCHANGED <<plan, sets, edited, pool>>
  BY DEF CreateEdition, EditionsIInv, Ends, Moves
<1>2. SetsSpared(c) /\ CountSpared(c)
  BY <1>1 DEF SetsSpared, CountSpared, IsSingleton
<1>3. CASE ~ sets[sale[c].set].exists
  <2>1. UNCHANGED <<skus, odd>>
    BY <1>3 DEF CreateEdition
  <2>2. EditionRows' /\ ActiveEditions' \subseteq ActiveEditions
    BY <1>1, <2>1 DEF EditionRows, ActiveEditions
  <2>. QED
    BY <1>1, <1>2, <2>1, <2>2, SaleEnds, NotMore
<1>4. CASE sets[sale[c].set].exists
  <2>1. PICK i \in Skus \ {e.id : e \in skus} :
          /\ skus' = skus \union {[id |-> i, set |-> sale[c].set, active |-> TRUE]}
          /\ odd'  = IF sale[c].only # {} /\ ~ IsSingleton(sale[c].set, CHOOSE p \in sale[c].only : TRUE)
                        /\ c \notin edited
                     THEN odd \union {i} ELSE odd
    BY <1>4 DEF CreateEdition
  <2>. DEFINE row == [id |-> i, set |-> sale[c].set, active |-> TRUE]
  <2>2. odd' = odd
    <3>. SUFFICES ASSUME sale[c].only # {}, c \notin edited
                  PROVE  IsSingleton(sale[c].set, CHOOSE p \in sale[c].only : TRUE)
      BY <2>1
    <3>1. sale[c].only = {sale[c].set} /\ IsSingleton(sale[c].set, sale[c].set)
      BY <1>1 DEF SaleOK
    <3>2. (CHOOSE p \in sale[c].only : TRUE) = sale[c].set
      BY <3>1
    <3>. QED
      BY <3>1, <3>2
  <2>3. IsFiniteSet(skus')
    BY <1>1, <2>1, FS_AddElement DEF EditionRows
  <2>4. EditionRows'
    <3>1. EditionRow(row) /\ row.id = i
      BY DEF EditionRow
    <3>. HIDE DEF row
    <3>2. skus' = skus \union {row}
      BY <2>1 DEF row
    <3>3. \A r \in skus' : EditionRow(r)
      BY <1>1, <3>1, <3>2 DEF EditionRows
    <3>4. \A d, r \in skus' : d.id = r.id => d = r
      BY <1>1, <2>1, <3>1, <3>2 DEF EditionRows
    <3>. QED
      BY <1>1, <2>3, <3>3, <3>4 DEF EditionRows
  <2>5. ActiveEditions' = ActiveEditions \union {row}
    BY <2>1 DEF ActiveEditions
  <2>6. row \notin ActiveEditions /\ IsFiniteSet(ActiveEditions)
    BY <1>1, <2>1, CountFacts DEF ActiveEditions
  <2>7. CountActiveEditions' = CountActiveEditions + 1
    BY <2>5, <2>6, FS_AddElement DEF CountActiveEditions
  <2>8. {e \in ActiveEditions : e.id # "new"} = ActiveEditions
    BY <1>1, EditionsAssumption DEF EditionRows, EditionRow, ActiveEditions
  <2>9. Fits(CountActiveEditions', sale[c].cap)
    <3>1. Counts(sale[c].sku) = CountActiveEditions
      BY <1>1, <2>8 DEF Counts, CountActiveEditions
    <3>2. Fits(Counts(sale[c].sku) + 1, sale[c].cap)
      BY <1>1 DEF SaleOK
    <3>. QED
      BY <2>7, <3>1, <3>2
  <2>10. CapStep
    BY <1>1, <2>9 DEF CapStep
  <2>. QED
    BY <1>1, <1>2, <2>2, <2>4, <2>10, SaleEnds
<1>. QED
  BY <1>3, <1>4

(* And the one that switches one on.                                        *)
LEMMA ReactivateEditionStep ==
    ASSUME EditionsIInv, NEW c \in Sellers, ReactivateEdition(c), pool' = pool
    PROVE  EditionsIInv' /\ CapStep
<1>. DEFINE on(e) == IF e.id = sale[c].sku THEN [e EXCEPT !.active = TRUE] ELSE e
            others == {e \in ActiveEditions : e.id # sale[c].sku}
<1>1. /\ sale[c].at = "write" /\ SaleOK(c) /\ EditionRows
      /\ sale' = [sale EXCEPT ![c] = Off] /\ sale'[c] = Off /\ Unlock(c)
      /\ UNCHANGED <<plan, sets, edited, odd, pool>>
      /\ skus' = {on(e) : e \in skus}
  BY DEF ReactivateEdition, EditionsIInv, Ends, Moves
<1>2. SetsSpared(c) /\ CountSpared(c)
  BY <1>1 DEF SetsSpared, CountSpared, IsSingleton
<1>3. ASSUME NEW e \in skus
      PROVE  /\ EditionRow(on(e)) /\ on(e).id = e.id
             /\ e.id # sale[c].sku => on(e) = e
             /\ e.id = sale[c].sku => on(e).active
  <2>1. DOMAIN e = {"id", "set", "active"} /\ e.id \in Skus /\ e.active \in BOOLEAN
    BY <1>1 DEF EditionRows, EditionRow
  <2>2. CASE e.id = sale[c].sku
    BY <2>1, <2>2 DEF EditionRow
  <2>3. CASE e.id # sale[c].sku
    BY <2>1, <2>3 DEF EditionRow
  <2>. QED
    BY <2>2, <2>3
<1>. HIDE DEF on
<1>4. \A d, e \in skus : on(d).id = on(e).id => on(d) = on(e)
  BY <1>1, <1>3 DEF EditionRows
<1>5. CASE \A e \in skus : e.id # sale[c].sku
  <2>1. skus' = skus
    BY <1>1, <1>3, <1>5
  <2>2. EditionRows' /\ ActiveEditions' \subseteq ActiveEditions
    BY <1>1, <2>1 DEF EditionRows, ActiveEditions
  <2>. QED
    BY <1>1, <1>2, <2>2, SaleEnds, NotMore
<1>6. ASSUME NEW e \in skus, e.id = sale[c].sku PROVE EditionsIInv' /\ CapStep
  <2>1. \A d \in skus : d # e => d.id # sale[c].sku
    BY <1>1, <1>6 DEF EditionRows
  <2>2. skus' = (skus \ {e}) \union {on(e)}
    BY <1>1, <1>3, <2>1
  <2>3. IsFiniteSet(skus \ {e})
    BY <1>1, FS_Subset DEF EditionRows
  <2>4. IsFiniteSet(skus')
    BY <2>2, <2>3, FS_AddElement
  <2>5. \A r \in skus' : EditionRow(r)
    BY <1>1, <1>3, <2>2 DEF EditionRows
  <2>6. \A d, r \in skus' : d.id = r.id => d = r
    BY <1>1, <1>4
  <2>7. EditionRows'
    BY <1>1, <2>4, <2>5, <2>6 DEF EditionRows
  <2>8. ActiveEditions' = others \union {on(e)}
    <3>1. on(e).active /\ on(e).id = sale[c].sku
      BY <1>3, <1>6
    <3>2. ActiveEditions' = {r \in skus \ {e} : r.active} \union {on(e)}
      BY <2>2, <3>1 DEF ActiveEditions
    <3>3. {r \in skus \ {e} : r.active} = others
      BY <1>6, <2>1 DEF ActiveEditions
    <3>. QED
      BY <3>2, <3>3
  <2>9. on(e) \notin others /\ IsFiniteSet(others)
    <3>1. IsFiniteSet(ActiveEditions)
      BY <1>1, CountFacts
    <3>2. IsFiniteSet(others)
      BY <3>1, FS_Subset
    <3>. QED
      BY <1>3, <1>6, <3>2
  <2>10. Cardinality(ActiveEditions') = Cardinality(others) + 1
    BY <2>8, <2>9, FS_AddElement
  <2>11. Fits(CountActiveEditions', sale[c].cap)
    BY <1>1, <2>10 DEF SaleOK, Counts, CountActiveEditions
  <2>12. CapStep
    BY <1>1, <2>11 DEF CapStep
  <2>. QED
    BY <1>1, <1>2, <2>7, <2>12, SaleEnds
<1>. QED
  BY <1>5, <1>6

-----------------------------------------------------------------------------
(* What takes no lock: no count can grow by it.                             *)
LEMMA DeactivateEditionStep ==
    ASSUME EditionsIInv, NEW c \in Sellers, DeactivateEdition(c), pool' = pool
    PROVE  EditionsIInv' /\ CapStep
<1>1. PICK e \in skus : skus' = (skus \ {e}) \union {[e EXCEPT !.active = FALSE]}
  BY DEF DeactivateEdition
<1>2. Opens(c, Off) /\ UNCHANGED <<plan, sets, lockedBy, edited, odd>> /\ EditionRows
  BY DEF DeactivateEdition, EditionsIInv
<1>. DEFINE row == [e EXCEPT !.active = FALSE]
<1>3. EditionRow(row) /\ row.id = e.id /\ row.active = FALSE
  BY <1>2 DEF EditionRows, EditionRow
<1>4. skus' = (skus \ {e}) \union {row}
  BY <1>1
<1>. HIDE DEF row
<1>5. IsFiniteSet(skus')
  <2>1. IsFiniteSet(skus \ {e})
    BY <1>2, FS_Subset DEF EditionRows
  <2>. QED
    BY <1>4, <2>1, FS_AddElement
<1>6. /\ \A r \in skus' : EditionRow(r)
      /\ \A d, r \in skus' : d.id = r.id => d = r
  BY <1>2, <1>3, <1>4 DEF EditionRows
<1>7. EditionRows'
  BY <1>2, <1>5, <1>6 DEF EditionRows
<1>8. ActiveEditions' \subseteq ActiveEditions
  BY <1>3, <1>4 DEF ActiveEditions
<1>. QED
  BY <1>2, <1>7, <1>8, QuickSale

LEMMA DeleteEditionStep ==
    ASSUME EditionsIInv, NEW c \in Sellers, DeleteEdition(c), pool' = pool
    PROVE  EditionsIInv' /\ CapStep
<1>1. PICK e \in skus : skus' = skus \ {e}
  BY DEF DeleteEdition
<1>2. Opens(c, Off) /\ UNCHANGED <<plan, sets, lockedBy, edited, odd>> /\ EditionRows
  BY DEF DeleteEdition, EditionsIInv
<1>3. IsFiniteSet(skus')
  BY <1>1, <1>2, FS_Subset DEF EditionRows
<1>4. EditionRows' /\ ActiveEditions' \subseteq ActiveEditions
  BY <1>1, <1>2, <1>3 DEF EditionRows, ActiveEditions
<1>. QED
  BY <1>2, <1>4, QuickSale

LEMMA EntitlementsStep ==
    ASSUME EditionsIInv, NEW c \in Sellers, EntitlementsCommand(c), pool' = pool
    PROVE  EditionsIInv' /\ CapStep
<1>1. /\ Opens(c, Off) /\ UNCHANGED <<skus, sets, lockedBy, edited, odd>> /\ EditionRows
      /\ plan'.cap \in Caps \union {NoCap}
  BY DEF EntitlementsCommand, SetOrgEntitlements, ClearOrgEntitlements, EditionsIInv, Unlimited
<1>2. EditionRows' /\ ActiveEditions' \subseteq ActiveEditions
  BY <1>1 DEF EditionRows, ActiveEditions
<1>. QED
  BY <1>1, <1>2, QuickSale

(* A set changed by hand: who sells it by its product is told.              *)
LEMMA SetEdited ==
    ASSUME EditionsIInv, NEW c \in Sellers, NEW n \in SetNames, NEW row \in SetRow, Opens(c, Off),
           sets' = [sets EXCEPT ![n] = row], Edits(n), UNCHANGED <<plan, skus, lockedBy, odd, pool>>
    PROVE  EditionsIInv' /\ CapStep
<1>1. sale' = [sale EXCEPT ![c] = Off] /\ sale[c].at \notin Locking
  BY OffFacts DEF Opens
<1>2. EditionRows' /\ ActiveEditions' \subseteq ActiveEditions
  BY DEF EditionsIInv, EditionRows, ActiveEditions
<1>3. \A m \in SetNames : m # n => sets'[m] = sets[m]
  BY DEF EditionsIInv, EditionRows
<1>4. \A d \in Sellers \ {c} : d \in edited => d \in edited' \/ sale[d] = Off
  BY DEF Edits
<1>5. ASSUME NEW d \in Sellers \ {c}, NEW m \in Products, sale[d].at \notin {"off", "switch"},
             sale[d].set = m, d \notin edited', IsSingleton(m, m)
      PROVE  IsSingleton(m, m)'
  <2>1. m # n
    BY <1>5 DEF Edits
  <2>. QED
    BY <1>3, <1>5, <2>1, EditionsAssumption DEF IsSingleton
<1>6. SetsSpared(c) /\ CountSpared(c)
  BY <1>2, <1>4, <1>5 DEF SetsSpared, CountSpared
<1>. QED
  BY <1>1, <1>2, <1>6, SaleEnds, NotMore

LEMMA RuleSet ==
    ASSUME NEW row \in SetRow, NEW on \in BOOLEAN
    PROVE  [row EXCEPT !.rule = on] \in SetRow
BY DEF SetRow

LEMMA EditSetsStep ==
    ASSUME EditionsIInv, NEW c \in Sellers, EditSets(c), pool' = pool
    PROVE  EditionsIInv' /\ CapStep
<1>1. sets \in [SetNames -> SetRow] /\ Products \subseteq SetNames
  BY EditionsAssumption DEF EditionsIInv, EditionRows
<1>2. CASE CreatePackageSet(c)
  <2>1. PICK n \in SetNames :
          Opens(c, Off) /\ sets' = [sets EXCEPT ![n] = [NoSet EXCEPT !.exists = TRUE]] /\ Edits(n)
    BY <1>2 DEF CreatePackageSet
  <2>2. [NoSet EXCEPT !.exists = TRUE] \in SetRow
    BY DEF NoSet, SetRow
  <2>. QED
    BY <1>2, <2>1, <2>2, SetEdited DEF CreatePackageSet
<1>3. CASE DeletePackageSet(c)
  <2>1. PICK n \in SetNames : Opens(c, Off) /\ sets' = [sets EXCEPT ![n] = NoSet] /\ Edits(n)
    BY <1>3 DEF DeletePackageSet, ListPackageSets
  <2>2. NoSet \in SetRow
    BY DEF NoSet, SetRow
  <2>. QED
    BY <1>3, <2>1, <2>2, SetEdited DEF DeletePackageSet
<1>4. CASE AddSetMember(c)
  <2>1. PICK n \in SetNames, p \in Products :
          /\ Opens(c, Off) /\ Edits(n)
          /\ sets' = [sets EXCEPT ![n] = [sets[n] EXCEPT !.members = @ \union {p}]]
    BY <1>1, <1>4 DEF AddSetMember, ListPackageSets
  <2>2. [sets[n] EXCEPT !.members = @ \union {p}] \in SetRow
    BY <1>1 DEF SetRow
  <2>. QED
    BY <1>4, <2>1, <2>2, SetEdited DEF AddSetMember
<1>5. CASE RemoveSetMember(c)
  <2>1. PICK n \in ListPackageSets : \E p \in SetMembers(n) :
          /\ Opens(c, Off) /\ Edits(n)
          /\ sets' = [sets EXCEPT ![n].members = @ \ {p}]
    BY <1>5 DEF RemoveSetMember
  <2>2. PICK p \in SetMembers(n) :
          /\ Opens(c, Off) /\ Edits(n) /\ n \in SetNames
          /\ sets' = [sets EXCEPT ![n] = [sets[n] EXCEPT !.members = @ \ {p}]]
    BY <1>1, <2>1 DEF ListPackageSets
  <2>3. [sets[n] EXCEPT !.members = @ \ {p}] \in SetRow
    BY <1>1, <2>2 DEF SetRow
  <2>. QED
    BY <1>5, <2>2, <2>3, SetEdited DEF RemoveSetMember
<1>6. CASE AddSetRule(c)
  <2>1. PICK n \in SetNames :
          /\ Opens(c, Off) /\ Edits(n)
          /\ sets' = [sets EXCEPT ![n] = [sets[n] EXCEPT !.rule = TRUE]]
    BY <1>1, <1>6 DEF AddSetRule, ListPackageSets
  <2>2. [sets[n] EXCEPT !.rule = TRUE] \in SetRow
    BY <1>1, RuleSet
  <2>. QED
    BY <1>6, <2>1, <2>2, SetEdited DEF AddSetRule
<1>7. CASE RemoveSetRule(c)
  <2>1. PICK n \in SetNames :
          /\ Opens(c, Off) /\ Edits(n)
          /\ sets' = [sets EXCEPT ![n] = [sets[n] EXCEPT !.rule = FALSE]]
    BY <1>1, <1>7 DEF RemoveSetRule, ListPackageSets
  <2>2. [sets[n] EXCEPT !.rule = FALSE] \in SetRow
    BY <1>1, RuleSet
  <2>. QED
    BY <1>7, <2>1, <2>2, SetEdited DEF RemoveSetRule
<1>. QED
  BY <1>2, <1>3, <1>4, <1>5, <1>6, <1>7 DEF EditSets

LEMMA EditionsNextIInv == EditionsIInv /\ [EditionsNext]_editions => EditionsIInv' /\ CapStep
<1>. SUFFICES ASSUME EditionsIInv, [EditionsNext]_editions PROVE EditionsIInv' /\ CapStep
  OBVIOUS
<1>1. CASE EditionsNext
  <2>1. PICK c \in Sellers : \/ EditionCreate(c) \/ SetEditionActive(c) \/ DeleteEdition(c)
                             \/ EntitlementsCommand(c) \/ EditSets(c)
    BY <1>1 DEF EditionsNext
  <2>2. pool' = pool
    BY <1>1 DEF EditionsNext
  <2>3. CASE EditionCreate(c)
    BY <2>2, <2>3, ChooseSetStep, SingletonFindStep, SingletonMakeStep, SingletonMemberStep,
       BeginStep, TakeLockStep, ReadCapStep, RefuseStep, RequireSkuCapacityStep,
       CreateEditionStep, PoolTimedOutStep
       DEF EditionCreate, EditionTarget, EditionTransaction, SingletonSet, RequireSkuCapacityTx
  <2>4. CASE SetEditionActive(c)
    BY <2>2, <2>4, ReactivateOpenStep, ReactivateEditionStep, DeactivateEditionStep
       DEF SetEditionActive
  <2>. QED
    BY <2>1, <2>2, <2>3, <2>4, DeleteEditionStep, EntitlementsStep, EditSetsStep
<1>2. CASE UNCHANGED editions
  <2>1. UNCHANGED <<plan, skus, sets, pool, lockedBy, sale, sales, edited, odd>>
    BY <1>2 DEF editions
  <2>2. ActiveEditions' = ActiveEditions
    BY <2>1 DEF ActiveEditions
  <2>3. EditionRows' /\ LockOK'
    BY <2>1 DEF EditionsIInv, EditionRows, LockOK
  <2>4. \A c \in Sellers : SaleOK(c)'
    BY <2>1, <2>2 DEF EditionsIInv, SaleOK, IsSingleton, Counts
  <2>. QED
    BY <2>1, <2>2, <2>3, <2>4, NotMore DEF EditionsIInv
<1>. QED
  BY <1>1, <1>2

LEMMA EditionsInvariant == EditionsSpec => []EditionsIInv
BY EditionsInitIInv, EditionsNextIInv, PTL DEF EditionsSpec

(* Every edition that becomes active finds room under the cap its           *)
(* transaction read, whoever else creates or switches on one at the same    *)
(* moment: the lock is held from before the count until the commit          *)
(* (require_sku_capacity_tx, create_edition, set_edition_active).           *)
THEOREM CapAlwaysHolds == EditionsSpec => CapHolds
<1>1. EditionsIInv /\ [EditionsNext]_editions => [CapStep]_editions
  BY EditionsNextIInv
<1>. QED
  BY <1>1, EditionsInvariant, PTL DEF EditionsSpec, CapHolds, CapStep

(* Requests wait for one another for good only with every connection taken  *)
(* and the lock's holder among those who need one more, and an edition made *)
(* for one product sells that product alone unless somebody edited its set  *)
(* meanwhile (singleton_set, org_entitlements on the pool).                 *)
THEOREM SalesKeep == EditionsSpec => []SalesHold
<1>1. EditionsIInv => SalesHold
  <2>. SUFFICES ASSUME EditionsIInv PROVE StallNeedsFullPool
    BY DEF SalesHold, OneProductSold, EditionsIInv
  <2>. DEFINE waiting == {c \in Sellers : sale[c] # Off}
              stuck   == {c \in waiting :
                            \/ sale[c].at \in {"target", "switch", "locked"} /\ ~ Connection
                            \/ sale[c].at = "begun" /\ lockedBy # NoCap}
  <2>. SUFFICES ASSUME waiting # {}, stuck = waiting PROVE ~ Connection /\ lockedBy \in InUse
    BY DEF StallNeedsFullPool
  <2>1. ASSUME lockedBy # NoCap PROVE ~ Connection /\ lockedBy \in InUse
    <3>1. lockedBy \in Sellers /\ sale[lockedBy].at \in {"locked", "capped", "write"}
      BY <2>1 DEF EditionsIInv, LockOK, Locking
    <3>2. lockedBy \in waiting
      BY <3>1 DEF Off
    <3>3. sale[lockedBy].at \in {"target", "switch", "locked"} /\ ~ Connection
      BY <3>1, <3>2
    <3>. QED
      BY <3>1, <3>3 DEF InUse
  <2>2. ASSUME lockedBy = NoCap PROVE FALSE
    <3>1. \A c \in waiting : sale[c].at \in {"target", "switch", "locked"} /\ ~ Connection
      BY <2>2
    <3>2. \A c \in Sellers : sale[c].at \notin Locking
      BY <2>2, EditionsAssumption DEF EditionsIInv, SaleOK
    <3>3. InUse \subseteq waiting
      BY DEF InUse, Off
    <3>4. InUse = {}
      BY <3>1, <3>2, <3>3 DEF InUse, Locking
    <3>5. Cardinality(InUse) = 0 /\ pool \in Nat \ {0}
      BY <3>4, FS_EmptySet, EditionsAssumption DEF EditionsIInv, EditionRows
    <3>6. Connection
      BY <3>5 DEF Connection
    <3>. QED
      BY <3>1, <3>6
  <2>. QED
    BY <2>1, <2>2
<1>. QED
  BY <1>1, EditionsInvariant, PTL

-----------------------------------------------------------------------------
(* Types: the connections in use fit the pool, and what an edition sells is *)
(* there.                                                                   *)
PoolOK == IsFiniteSet(InUse) /\ Cardinality(InUse) =< pool
SoldOK == \A e \in skus : e.set \in SetNames /\ sets[e.set].exists

(* The set a request is about to sell is one by its name, and the edition   *)
(* it switches on is not a new one.                                         *)
Selling  == {"make", "member", "target"}
Spending == {"begun"} \union Locking
TargetOK(c) ==
    /\ sale[c].at \in Selling \/ (sale[c].at \in Spending /\ sale[c].sku = "new") =>
          sale[c].set \in SetNames
    /\ sale[c].at = "switch" => sale[c].sku \in Skus

StockOK == PoolOK /\ SoldOK /\ \A c \in Sellers : TargetOK(c)

LEMMA StockInit == EditionsInit => StockOK
<1>. SUFFICES ASSUME EditionsInit PROVE StockOK
  OBVIOUS
<1>1. \A c \in Sellers : sale[c] = Off
  BY DEF EditionsInit
<1>2. InUse = {} /\ \A c \in Sellers : TargetOK(c)
  BY <1>1 DEF Off, InUse, TargetOK, Selling, Spending, Locking
<1>3. PoolOK
  BY <1>2, FS_EmptySet, EditionsAssumption DEF PoolOK, EditionsInit
<1>4. SoldOK
  <2>1. PICK n \in SetNames :
          /\ \A e \in skus : e.set = n
          /\ sets = [m \in SetNames |->
                        IF m = n THEN [exists |-> TRUE, members |-> {}, rule |-> FALSE] ELSE NoSet]
    BY DEF EditionsInit
  <2>2. sets[n].exists
    BY <2>1
  <2>. QED
    BY <2>1, <2>2 DEF SoldOK
<1>. QED
  BY <1>2, <1>3, <1>4 DEF StockOK

(* One request goes on, on the connection it has or on a free one.          *)
LEMMA PoolMoves ==
    ASSUME EditionsIInv, StockOK, NEW c \in Sellers, NEW r, sale' = [sale EXCEPT ![c] = r],
           r.at \in Spending => sale[c].at \in Spending \/ Connection,
           r.at \in Selling \/ (r.at \in Spending /\ r.sku = "new") => r.set \in SetNames,
           r.at = "switch" => r.sku \in Skus,
           pool' = pool
    PROVE  PoolOK' /\ \A d \in Sellers : TargetOK(d)'
<1>1. sale'[c] = r /\ \A d \in Sellers \ {c} : sale'[d] = sale[d]
  BY DEF EditionsIInv
<1>2. \A d \in Sellers : TargetOK(d)'
  BY <1>1 DEF StockOK, TargetOK
<1>3. InUse = {d \in Sellers : sale[d].at \in Spending} /\ InUse' = {d \in Sellers : sale'[d].at \in Spending}
  BY DEF InUse, Spending, Locking
<1>4. CASE InUse' \subseteq InUse
  <2>1. IsFiniteSet(InUse') /\ Cardinality(InUse') =< Cardinality(InUse)
    BY <1>4, FS_Subset DEF StockOK, PoolOK
  <2>2. Cardinality(InUse) \in Nat /\ Cardinality(InUse') \in Nat /\ pool \in Nat
    BY <2>1, FS_CardinalityType, EditionsAssumption DEF StockOK, PoolOK, EditionsIInv, EditionRows
  <2>3. PoolOK'
    BY <2>1, <2>2 DEF StockOK, PoolOK
  <2>. QED
    BY <1>2, <2>3
<1>5. CASE ~ (InUse' \subseteq InUse)
  <2>1. InUse' = InUse \union {c} /\ c \notin InUse /\ Connection
    BY <1>1, <1>3, <1>5
  <2>2. IsFiniteSet(InUse') /\ Cardinality(InUse') = Cardinality(InUse) + 1
    BY <2>1, FS_AddElement DEF StockOK, PoolOK
  <2>3. Cardinality(InUse) \in Nat /\ pool \in Nat /\ Cardinality(InUse) < pool
    BY <2>1, FS_CardinalityType, EditionsAssumption
       DEF Connection, StockOK, PoolOK, EditionsIInv, EditionRows
  <2>4. PoolOK'
    BY <2>2, <2>3 DEF PoolOK
  <2>. QED
    BY <1>2, <2>4
<1>. QED
  BY <1>4, <1>5

LEMMA StockEnds ==
    ASSUME EditionsIInv, StockOK, NEW c \in Sellers, sale' = [sale EXCEPT ![c] = Off], pool' = pool
    PROVE  PoolOK' /\ \A d \in Sellers : TargetOK(d)'
<1>1. Off.at \notin Selling \union Spending /\ Off.at # "switch"
  BY DEF Off, Selling, Spending, Locking
<1>. QED
  BY <1>1, PoolMoves

LEMMA SetsSold ==
    ASSUME EditionsIInv, SoldOK, NEW n \in SetNames, NEW row, sets' = [sets EXCEPT ![n] = row],
           row.exists \/ \A e \in skus : e.set # n,
           \A e \in skus' : e.set \in {d.set : d \in skus}
    PROVE  SoldOK'
<1>1. sets'[n] = row /\ \A m \in SetNames \ {n} : sets'[m] = sets[m]
  BY DEF EditionsIInv, EditionRows
<1>. QED
  BY <1>1 DEF SoldOK

LEMMA TargetStock ==
    ASSUME EditionsIInv, StockOK, NEW c \in Sellers, EditionTarget(c), pool' = pool
    PROVE  StockOK'
<1>. USE DEF StockOK
<1>0. /\ \A n \in SetNames : sets[n] \in SetRow
      /\ sale[c].at \in Selling => sale[c] = [at |-> sale[c].at, set |-> sale[c].set, only |-> sale[c].only]
  BY DEF EditionsIInv, EditionRows, SaleOK, Selling
<1>1. CASE ChooseSet(c)
  <2>1. PICK n \in SetNames : sale' = [sale EXCEPT ![c] = [at |-> "target", set |-> n, only |-> {}]]
    BY <1>1 DEF ChooseSet, Opens, ListPackageSets
  <2>. DEFINE r == [at |-> "target", set |-> n, only |-> {}]
  <2>2. r.at \notin Spending /\ r.at # "switch" /\ r.set \in SetNames
    BY DEF Spending, Locking
  <2>. HIDE DEF r
  <2>3. PoolOK' /\ \A d \in Sellers : TargetOK(d)'
    BY <2>1, <2>2, PoolMoves DEF r
  <2>4. SoldOK'
    BY <1>1 DEF ChooseSet, Catalogue, SoldOK
  <2>. QED
    BY <2>3, <2>4
<1>2. CASE SingletonFind(c)
  <2>1. PICK p \in Products :
          sale' = [sale EXCEPT ![c] = [at |-> IF sets[p].exists THEN "member" ELSE "make",
                                       set |-> p, only |-> {p}]]
    BY <1>2 DEF SingletonFind, Opens
  <2>. DEFINE r == [at |-> IF sets[p].exists THEN "member" ELSE "make", set |-> p, only |-> {p}]
  <2>2. r.at \notin Spending /\ r.at # "switch" /\ r.set \in SetNames
    BY EditionsAssumption DEF Spending, Locking
  <2>3. sale' = [sale EXCEPT ![c] = r]
    BY <2>1
  <2>. HIDE DEF r
  <2>4. PoolOK' /\ \A d \in Sellers : TargetOK(d)'
    BY <2>2, <2>3, PoolMoves
  <2>5. SoldOK'
    BY <1>2 DEF SingletonFind, SoldOK
  <2>. QED
    BY <2>4, <2>5
<1>3. ASSUME sale[c].at \in Selling, NEW at \in {"member", "target"},
             sale' = [sale EXCEPT ![c] = [sale[c] EXCEPT !.at = at]]
      PROVE  PoolOK' /\ \A d \in Sellers : TargetOK(d)'
  <2>. DEFINE r == [sale[c] EXCEPT !.at = at]
  <2>1. r.at = at /\ r.set = sale[c].set
    BY <1>0, <1>3
  <2>2. sale' = [sale EXCEPT ![c] = r]
    BY <1>3
  <2>3. sale[c].set \in SetNames
    BY <1>3 DEF TargetOK
  <2>. HIDE DEF r
  <2>4. r.at \notin Spending /\ r.at # "switch" /\ r.set \in SetNames
    BY <1>3, <2>1, <2>3 DEF Spending, Locking
  <2>. QED
    BY <2>2, <2>4, PoolMoves
<1>4. CASE SingletonMake(c)
  <2>1. CASE sets[sale[c].set].exists
    <3>1. sale' = [sale EXCEPT ![c] = Off] /\ UNCHANGED <<skus, sets>>
      BY <1>4, <2>1 DEF SingletonMake, Ends, Moves, Catalogue
    <3>. QED
      BY <3>1, StockEnds DEF SoldOK
  <2>2. CASE ~ sets[sale[c].set].exists
    <3>1. /\ sets' = [sets EXCEPT ![sale[c].set] = [NoSet EXCEPT !.exists = TRUE]] /\ skus' = skus
          /\ sale' = [sale EXCEPT ![c] = [sale[c] EXCEPT !.at = "member"]]
          /\ sale[c].at \in Selling
      BY <1>4, <2>2 DEF SingletonMake, Moves, Selling
    <3>2. sale[c].set \in SetNames
      BY <3>1 DEF TargetOK
    <3>3. [NoSet EXCEPT !.exists = TRUE].exists
      BY DEF NoSet
    <3>4. SoldOK'
      BY <3>1, <3>2, <3>3, SetsSold
    <3>. QED
      BY <1>3, <3>1, <3>4
  <2>. QED
    BY <2>1, <2>2
<1>5. CASE SingletonMember(c)
  <2>1. CASE ~ sets[sale[c].set].exists
    <3>1. sale' = [sale EXCEPT ![c] = Off] /\ UNCHANGED <<skus, sets>>
      BY <1>5, <2>1 DEF SingletonMember, Ends, Moves
    <3>. QED
      BY <3>1, StockEnds DEF SoldOK
  <2>2. CASE sets[sale[c].set].exists
    <3>1. /\ sets' = [sets EXCEPT ![sale[c].set].members = @ \union sale[c].only] /\ skus' = skus
          /\ sale' = [sale EXCEPT ![c] = [sale[c] EXCEPT !.at = "target"]]
          /\ sale[c].at \in Selling
      BY <1>5, <2>2 DEF SingletonMember, Moves, Selling
    <3>. DEFINE n == sale[c].set
                row == [sets[n] EXCEPT !.members = @ \union sale[c].only]
    <3>2. n \in SetNames /\ sets[n] \in SetRow
      BY <1>0, <3>1 DEF TargetOK
    <3>3. row.exists /\ sets' = [sets EXCEPT ![n] = row]
      BY <2>2, <3>1, <3>2 DEF SetRow
    <3>. HIDE DEF row
    <3>4. SoldOK'
      BY <3>1, <3>2, <3>3, SetsSold
    <3>. QED
      BY <1>3, <3>1, <3>4
  <2>. QED
    BY <2>1, <2>2
<1>. QED
  BY <1>1, <1>2, <1>4, <1>5 DEF EditionTarget, SingletonSet

LEMMA TransactionStock ==
    ASSUME EditionsIInv, StockOK, NEW c \in Sellers, pool' = pool,
           EditionTransaction(c) \/ ReactivateOpen(c) \/ ReactivateEdition(c)
    PROVE  StockOK'
<1>. USE DEF StockOK
<1>0. /\ sale[c].at \in {"begun", "locked"} =>
            sale[c] = [at |-> sale[c].at, sku |-> sale[c].sku, set |-> sale[c].set, only |-> sale[c].only]
      /\ sale[c].at \in {"capped", "write"} =>
            sale[c] = [at |-> sale[c].at, sku |-> sale[c].sku, set |-> sale[c].set,
                       only |-> sale[c].only, cap |-> sale[c].cap]
      /\ \A e \in skus : EditionRow(e)
  BY DEF EditionsIInv, EditionRows, SaleOK
<1>1. ASSUME NEW r, sale[c].at \in Spending, sale' = [sale EXCEPT ![c] = r], UNCHANGED <<skus, sets>>,
             r.at \in Spending, r.sku = sale[c].sku, r.set = sale[c].set
      PROVE  StockOK'
  <2>1. r.at \notin Selling /\ r.at # "switch"
    BY <1>1 DEF Spending, Locking, Selling
  <2>2. r.sku = "new" => r.set \in SetNames
    BY <1>1 DEF TargetOK
  <2>3. PoolOK' /\ \A d \in Sellers : TargetOK(d)'
    BY <1>1, <2>1, <2>2, PoolMoves
  <2>. QED
    BY <1>1, <2>3 DEF SoldOK
<1>2. ASSUME sale' = [sale EXCEPT ![c] = Off], UNCHANGED <<skus, sets>> PROVE StockOK'
  BY <1>2, StockEnds DEF SoldOK
<1>3. CASE Begin(c)
  <2>. DEFINE r == IF sale[c].at = "target"
                   THEN [at |-> "begun", sku |-> "new", set |-> sale[c].set, only |-> sale[c].only]
                   ELSE [at |-> "begun", sku |-> sale[c].sku, set |-> "none", only |-> {}]
  <2>1. /\ sale' = [sale EXCEPT ![c] = r] /\ Connection /\ UNCHANGED <<skus, sets>>
        /\ sale[c].at \in {"target", "switch"}
    BY <1>3 DEF Begin, Moves, Catalogue
  <2>2. r.at = "begun" /\ (r.sku = "new" => r.set \in SetNames)
    BY <2>1, EditionsAssumption DEF TargetOK, Selling
  <2>. HIDE DEF r
  <2>3. PoolOK' /\ \A d \in Sellers : TargetOK(d)'
    BY <2>1, <2>2, PoolMoves DEF Selling
  <2>. QED
    BY <2>1, <2>3 DEF SoldOK
<1>4. CASE TakeLock(c) \/ RequireSkuCapacity(c)
  <2>1. PICK at \in Locking : sale' = [sale EXCEPT ![c] = [sale[c] EXCEPT !.at = at]]
    BY <1>4 DEF TakeLock, RequireSkuCapacity, Moves, Locking
  <2>. DEFINE r == [sale[c] EXCEPT !.at = at]
  <2>2. sale[c].at \in {"begun", "capped"} /\ UNCHANGED <<skus, sets>>
    BY <1>4 DEF TakeLock, RequireSkuCapacity, Catalogue
  <2>3. r.at = at /\ r.sku = sale[c].sku /\ r.set = sale[c].set
    BY <1>0, <2>2
  <2>4. sale' = [sale EXCEPT ![c] = r]
    BY <2>1
  <2>. HIDE DEF r
  <2>. QED
    BY <1>1, <2>2, <2>3, <2>4 DEF Spending, Locking
<1>5. CASE ReadCap(c)
  <2>. DEFINE r == [at |-> "capped", sku |-> sale[c].sku, set |-> sale[c].set, only |-> sale[c].only,
                    cap |-> Entitlements.cap]
  <2>1. sale' = [sale EXCEPT ![c] = r] /\ sale[c].at = "locked" /\ UNCHANGED <<skus, sets>>
    BY <1>5 DEF ReadCap, Moves, Catalogue
  <2>2. r.at = "capped" /\ r.sku = sale[c].sku /\ r.set = sale[c].set
    OBVIOUS
  <2>. HIDE DEF r
  <2>. QED
    BY <1>1, <2>1, <2>2 DEF Spending, Locking
<1>6. CASE Refuse(c) \/ PoolTimedOut(c)
  BY <1>2, <1>6 DEF Refuse, PoolTimedOut, Ends, Moves, Catalogue
<1>7. CASE CreateEdition(c)
  <2>1. sale' = [sale EXCEPT ![c] = Off] /\ sets' = sets
    BY <1>7 DEF CreateEdition, Ends, Moves
  <2>2. CASE skus' = skus
    BY <1>2, <2>1, <2>2
  <2>3. CASE skus' # skus
    <3>1. sets[sale[c].set].exists /\ sale[c].at = "write" /\ sale[c].sku = "new"
      BY <1>7, <2>3 DEF CreateEdition
    <3>2. sale[c].set \in SetNames
      BY <3>1 DEF TargetOK, Spending, Locking
    <3>3. \A e \in skus' : e \in skus \/ e.set = sale[c].set
      BY <1>7, <2>3 DEF CreateEdition
    <3>4. SoldOK'
      BY <2>1, <3>1, <3>2, <3>3 DEF SoldOK
    <3>. QED
      BY <2>1, <3>4, StockEnds
  <2>. QED
    BY <2>2, <2>3
<1>8. CASE ReactivateOpen(c)
  <2>1. PICK e \in skus : sale' = [sale EXCEPT ![c] = [at |-> "switch", sku |-> e.id]]
    BY <1>8 DEF ReactivateOpen, Opens
  <2>. DEFINE r == [at |-> "switch", sku |-> e.id]
  <2>2. r.at = "switch" /\ r.sku \in Skus
    BY <1>0, <2>1 DEF EditionRow
  <2>3. sale' = [sale EXCEPT ![c] = r]
    BY <2>1
  <2>. HIDE DEF r
  <2>4. PoolOK' /\ \A d \in Sellers : TargetOK(d)'
    BY <2>2, <2>3, PoolMoves DEF Selling, Spending, Locking
  <2>5. SoldOK'
    BY <1>8 DEF ReactivateOpen, Catalogue, SoldOK
  <2>. QED
    BY <2>4, <2>5
<1>9. CASE ReactivateEdition(c)
  <2>1. /\ sale' = [sale EXCEPT ![c] = Off] /\ sets' = sets
        /\ skus' = {IF e.id = sale[c].sku THEN [e EXCEPT !.active = TRUE] ELSE e : e \in skus}
    BY <1>9 DEF ReactivateEdition, Ends, Moves
  <2>2. \A e \in skus : [e EXCEPT !.active = TRUE].set = e.set
    BY <1>0 DEF EditionRow
  <2>3. \A d \in skus' : \E e \in skus : d.set = e.set
    BY <2>1, <2>2
  <2>4. SoldOK'
    BY <2>1, <2>3 DEF SoldOK
  <2>. QED
    BY <2>1, <2>4, StockEnds
<1>. QED
  BY <1>3, <1>4, <1>5, <1>6, <1>7, <1>8, <1>9 DEF EditionTransaction, RequireSkuCapacityTx

LEMMA QuickStock ==
    ASSUME EditionsIInv, StockOK, NEW c \in Sellers, pool' = pool,
           DeactivateEdition(c) \/ DeleteEdition(c) \/ EntitlementsCommand(c) \/ EditSets(c)
    PROVE  StockOK'
<1>. USE DEF StockOK
<1>1. sale' = [sale EXCEPT ![c] = Off]
  BY DEF DeactivateEdition, DeleteEdition, EntitlementsCommand, SetOrgEntitlements, ClearOrgEntitlements,
     EditSets, CreatePackageSet, DeletePackageSet, AddSetMember, RemoveSetMember, AddSetRule, RemoveSetRule,
     Opens
<1>2. SoldOK' => StockOK'
  BY <1>1, StockEnds
<1>3. CASE DeactivateEdition(c)
  <2>1. PICK e \in skus : skus' = (skus \ {e}) \union {[e EXCEPT !.active = FALSE]} /\ sets' = sets
    BY <1>3 DEF DeactivateEdition
  <2>2. [e EXCEPT !.active = FALSE].set = e.set
    BY DEF EditionsIInv, EditionRows, EditionRow
  <2>. QED
    BY <1>2, <2>1, <2>2 DEF SoldOK
<1>4. CASE DeleteEdition(c) \/ EntitlementsCommand(c)
  <2>1. skus' \subseteq skus /\ sets' = sets
    BY <1>4 DEF DeleteEdition, EntitlementsCommand, SetOrgEntitlements, ClearOrgEntitlements
  <2>. QED
    BY <1>2, <2>1 DEF SoldOK
<1>5. CASE EditSets(c)
  <2>1. \A n \in SetNames : sets[n] \in SetRow
    BY DEF EditionsIInv, EditionRows
  <2>2. /\ skus' = skus
        /\ \E n \in SetNames : \E row :
              /\ sets' = [sets EXCEPT ![n] = row]
              /\ (row.exists \/ \A e \in skus : e.set # n)
    <3>1. CASE CreatePackageSet(c)
      <4>1. [NoSet EXCEPT !.exists = TRUE].exists
        BY DEF NoSet
      <4>. QED
        BY <3>1, <4>1 DEF CreatePackageSet
    <3>2. CASE DeletePackageSet(c)
      BY <3>2 DEF DeletePackageSet, ListPackageSets
    <3>3. CASE AddSetMember(c) \/ RemoveSetMember(c)
      <4>1. PICK n \in ListPackageSets : \E members : sets' = [sets EXCEPT ![n].members = members]
        BY <3>3 DEF AddSetMember, RemoveSetMember
      <4>. PICK members : sets' = [sets EXCEPT ![n].members = members]
        BY <4>1
      <4>. DEFINE row == [sets[n] EXCEPT !.members = members]
      <4>2. n \in SetNames /\ row.exists /\ sets' = [sets EXCEPT ![n] = row]
        BY <2>1, <4>1 DEF ListPackageSets, SetRow
      <4>3. skus' = skus
        BY <3>3 DEF AddSetMember, RemoveSetMember
      <4>. HIDE DEF row
      <4>. QED
        BY <4>2, <4>3
    <3>4. CASE AddSetRule(c) \/ RemoveSetRule(c)
      <4>1. PICK n \in ListPackageSets : \E rule : sets' = [sets EXCEPT ![n].rule = rule]
        BY <3>4 DEF AddSetRule, RemoveSetRule
      <4>. PICK rule : sets' = [sets EXCEPT ![n].rule = rule]
        BY <4>1
      <4>. DEFINE row == [sets[n] EXCEPT !.rule = rule]
      <4>2. n \in SetNames /\ row.exists /\ sets' = [sets EXCEPT ![n] = row]
        BY <2>1, <4>1 DEF ListPackageSets, SetRow
      <4>3. skus' = skus
        BY <3>4 DEF AddSetRule, RemoveSetRule
      <4>. HIDE DEF row
      <4>. QED
        BY <4>2, <4>3
    <3>. QED
      BY <1>5, <3>1, <3>2, <3>3, <3>4 DEF EditSets
  <2>3. SoldOK'
    BY <2>2, SetsSold
  <2>. QED
    BY <1>2, <2>3
<1>. QED
  BY <1>3, <1>4, <1>5

LEMMA NextStockOK == EditionsIInv /\ StockOK /\ [EditionsNext]_editions => StockOK'
<1>. SUFFICES ASSUME EditionsIInv, StockOK, [EditionsNext]_editions PROVE StockOK'
  OBVIOUS
<1>1. CASE UNCHANGED editions
  BY <1>1 DEF editions, StockOK, PoolOK, SoldOK, TargetOK, InUse
<1>2. CASE EditionsNext
  BY <1>2, TargetStock, TransactionStock, QuickStock DEF EditionsNext, EditionCreate, SetEditionActive
<1>. QED
  BY <1>1, <1>2

(* Whatever requests overlap: transactions hold no more connections than    *)
(* the pool has, the lock is a transaction's that asked for it, and no      *)
(* edition sells a set that was deleted meanwhile (the foreign key, and     *)
(* delete_package_set's question).                                          *)
THEOREM EditionsTypesCorrect == EditionsSpec => []EditionsTypes
<1>1. EditionsIInv /\ StockOK => EditionsTypes
  BY DEF EditionsIInv, EditionRows, EditionRow, LockOK, Locking, StockOK, PoolOK, SoldOK, EditionsTypes
<1>2. EditionsSpec => []StockOK
  BY StockInit, NextStockOK, EditionsInvariant, PTL DEF EditionsSpec
<1>. QED
  BY <1>1, <1>2, EditionsInvariant, PTL

-----------------------------------------------------------------------------
(* Tokens.                                                                  *)

TokenFields == {"id", "kind", "for", "origin", "left", "override", "was"}
Limits      == Days \union {Forever}

(* Settings of both levels under which a token may have so many days left.  *)
Allows(rule, left) ==
    /\ rule.whole.raw /\ rule.own.raw # "deny"
    /\ \A max \in {rule.whole.max, rule.own.max} \ {Forever} :
          max \in Nat /\ IF left = Forever THEN FALSE ELSE left =< max

(* A policy that answers a workload's exchange.                             *)
Answers(policy, jwt, capability) ==
    ValidateJwt(jwt, policy) /\ ClaimsMatch(jwt, policy) /\ policy.capability = capability

TokenOK(t) ==
    /\ DOMAIN t = TokenFields
    /\ t.left \in Nat \union {Forever}
    /\ t.kind = "read" /\ t.origin = "manual" => \E rule \in t.was : Allows(rule, t.left)
    /\ t.origin = "ci" =>
          \E w \in t.was :
             /\ Answers(w.policy, w.jwt, t.kind)
             /\ \/ t.for = "org" /\ w.policy.scope = "org"
                \/ t.for = w.policy.repo /\ t.for \in Places

(* What a request remembers stood when it was read, and is still noted.     *)
RequestOK(q) ==
    LET r == request[q] IN
    /\ r.at = "token" => /\ r.days \in Limits
                         /\ \E rule \in rules[q] : Allows(rule, r.days)
    /\ r.at = "exchange" => /\ r.repo \in Places
                            /\ \A i \in DOMAIN r.list : r.list[i] \in offers[q] /\ r.list[i].repo = r.repo
    /\ r.at = "mint" => /\ r.repo \in Places
                        /\ \E x \in offers[q] : /\ Answers(x, r.jwt, r.capability)
                                                /\ x.repo = r.repo /\ x.scope = r.scope
    /\ r.at = "org_settings" => r.rule \in Rules

RulesOK == places \subseteq Places /\ orgRule \in Rules /\ repoRule \in [Places -> Overrides]

TokensIInv ==
    /\ RulesOK /\ DOMAIN request = Requests
    /\ \A t \in tokens : TokenOK(t)
    /\ \A q \in Requests : RequestOK(q)

LEMMA TokensInitIInv == TokensInit => TokensIInv
<1>. SUFFICES ASSUME TokensInit PROVE TokensIInv
  OBVIOUS
<1>1. places = Places /\ tokens = {} /\ DOMAIN request = Requests
      /\ (\A q \in Requests : request[q] = NoRequest) /\ repoRule = [p \in Places |-> Inherit]
  BY DEF TokensInit
<1>2. orgRule \in Rules
  BY DEF TokensInit
<1>3. Inherit \in Overrides
  BY DEF Inherit, Overrides
<1>4. \A q \in Requests : RequestOK(q)
  BY <1>1 DEF RequestOK, NoRequest
<1>. QED
  BY <1>1, <1>2, <1>3, <1>4 DEF TokensIInv, RulesOK

(* A request that does not move keeps what it read.                         *)
LEMMA RequestKept ==
    ASSUME TokensIInv, NEW d \in Requests, request'[d] = request[d], Noted
    PROVE  RequestOK(d)'
<1>1. RequestOK(d)
  BY DEF TokensIInv
<1>2. request[d].at = "token" => rules[d] \subseteq rules'[d]
  BY DEF Noted
<1>3. request[d].at \in {"exchange", "mint"} => offers[d] \subseteq offers'[d]
  BY DEF Noted
<1>. QED
  BY <1>1, <1>2, <1>3 DEF RequestOK

LEMMA RequestMoves ==
    ASSUME TokensIInv, RulesOK', NEW q \in Requests, NEW k, request' = [request EXCEPT ![q] = k],
           Noted, request'[q] = k => RequestOK(q)', \A t \in tokens' : TokenOK(t)
    PROVE  TokensIInv'
<1>1. DOMAIN request' = Requests /\ request'[q] = k
      /\ \A d \in Requests : d # q => request'[d] = request[d]
  BY DEF TokensIInv
<1>2. \A d \in Requests : RequestOK(d)'
  BY <1>1, RequestKept
<1>. QED
  BY <1>1, <1>2 DEF TokensIInv, TokenOK

LEMMA RequestEnds ==
    ASSUME TokensIInv, RulesOK', NEW q \in Requests, request' = [request EXCEPT ![q] = NoRequest],
           Noted, \A t \in tokens' : TokenOK(t)
    PROVE  TokensIInv'
<1>1. request'[q] = NoRequest => RequestOK(q)'
  BY DEF RequestOK, NoRequest
<1>. QED
  BY <1>1, RequestMoves

LEMMA PoliciesKept == ASSUME TokensIInv, UNCHANGED Policies PROVE RulesOK'
BY DEF TokensIInv, RulesOK, Policies

-----------------------------------------------------------------------------
(* Tokens made by hand.                                                     *)
LEMMA MinCapFacts ==
    ASSUME NEW a \in Limits, NEW b \in Limits, NEW max \in {a, b} \ {Forever}
    PROVE  MinCap(a, b) # Forever /\ MinCap(a, b) \in Nat /\ MinCap(a, b) =< max
<1>1. Limits \subseteq Nat \union {Forever} /\ Forever \notin Nat
  BY TokensAssumption DEF Limits
<1>2. CASE a = Forever \/ b = Forever
  BY <1>1, <1>2 DEF MinCap
<1>3. CASE a # Forever /\ b # Forever
  <2>1. a \in Nat /\ b \in Nat
    BY <1>1, <1>3
  <2>. QED
    BY <1>1, <1>3, <2>1 DEF MinCap
<1>. QED
  BY <1>2, <1>3

LEMMA EffectiveAllows ==
    ASSUME NEW o \in Rules, NEW r \in Overrides, NEW days \in Limits, Permits(Effective(o, r), days)
    PROVE  Allows([whole |-> o, own |-> r], days)
<1>1. o.max \in Limits /\ r.max \in Limits /\ Days \subseteq Nat /\ Forever \notin Nat
  BY TokensAssumption DEF Rules, Overrides, Limits
<1>2. o.raw /\ r.raw # "deny"
  BY DEF Permits, Effective
<1>3. MinCap(o.max, r.max) # Forever =>
        IF days = Forever THEN FALSE ELSE days =< MinCap(o.max, r.max)
  BY DEF Permits, Effective
<1>4. ASSUME NEW max \in {o.max, r.max} \ {Forever}
      PROVE  max \in Nat /\ IF days = Forever THEN FALSE ELSE days =< max
  <2>1. max \in Nat
    BY <1>1, <1>4 DEF Limits
  <2>2. MinCap(o.max, r.max) # Forever /\ MinCap(o.max, r.max) \in Nat
        /\ MinCap(o.max, r.max) =< max
    BY <1>1, <1>4, <2>1, MinCapFacts
  <2>3. CASE days = Forever
    BY <1>3, <2>2, <2>3
  <2>4. CASE days # Forever
    <3>1. days \in Nat /\ days =< MinCap(o.max, r.max)
      BY <1>1, <1>3, <2>2, <2>4 DEF Limits
    <3>. QED
      BY <2>1, <2>2, <2>4, <3>1
  <2>. QED
    BY <2>3, <2>4
<1>. QED
  BY <1>2, <1>4 DEF Allows

LEMMA CreateTokenCheckStep ==
    ASSUME TokensIInv, NEW q \in Requests, CreateTokenCheck(q), Noted
    PROVE  TokensIInv'
<1>1. PICK p \in places, days \in Limits :
        /\ Permits(EffectiveTokenPolicy(p), days)
        /\ Asks(q, [at |-> "token", repo |-> p, days |-> days])
  BY DEF CreateTokenCheck, Limits
<1>2. UNCHANGED <<places, orgRule, repoRule, ci, tokens>> /\ RulesOK
  BY DEF CreateTokenCheck, Policies, TokensIInv
<1>. DEFINE k == [at |-> "token", repo |-> p, days |-> days]
<1>3. request' = [request EXCEPT ![q] = k]
  BY <1>1 DEF Asks
<1>4. ASSUME request'[q] = k PROVE RequestOK(q)'
  <2>1. [whole |-> orgRule, own |-> repoRule[p]] \in rules'[q]
    BY <1>2, <1>4 DEF Noted
  <2>2. Allows([whole |-> orgRule, own |-> repoRule[p]], days)
    BY <1>1, <1>2, EffectiveAllows DEF RulesOK, EffectiveTokenPolicy
  <2>. QED
    BY <1>4, <2>1, <2>2 DEF RequestOK
<1>5. RulesOK' /\ \A t \in tokens' : TokenOK(t)
  BY <1>2 DEF RulesOK, TokensIInv
<1>. HIDE DEF k
<1>. QED
  BY <1>3, <1>4, <1>5, RequestMoves

(* A new token is as good as what it witnesses.                             *)
LEMMA Inserted ==
    ASSUME TokensIInv, NEW q \in Requests, request' = [request EXCEPT ![q] = NoRequest], Noted,
           UNCHANGED Policies, NEW kind, NEW for, NEW origin, NEW left \in Nat \union {Forever},
           NEW was, Insert(kind, for, origin, left, was),
           kind = "read" /\ origin = "manual" => \E rule \in was : Allows(rule, left),
           origin = "ci" =>
              \E w \in was : /\ Answers(w.policy, w.jwt, kind)
                             /\ \/ for = "org" /\ w.policy.scope = "org"
                                \/ for = w.policy.repo /\ for \in Places
    PROVE  TokensIInv'
<1>. DEFINE t == [id |-> minted, kind |-> kind, for |-> for, origin |-> origin,
                  left |-> left, override |-> "inherit", was |-> was]
<1>1. tokens' = tokens \union {t}
  BY DEF Insert
<1>2. /\ t.kind = kind /\ t.for = for /\ t.origin = origin /\ t.left = left /\ t.was = was
      /\ DOMAIN t = TokenFields
  BY DEF TokenFields
<1>. HIDE DEF t
<1>3. TokenOK(t)
  BY <1>2 DEF TokenOK
<1>4. \A x \in tokens' : TokenOK(x)
  BY <1>1, <1>3 DEF TokensIInv
<1>. QED
  BY <1>4, RequestEnds, PoliciesKept

LEMMA InsertedByHand ==
    ASSUME TokensIInv, NEW q \in Requests, request' = [request EXCEPT ![q] = NoRequest], Noted,
           UNCHANGED Policies, NEW kind, NEW for, NEW origin \in {"manual", "session"},
           NEW left \in Nat \union {Forever}, NEW was, Insert(kind, for, origin, left, was),
           \/ kind = "service" \/ origin = "session" \/ \E rule \in was : Allows(rule, left)
    PROVE  TokensIInv'
<1>1. origin # "ci" /\ (kind = "read" /\ origin = "manual" => \E rule \in was : Allows(rule, left))
  OBVIOUS
<1>. QED
  BY <1>1, Inserted

LEMMA NoneInserted ==
    ASSUME TokensIInv, NEW q \in Requests, request' = [request EXCEPT ![q] = NoRequest], Noted,
           UNCHANGED Policies, tokens' = tokens
    PROVE  TokensIInv'
BY RequestEnds, PoliciesKept DEF TokensIInv

LEMMA DaysFacts == Days \subseteq Nat /\ Limits \subseteq Nat \union {Forever}
BY TokensAssumption DEF Limits

LEMMA CreateTokenStep ==
    ASSUME TokensIInv, NEW q \in Requests, CreateToken(q), Noted
    PROVE  TokensIInv'
<1>1. request' = [request EXCEPT ![q] = NoRequest] /\ UNCHANGED Policies /\ RequestOK(q)
      /\ request[q].at = "token"
  BY DEF CreateToken, Done, TokensIInv
<1>2. request[q].days \in Nat \union {Forever} /\ \E rule \in rules[q] : Allows(rule, request[q].days)
  BY <1>1, DaysFacts DEF RequestOK
<1>3. CASE request[q].repo \in places
  <2>1. Insert("read", request[q].repo, "manual", request[q].days, rules[q])
    BY <1>3 DEF CreateToken
  <2>. QED
    BY <1>1, <1>2, <2>1, InsertedByHand
<1>4. CASE request[q].repo \notin places
  BY <1>1, <1>4, NoneInserted DEF CreateToken
<1>. QED
  BY <1>3, <1>4

LEMMA OtherTokenStep ==
    ASSUME TokensIInv, NEW q \in Requests, CreateServiceToken(q) \/ CreateSessionToken(q), Noted
    PROVE  TokensIInv'
<1>1. CASE CreateServiceToken(q)
  <2>1. PICK p \in places, days \in Limits : AtOnce(q) /\ Insert("service", p, "manual", days, {})
    BY <1>1 DEF CreateServiceToken, Limits
  <2>2. request' = [request EXCEPT ![q] = NoRequest] /\ UNCHANGED Policies
        /\ days \in Nat \union {Forever}
    BY <1>1, <2>1, DaysFacts DEF CreateServiceToken, AtOnce, Asks
  <2>. QED
    BY <2>1, <2>2, InsertedByHand
<1>2. CASE CreateSessionToken(q)
  <2>1. PICK days \in Days : AtOnce(q) /\ Insert("read", "org", "session", days, {})
    BY <1>2 DEF CreateSessionToken
  <2>2. request' = [request EXCEPT ![q] = NoRequest] /\ UNCHANGED Policies
        /\ days \in Nat \union {Forever}
    BY <1>2, <2>1, DaysFacts DEF CreateSessionToken, AtOnce, Asks
  <2>. QED
    BY <2>1, <2>2, InsertedByHand
<1>. QED
  BY <1>1, <1>2

-----------------------------------------------------------------------------
(* Tokens for a workload.                                                   *)
LEMMA OauthCiStep ==
    ASSUME TokensIInv, NEW q \in Requests, OauthCi(q), Noted
    PROVE  TokensIInv'
<1>1. PICK p \in places, i \in Issuers, w \in Workloads, c \in {"read", "publish"} :
        Asks(q, [at |-> "exchange", repo |-> p, jwt |-> [issuer |-> i, subject |-> w],
                 capability |-> c, list |-> CiPolicies(p)])
  BY DEF OauthCi
<1>2. UNCHANGED <<places, orgRule, repoRule, ci, tokens>> /\ RulesOK
  BY DEF OauthCi, Policies, TokensIInv
<1>. DEFINE k == [at |-> "exchange", repo |-> p, jwt |-> [issuer |-> i, subject |-> w],
                  capability |-> c, list |-> CiPolicies(p)]
<1>3. request' = [request EXCEPT ![q] = k]
  BY <1>1 DEF Asks
<1>4. ASSUME request'[q] = k PROVE RequestOK(q)'
  <2>1. k.at = "exchange" /\ k.list = CiPolicies(p) /\ k.repo = p
    OBVIOUS
  <2>2. {ci[j] : j \in DOMAIN ci} \subseteq offers'[q]
    BY <1>2, <1>4, <2>1 DEF Noted
  <2>. HIDE DEF k
  <2>3. \A j \in DOMAIN k.list : k.list[j] \in offers'[q] /\ k.list[j].repo = k.repo
    BY <2>1, <2>2 DEF CiPolicies
  <2>. QED
    BY <1>2, <1>4, <2>1, <2>3 DEF RequestOK, RulesOK
<1>5. RulesOK' /\ \A t \in tokens' : TokenOK(t)
  BY <1>2 DEF RulesOK, TokensIInv
<1>. HIDE DEF k
<1>. QED
  BY <1>3, <1>4, <1>5, RequestMoves

LEMMA CiMatchedStep ==
    ASSUME TokensIInv, NEW q \in Requests, CiMatched(q), Noted
    PROVE  TokensIInv'
<1>. DEFINE r == request[q]
<1>1. /\ r.at = "exchange" /\ RequestOK(q) /\ UNCHANGED Policies /\ tokens' = tokens
  BY DEF CiMatched, TokensIInv
<1>2. PICK down \in SUBSET Issuers :
        \/ request' = [request EXCEPT ![q] = NoRequest]
        \/ \E i \in CiMatch(r.list, r.jwt, r.capability, down) :
              request' = [request EXCEPT ![q] =
                    [at |-> "mint", repo |-> r.repo, capability |-> r.capability,
                     jwt |-> r.jwt, scope |-> r.list[i].scope]]
  BY DEF CiMatched
<1>3. RulesOK' /\ \A t \in tokens' : TokenOK(t)
  BY <1>1, PoliciesKept DEF TokensIInv
<1>4. CASE request' = [request EXCEPT ![q] = NoRequest]
  BY <1>3, <1>4, RequestEnds
<1>5. ASSUME NEW i \in CiMatch(r.list, r.jwt, r.capability, down),
             request' = [request EXCEPT ![q] =
                    [at |-> "mint", repo |-> r.repo, capability |-> r.capability,
                     jwt |-> r.jwt, scope |-> r.list[i].scope]]
      PROVE  TokensIInv'
  <2>. DEFINE k == [at |-> "mint", repo |-> r.repo, capability |-> r.capability,
                    jwt |-> r.jwt, scope |-> r.list[i].scope]
  <2>1. request' = [request EXCEPT ![q] = k]
    BY <1>5
  <2>2. /\ k.at = "mint" /\ k.repo = r.repo /\ k.capability = r.capability /\ k.jwt = r.jwt
        /\ k.scope = r.list[i].scope
    OBVIOUS
  <2>. HIDE DEF k
  <2>3. /\ r.list[i] \in offers[q] /\ r.list[i].repo = r.repo /\ r.repo \in Places
        /\ Answers(r.list[i], r.jwt, r.capability)
    BY <1>1, <1>5 DEF RequestOK, CiMatch, Answers
  <2>4. ASSUME request'[q] = k PROVE RequestOK(q)'
    <3>1. r.list[i] \in offers'[q]
      BY <2>2, <2>3, <2>4 DEF Noted
    <3>. QED
      BY <2>2, <2>3, <2>4, <3>1 DEF RequestOK
  <2>. QED
    BY <1>3, <2>1, <2>4, RequestMoves
<1>. QED
  BY <1>2, <1>4, <1>5

LEMMA CiTokenStep ==
    ASSUME TokensIInv, NEW q \in Requests, Noted,
           CreateOrgCiToken(q) \/ CreateCiToken(q) \/ CreatePublishToken(q)
    PROVE  TokensIInv'
<1>. DEFINE r == request[q]
<1>1. /\ r.at = "mint" /\ request' = [request EXCEPT ![q] = NoRequest] /\ UNCHANGED Policies
      /\ RequestOK(q)
  BY DEF CreateOrgCiToken, CreateCiToken, CreatePublishToken, Done, TokensIInv
<1>2. PICK x \in offers[q] : Answers(x, r.jwt, r.capability) /\ x.repo = r.repo /\ x.scope = r.scope
  BY <1>1 DEF RequestOK
<1>3. PICK w \in Witness(q) : w.policy = x /\ w.jwt = r.jwt
  <2>. DEFINE y == [policy |-> x, jwt |-> r.jwt]
  <2>1. y \in Witness(q)
    BY DEF Witness
  <2>2. y.policy = x /\ y.jwt = r.jwt
    OBVIOUS
  <2>. HIDE DEF y
  <2>. QED
    BY <2>1, <2>2
<1>4. r.repo \in Places /\ Days \subseteq Nat \union {Forever}
  BY <1>1, DaysFacts DEF RequestOK
<1>5. CASE r.repo \notin places
  <2>1. tokens' = tokens
    BY <1>5 DEF CreateOrgCiToken, CreateCiToken, CreatePublishToken
  <2>. QED
    BY <1>1, <2>1, NoneInserted
<1>6. CASE CreateOrgCiToken(q) /\ r.repo \in places
  <2>1. PICK days \in Days : Insert("read", "org", "ci", days, Witness(q))
    BY <1>6 DEF CreateOrgCiToken
  <2>2. Answers(w.policy, w.jwt, "read") /\ w.policy.scope = "org"
    BY <1>2, <1>3, <1>6 DEF CreateOrgCiToken
  <2>. QED
    BY <1>1, <1>4, <2>1, <2>2, Inserted
<1>7. CASE CreateCiToken(q) /\ r.repo \in places
  <2>1. PICK days \in Days : Insert("read", r.repo, "ci", days, Witness(q))
    BY <1>7 DEF CreateCiToken
  <2>2. Answers(w.policy, w.jwt, "read") /\ r.repo = w.policy.repo
    BY <1>2, <1>3, <1>7 DEF CreateCiToken
  <2>. QED
    BY <1>1, <1>4, <2>1, <2>2, Inserted
<1>8. CASE CreatePublishToken(q) /\ r.repo \in places
  <2>1. PICK days \in Days : Insert("publish", r.repo, "ci", days, Witness(q))
    BY <1>8 DEF CreatePublishToken
  <2>2. Answers(w.policy, w.jwt, "publish") /\ r.repo = w.policy.repo
    BY <1>2, <1>3, <1>8 DEF CreatePublishToken
  <2>. QED
    BY <1>1, <1>4, <2>1, <2>2, Inserted
<1>. QED
  BY <1>5, <1>6, <1>7, <1>8

-----------------------------------------------------------------------------
(* Settings, CI policies, and what is done with tokens.                     *)
LEMMA SettingsStep ==
    ASSUME TokensIInv, NEW q \in Requests, Noted,
           SetOrgSettings(q) \/ OrgSettings(q) \/ SetRepoSettings(q)
    PROVE  TokensIInv'
<1>1. RulesOK /\ RequestOK(q) /\ \A t \in tokens : TokenOK(t)
  BY DEF TokensIInv
<1>2. CASE SetOrgSettings(q)
  <2>1. RulesOK' /\ request' = [request EXCEPT ![q] = NoRequest] /\ tokens' = tokens
    BY <1>1, <1>2 DEF SetOrgSettings, AtOnce, Asks, RulesOK
  <2>. QED
    BY <1>1, <2>1, RequestEnds
<1>3. CASE OrgSettingsRead(q)
  <2>1. PICK raw \in BOOLEAN :
          Asks(q, [at |-> "org_settings", rule |-> [orgRule EXCEPT !.raw = raw]])
    BY <1>3 DEF OrgSettingsRead
  <2>. DEFINE k == [at |-> "org_settings", rule |-> [orgRule EXCEPT !.raw = raw]]
  <2>2. request' = [request EXCEPT ![q] = k] /\ tokens' = tokens /\ UNCHANGED Policies
    BY <1>3, <2>1 DEF OrgSettingsRead, Asks
  <2>3. [orgRule EXCEPT !.raw = raw] \in Rules
    BY <1>1 DEF RulesOK, Rules
  <2>4. request'[q] = k => RequestOK(q)'
    BY <2>3 DEF RequestOK
  <2>. HIDE DEF k
  <2>. QED
    BY <1>1, <2>2, <2>4, RequestMoves, PoliciesKept
<1>4. CASE OrgSettingsSave(q)
  <2>1. RulesOK' /\ request' = [request EXCEPT ![q] = NoRequest] /\ tokens' = tokens
    BY <1>1, <1>4 DEF OrgSettingsSave, Done, RulesOK, RequestOK
  <2>. QED
    BY <1>1, <2>1, RequestEnds
<1>5. CASE SetRepoSettings(q)
  <2>1. RulesOK' /\ request' = [request EXCEPT ![q] = NoRequest] /\ tokens' = tokens
    BY <1>1, <1>5 DEF SetRepoSettings, AtOnce, Asks, RulesOK
  <2>. QED
    BY <1>1, <2>1, RequestEnds
<1>. QED
  BY <1>2, <1>3, <1>4, <1>5 DEF OrgSettings

LEMMA CiPolicyStep ==
    ASSUME TokensIInv, NEW q \in Requests, Noted, CiPolicy(q) \/ DeletePlace(q)
    PROVE  TokensIInv'
<1>1. RulesOK /\ \A t \in tokens : TokenOK(t)
  BY DEF TokensIInv
<1>2. /\ request' = [request EXCEPT ![q] = NoRequest] /\ UNCHANGED <<orgRule, repoRule>>
      /\ places' \subseteq places /\ tokens' \subseteq tokens
  BY DEF CiPolicy, AddCiPolicy, DeleteCiPolicy, DeletePlace, AtOnce, Asks
<1>. QED
  BY <1>1, <1>2, RequestEnds DEF RulesOK

LEMMA SetTokenPolicyStep ==
    ASSUME TokensIInv, NEW q \in Requests, Noted, SetTokenPolicy(q)
    PROVE  TokensIInv'
<1>1. PICK p \in places : \E t \in ListTokens(p), o \in {"manual", "inherit"} :
        tokens' = (tokens \ {t}) \union {[t EXCEPT !.override = o]}
  BY DEF SetTokenPolicy
<1>2. PICK t \in ListTokens(p), o \in {"manual", "inherit"} :
        tokens' = (tokens \ {t}) \union {[t EXCEPT !.override = o]}
  BY <1>1
<1>. DEFINE u == [t EXCEPT !.override = o]
<1>3. TokenOK(t)
  BY DEF ListTokens, TokensIInv
<1>4. /\ DOMAIN u = TokenFields /\ u.left = t.left /\ u.kind = t.kind /\ u.origin = t.origin
      /\ u.was = t.was /\ u.for = t.for
  BY <1>3 DEF TokenOK, TokenFields
<1>5. tokens' = (tokens \ {t}) \union {u}
  BY <1>2
<1>. HIDE DEF u
<1>6. TokenOK(u)
  BY <1>3, <1>4 DEF TokenOK
<1>7. \A x \in tokens' : TokenOK(x)
  BY <1>5, <1>6 DEF TokensIInv
<1>8. request' = [request EXCEPT ![q] = NoRequest] /\ UNCHANGED Policies
  BY DEF SetTokenPolicy, AtOnce, Asks
<1>. QED
  BY <1>7, <1>8, RequestEnds, PoliciesKept

LEMMA RevokeStep ==
    ASSUME TokensIInv, NEW q \in Requests, Noted, RevokeToken(q) \/ RevokeServiceToken(q)
    PROVE  TokensIInv'
<1>1. request' = [request EXCEPT ![q] = NoRequest] /\ UNCHANGED Policies
  BY DEF RevokeToken, RevokeServiceToken, AtOnce, Asks
<1>2. tokens' \subseteq tokens
  BY DEF RevokeToken, RevokeServiceToken
<1>3. \A x \in tokens' : TokenOK(x)
  BY <1>2 DEF TokensIInv
<1>. QED
  BY <1>1, <1>3, RequestEnds, PoliciesKept

(* A day less is still within every limit.                                  *)
LEMMA LapseStep ==
    ASSUME TokensIInv, TimePasses, Noted
    PROVE  TokensIInv'
<1>. DEFINE later(t) == [t EXCEPT !.left = IF t.left = Forever \/ t.left = 0 THEN t.left ELSE t.left - 1]
<1>1. tokens' = {later(t) : t \in tokens} /\ UNCHANGED <<Policies, request>>
  BY DEF TimePasses
<1>2. ASSUME NEW t \in tokens PROVE TokenOK(later(t))
  <2>1. TokenOK(t) /\ Forever \notin Nat
    BY TokensAssumption DEF TokensIInv
  <2>. DEFINE u == later(t)
  <2>2. /\ DOMAIN u = TokenFields /\ u.kind = t.kind /\ u.origin = t.origin
        /\ u.was = t.was /\ u.for = t.for
        /\ u.left = IF t.left = Forever \/ t.left = 0 THEN t.left ELSE t.left - 1
    BY <2>1 DEF TokenOK, TokenFields
  <2>. HIDE DEF later
  <2>3. /\ u.left \in Nat \union {Forever} /\ (t.left = Forever <=> u.left = Forever)
        /\ (t.left # Forever => t.left \in Nat /\ u.left \in Nat /\ u.left =< t.left)
    BY <2>1, <2>2 DEF TokenOK
  <2>4. ASSUME NEW rule, Allows(rule, t.left) PROVE Allows(rule, u.left)
    BY <2>3, <2>4 DEF Allows
  <2>. QED
    BY <2>1, <2>2, <2>3, <2>4 DEF TokenOK
<1>. HIDE DEF later
<1>3. \A x \in tokens' : TokenOK(x)
  BY <1>1, <1>2
<1>4. \A q \in Requests : RequestOK(q)'
  BY <1>1, RequestKept
<1>5. RulesOK' /\ DOMAIN request' = Requests
  BY <1>1, PoliciesKept DEF TokensIInv
<1>. QED
  BY <1>3, <1>4, <1>5 DEF TokensIInv, TokenOK

LEMMA TokensNextIInv == TokensIInv /\ [TokensNext]_credentials => TokensIInv'
<1>. SUFFICES ASSUME TokensIInv, [TokensNext]_credentials PROVE TokensIInv'
  OBVIOUS
<1>1. CASE TokensNext
  <2>1. Noted
    BY <1>1 DEF TokensNext
  <2>2. CASE TimePasses
    BY <2>1, <2>2, LapseStep
  <2>3. ASSUME NEW q \in Requests,
               \/ TokenCreate(q) \/ CreateServiceToken(q) \/ CreateSessionToken(q)
               \/ OauthCi(q) \/ CiMatched(q) \/ OauthRead(q) \/ CreatePublishToken(q)
               \/ SetOrgSettings(q) \/ OrgSettings(q) \/ SetRepoSettings(q)
               \/ CiPolicy(q) \/ DeletePlace(q)
               \/ SetTokenPolicy(q) \/ RevokeToken(q) \/ RevokeServiceToken(q)
        PROVE  TokensIInv'
    BY <2>1, <2>3, CreateTokenCheckStep, CreateTokenStep, OtherTokenStep, OauthCiStep,
       CiMatchedStep, CiTokenStep, SettingsStep, CiPolicyStep, SetTokenPolicyStep, RevokeStep
       DEF TokenCreate, OauthRead
  <2>. QED
    BY <1>1, <2>2, <2>3 DEF TokensNext
<1>2. CASE UNCHANGED credentials
  BY <1>2 DEF credentials, TokensIInv, RulesOK, TokenOK, RequestOK
<1>. QED
  BY <1>1, <1>2

LEMMA TokensInvariant == TokensSpec => []TokensIInv
BY TokensInitIInv, TokensNextIInv, PTL DEF TokensSpec

(* A token made by hand never has more days left than both the              *)
(* organisation's and the repository's settings allowed, as they stood      *)
(* together at some moment of its request, though they are read in one      *)
(* statement and the token is made in a later one (create_token,            *)
(* effective_token_policy).                                                 *)
THEOREM HandMadeWithinPolicy == TokensSpec => []TokenWithinPolicy
<1>1. TokensIInv => TokenWithinPolicy
  BY DEF TokensIInv, TokenOK, Allows, TokenWithinPolicy
<1>. QED
  BY <1>1, TokensInvariant, PTL

(* A workload's token opens nothing that no policy opened to it: a policy   *)
(* for its issuer, its subject, the capability it asked and that repository *)
(* (or, to read, the whole organisation) stood while it asked, whatever     *)
(* became of the policies and repositories since (ci_match, oauth_ci,       *)
(* oauth_ci_publish).                                                       *)
THEOREM ExchangeWithinPolicy == TokensSpec => []ExchangeMatches
<1>1. TokensIInv => ExchangeMatches
  <2>. SUFFICES ASSUME TokensIInv, NEW t \in tokens, t.origin = "ci"
                PROVE  \E w \in t.was :
                         /\ ValidateJwt(w.jwt, w.policy) /\ ClaimsMatch(w.jwt, w.policy)
                         /\ w.policy.capability = t.kind
                         /\ \A p \in places : TokenValid(p, t) \/ p \in ResolvePublishToken(t) =>
                                w.policy.repo = p \/ w.policy.scope = "org"
    BY DEF ExchangeMatches
  <2>1. PICK w \in t.was :
          /\ Answers(w.policy, w.jwt, t.kind)
          /\ \/ t.for = "org" /\ w.policy.scope = "org"
             \/ t.for = w.policy.repo /\ t.for \in Places
    BY DEF TokensIInv, TokenOK
  <2>2. ASSUME NEW p \in places, TokenValid(p, t) \/ p \in ResolvePublishToken(t)
        PROVE  w.policy.repo = p \/ w.policy.scope = "org"
    <3>1. t.for \in {p, "org"}
      BY <2>2 DEF TokenValid, ResolvePublishToken
    <3>. QED
      BY <2>1, <3>1, TokensAssumption
  <2>. QED
    BY <2>1, <2>2 DEF Answers
<1>. QED
  BY <1>1, TokensInvariant, PTL
-----------------------------------------------------------------------------
(* Accounts.                                                                *)

(* What is good once: the rows that wait to be presented and the calls that *)
(* took one, all of one table S.                                            *)
TicketsOK(rows, taken, S, drawn, uses) ==
    /\ \A x \in rows : x.id \in S \intersect drawn /\ uses[x.id] = 0
    /\ \A x, y \in rows : x.id = y.id => x = y
    /\ \A h \in taken : /\ h[2] \in S \intersect drawn /\ uses[h[2]] = 0
                       /\ \A x \in rows : x.id # h[2]
    /\ \A h, g \in taken : h[2] = g[2] => h = g

Visiting(m) == m.at \in {"consumed", "identified", "joined"}
OfUser(m)   == m.at \in {"verified", "forgot", "identified", "joined", "provision",
                         "offboarding", "seen", "page"}

OpenResets == {r \in resets : r.open}
Arrivals     == {<<c, call[c].flow>> : c \in {d \in Calls : Visiting(call[d])}}
Mintings   == {<<c, call[c].device>> : c \in {d \in Calls : call[d].at = "minting"}}

CallOK(m) ==
    /\ OfUser(m) => m.user \in Users
    /\ m.at = "saving" => /\ m.rule \in DomainRules /\ m.secret \in Stored \union {None}
                          /\ m.given \in BOOLEAN

AccountRows ==
    /\ DOMAIN call = Calls /\ \A c \in Calls : CallOK(call[c])
    /\ member \in [Users -> [role : {None, "member", "admin"}, active : BOOLEAN]]
    /\ sessions \subseteq [id : Sessions, user : Users, at : Nat, late : BOOLEAN]
    /\ resets \subseteq [id : Links, user : Users, open : BOOLEAN]
    /\ conns \in [Scopes -> ConnRows \union {None}]
    /\ epoch \in [Users -> Nat]
    /\ DOMAIN keeper = Users /\ DOMAIN latest = Scopes
    /\ gone \in [Users -> {"in", "leaving", "out"}]

SpentOK ==
    /\ spent \in [Links \union Flows \union Devices -> Nat]
    /\ \A t \in DOMAIN spent : spent[t] <= 1 /\ (t \notin issued => spent[t] = 0)

TicketsGood ==
    /\ SpentOK
    /\ TicketsOK(OpenResets, {}, Links, issued, spent)
    /\ TicketsOK(flows, Arrivals, Flows, issued, spent)
    /\ TicketsOK(devices, Mintings, Devices, issued, spent)

(* A user who never asked for a link while asking for one: one request at a *)
(* time, and it has seen every link there is.                               *)
OneForgot ==
    \A u \in Users \ crossed :
        /\ \A r, q \in resets : r.user = u /\ q.user = u /\ r.open /\ q.open => r = q
        /\ \A c \in Calls : call[c].at = "forgot" /\ call[c].user = u =>
              /\ \A r \in resets : r.user = u => r.id \in call[c].drop
              /\ \A d \in Calls : call[d].at = "forgot" /\ call[d].user = u => d = c

(* Who is gone has no active membership to read.                            *)
GoneOK ==
    /\ \A u \in Users : gone[u] # "in" => ~ member[u].active
    /\ OffboardedIsOut

(* A save that leaves the secret blank carries the stored one, until        *)
(* another save overtakes it.                                               *)
SecretOK ==
    /\ SecretLossNeedsRace
    /\ \A sc \in Scopes : conns[sc] = None => latest[sc] = None
    /\ \A c \in Calls : call[c].at = "saving" /\ ~ call[c].given /\ "saving" \notin crossed =>
          call[c].secret = IF conns["org"] = None THEN None ELSE conns["org"].secret

AccountsIInv ==
    /\ AccountRows
    /\ ResetSignsOut
    /\ TicketsGood
    /\ OneForgot
    /\ GoneOK
    /\ SecretOK

-----------------------------------------------------------------------------
LEMMA TicketsKept ==
    ASSUME NEW rows, NEW taken, NEW S, NEW drawn, NEW uses, TicketsOK(rows, taken, S, drawn, uses),
           NEW rows2 \in SUBSET rows, NEW held2 \in SUBSET taken, NEW drawn2, drawn \subseteq drawn2,
           NEW uses2, \A t \in S : uses2[t] = uses[t]
    PROVE  TicketsOK(rows2, held2, S, drawn2, uses2)
BY DEF TicketsOK

LEMMA TicketDrawn ==
    ASSUME NEW rows, NEW taken, NEW S, NEW drawn, NEW uses, TicketsOK(rows, taken, S, drawn, uses),
           NEW x, x.id \in S \ drawn, uses[x.id] = 0
    PROVE  TicketsOK(rows \union {x}, taken, S, drawn \union {x.id}, uses)
BY DEF TicketsOK

LEMMA TicketPresented ==
    ASSUME NEW rows, NEW taken, NEW S, NEW drawn, NEW uses, TicketsOK(rows, taken, S, drawn, uses),
           NEW x \in rows, NEW c
    PROVE  TicketsOK(rows \ {x}, taken \union {<<c, x.id>>}, S, drawn, uses)
BY DEF TicketsOK

LEMMA TicketUsed ==
    ASSUME NEW rows, NEW taken, NEW S, NEW drawn, NEW uses, TicketsOK(rows, taken, S, drawn, uses),
           NEW h \in taken, NEW uses2, \A t \in S \ {h[2]} : uses2[t] = uses[t]
    PROVE  TicketsOK(rows, taken \ {h}, S, drawn, uses2)
BY DEF TicketsOK

LEMMA TicketSpent ==
    ASSUME NEW rows, NEW taken, NEW S, NEW drawn, NEW uses, TicketsOK(rows, taken, S, drawn, uses),
           NEW x \in rows, NEW uses2, \A t \in S \ {x.id} : uses2[t] = uses[t]
    PROVE  TicketsOK(rows \ {x}, taken, S, drawn, uses2)
BY DEF TicketsOK

LEMMA TicketRewritten ==
    ASSUME NEW rows, NEW taken, NEW S, NEW drawn, NEW uses, TicketsOK(rows, taken, S, drawn, uses),
           NEW x \in rows, NEW y, y.id = x.id
    PROVE  TicketsOK((rows \ {x}) \union {y}, taken, S, drawn, uses)
BY DEF TicketsOK

LEMMA AccountsInit == Init => AccountsIInv
<1>. SUFFICES ASSUME Init PROVE AccountsIInv
  OBVIOUS
<1>1. AccountRows
  <2>1. DOMAIN call = Calls /\ \A c \in Calls : CallOK(call[c])
    BY DEF Init, Idle, CallOK, OfUser
  <2>2. member \in [Users -> [role : {None, "member", "admin"}, active : BOOLEAN]]
    <3>. DEFINE Rows == [role : {None, "member", "admin"}, active : BOOLEAN]
                row  == [role |-> "admin", active |-> TRUE]
    <3>1. NoMember \in Rows /\ row \in Rows
      BY DEF NoMember
    <3>2. member \in [Users -> {NoMember, row}]
      BY DEF Init
    <3>. HIDE DEF Rows, row
    <3>3. member \in [Users -> Rows]
      BY <3>1, <3>2
    <3>. QED
      BY <3>3 DEF Rows
  <2>3. sessions \subseteq [id : Sessions, user : Users, at : Nat, late : BOOLEAN]
    <3>. SUFFICES ASSUME NEW x \in sessions
                  PROVE  x \in [id : Sessions, user : Users, at : Nat, late : BOOLEAN]
      OBVIOUS
    <3>1. PICK s \in Sessions, u \in Users : x = [id |-> s, user |-> u, at |-> 0, late |-> FALSE]
      BY DEF Init
    <3>. QED
      BY <3>1
  <2>4. conns \in [Scopes -> ConnRows \union {None}]
    <3>1. PICK rule \in DomainRules :
            conns \in {[sc \in Scopes |-> None],
                  [org |-> [id |-> "first", rule |-> rule, secret |-> None], default |-> None]}
      BY DEF Init
    <3>2. [id |-> "first", rule |-> rule, secret |-> None] \in ConnRows
      BY DEF ConnRows
    <3>3. CASE conns = [sc \in Scopes |-> None]
      BY <3>3
    <3>4. CASE conns = [org |-> [id |-> "first", rule |-> rule, secret |-> None], default |-> None]
      <4>. DEFINE row == [id |-> "first", rule |-> rule, secret |-> None]
      <4>1. conns = [org |-> row, default |-> None] /\ row \in ConnRows
        BY <3>2, <3>4
      <4>. HIDE DEF row
      <4>. QED
        BY <4>1 DEF Scopes
    <3>. QED
      BY <3>1, <3>3, <3>4
  <2>. QED
    BY <2>1, <2>2, <2>3, <2>4 DEF Init, AccountRows
<1>2. ResetSignsOut
  BY DEF Init, ResetSignsOut
<1>3. TicketsGood
  <2>1. OpenResets = {} /\ flows = {} /\ Arrivals = {} /\ Mintings = {}
    BY DEF Init, OpenResets, Arrivals, Mintings, Visiting, Idle
  <2>2. \A t \in Links \union Flows \union Devices : spent[t] = 0
    BY DEF Init
  <2>3. \A d \in devices : d.id \in Devices \intersect issued
    BY DEF Init
  <2>4. \A d, e \in devices : d.id = e.id => d = e
    BY DEF Init
  <2>. QED
    BY <2>1, <2>2, <2>3, <2>4 DEF Init, TicketsGood, SpentOK, TicketsOK
<1>4. OneForgot
  BY DEF Init, OneForgot, Idle
<1>5. GoneOK
  BY DEF Init, GoneOK, OffboardedIsOut, Idle
<1>6. SecretOK
  <2>1. \A sc \in Scopes : latest[sc] = None /\ (conns[sc] # None => conns[sc].secret = None)
    <3>1. PICK rule \in DomainRules :
            conns \in {[sc \in Scopes |-> None],
                  [org |-> [id |-> "first", rule |-> rule, secret |-> None], default |-> None]}
      BY DEF Init
    <3>. QED
      BY <3>1 DEF Init, Scopes
  <2>. QED
    BY <2>1 DEF Init, SecretOK, SecretLossNeedsRace, Idle
<1>. QED
  BY <1>1, <1>2, <1>3, <1>4, <1>5, <1>6 DEF AccountsIInv

-----------------------------------------------------------------------------
(* What a step leaves alone, part by part.                                  *)
Turn(c, m) == /\ DOMAIN call' = Calls /\ call'[c] = m
              /\ \A d \in Calls \ {c} : call'[d] = call[d]
              /\ \A d \in Calls : CallOK(call'[d])

Notable == {"consumed", "identified", "joined", "minting", "forgot", "page", "saving"}
Steady  == \A c \in Calls : call'[c].at \in Notable => call'[c] = call[c]

LEMMA TurnStarts ==
    ASSUME AccountRows, NEW c \in Calls, NEW m, CallOK(m), Starts(c, m)
    PROVE  Turn(c, m) /\ call[c].at = "idle"
BY DEF AccountRows, Starts, Turn, Idle

LEMMA TurnGoes ==
    ASSUME AccountRows, NEW c \in Calls, NEW at, NEW m, CallOK(m), Goes(c, at, m)
    PROVE  Turn(c, m) /\ call[c].at = at
BY DEF AccountRows, Goes, Turn

LEMMA TurnSteady ==
    ASSUME NEW c \in Calls, NEW m, Turn(c, m), m.at \notin Notable
    PROVE  Steady
BY DEF Turn, Steady

LEMMA IdleOK == CallOK(Idle) /\ Idle.at \notin Notable
BY DEF CallOK, OfUser, Idle, Notable

LEMMA SteadyHeld ==
    ASSUME Steady
    PROVE  Arrivals' \subseteq Arrivals /\ Mintings' \subseteq Mintings
<1>1. \A c \in Calls : Visiting(call'[c]) => call'[c] = call[c]
  BY DEF Steady, Visiting, Notable
<1>2. \A c \in Calls : call'[c].at = "minting" => call'[c] = call[c]
  BY DEF Steady, Notable
<1>. QED
  BY <1>1, <1>2 DEF Arrivals, Mintings, Visiting

LEMMA RowsSame ==
    ASSUME AccountRows, DOMAIN call' = Calls, \A c \in Calls : CallOK(call'[c]),
           sessions' \subseteq sessions,
           UNCHANGED <<member, resets, conns, epoch, keeper, latest, gone>>
    PROVE  AccountRows'
BY DEF AccountRows, CallOK, OfUser

LEMMA TicketsSame ==
    ASSUME TicketsGood, OpenResets' \subseteq OpenResets, flows' \subseteq flows,
           devices' \subseteq devices, issued \subseteq issued', spent' = spent,
           Arrivals' \subseteq Arrivals, Mintings' \subseteq Mintings
    PROVE  TicketsGood'
<1>1. SpentOK'
  BY DEF TicketsGood, SpentOK
<1>2. TicketsOK(OpenResets', {}, Links, issued', spent')
  BY TicketsKept DEF TicketsGood
<1>3. TicketsOK(flows', Arrivals', Flows, issued', spent')
  BY TicketsKept DEF TicketsGood
<1>4. TicketsOK(devices', Mintings', Devices, issued', spent')
  BY TicketsKept DEF TicketsGood
<1>. QED
  BY <1>1, <1>2, <1>3, <1>4 DEF TicketsGood, TicketsOK

LEMMA ForgotSame ==
    ASSUME OneForgot, crossed \subseteq crossed',
           \A r \in resets' : \E q \in resets :
               q.id = r.id /\ q.user = r.user /\ (r.open => q = r),
           \A c \in Calls : call'[c].at = "forgot" => call'[c] = call[c]
    PROVE  OneForgot'
BY DEF OneForgot

LEMMA GoneSame ==
    ASSUME AccountRows, GoneOK, sessions' \subseteq sessions, gone' = gone,
           \A u \in Users : member'[u].active => member[u].active,
           early \subseteq early', \A c \in Calls : call'[c].at = "page" => call'[c] = call[c]
    PROVE  GoneOK'
BY DEF GoneOK, OffboardedIsOut

LEMMA SecretSame ==
    ASSUME SecretOK, UNCHANGED <<conns, latest>>, crossed \subseteq crossed',
           \A c \in Calls : call'[c].at = "saving" => call'[c] = call[c]
    PROVE  SecretOK'
BY DEF SecretOK, SecretLossNeedsRace

LEMMA SignedSame ==
    ASSUME ResetSignsOut, sessions' \subseteq sessions, UNCHANGED <<epoch, keeper>>
    PROVE  ResetSignsOut'
BY DEF ResetSignsOut

LEMMA SteadyParts ==
    ASSUME Steady
    PROVE  /\ \A c \in Calls : call'[c].at = "forgot" => call'[c] = call[c]
           /\ \A c \in Calls : call'[c].at = "page" => call'[c] = call[c]
           /\ \A c \in Calls : call'[c].at = "saving" => call'[c] = call[c]
BY DEF Steady, Notable

(* Most requests only look, or write what no invariant is about.            *)
LEMMA QuietStep ==
    ASSUME AccountsIInv, DOMAIN call' = Calls, \A c \in Calls : CallOK(call'[c]), Steady,
           sessions' \subseteq sessions, flows' \subseteq flows, devices' \subseteq devices,
           UNCHANGED <<member, resets, conns, latest, issued, past>>
    PROVE  AccountsIInv'
<1>. USE DEF past
<1>1. AccountRows'
  BY RowsSame DEF AccountsIInv
<1>2. TicketsGood'
  <2>1. OpenResets' = OpenResets
    BY DEF OpenResets
  <2>. QED
    BY <2>1, SteadyHeld, TicketsSame DEF AccountsIInv
<1>3. OneForgot'
  BY ForgotSame, SteadyParts DEF AccountsIInv
<1>4. GoneOK'
  BY GoneSame, SteadyParts DEF AccountsIInv
<1>5. SecretOK'
  BY SecretSame, SteadyParts DEF AccountsIInv
<1>6. ResetSignsOut'
  BY SignedSame DEF AccountsIInv
<1>. QED
  BY <1>1, <1>2, <1>3, <1>4, <1>5, <1>6 DEF AccountsIInv

LEMMA QuietTurn ==
    ASSUME AccountsIInv, NEW c \in Calls, NEW m, Turn(c, m), m.at \notin Notable,
           sessions' \subseteq sessions, flows' \subseteq flows, devices' \subseteq devices,
           UNCHANGED <<member, resets, conns, latest, issued, past>>
    PROVE  AccountsIInv'
BY TurnSteady, QuietStep DEF Turn

LEMMA UserOf ==
    ASSUME AccountRows, NEW c \in Calls, OfUser(call[c])
    PROVE  call[c].user \in Users
BY DEF AccountRows, CallOK

-----------------------------------------------------------------------------
(* Sessions and the history of passwords.                                   *)
LEMMA SessionOpened ==
    ASSUME AccountRows, ResetSignsOut, OffboardedIsOut, NEW u \in Users, NEW s,
           CreateSession(u, s), UNCHANGED <<epoch, keeper, gone>>
    PROVE  /\ sessions' \subseteq [id : Sessions, user : Users, at : Nat, late : BOOLEAN]
           /\ ResetSignsOut'
           /\ \A x \in sessions' : gone'[x.user] = "out" => x.late
           /\ issued \subseteq issued'
<1>. DEFINE x == [id |-> s, user |-> u, at |-> epoch[u], late |-> gone[u] # "in"]
<1>1. x \in [id : Sessions, user : Users, at : Nat, late : BOOLEAN]
  BY DEF CreateSession, Fresh, AccountRows
<1>2. x.user = u /\ x.at = epoch[u] /\ x.late = (gone[u] # "in")
  OBVIOUS
<1>3. sessions' = sessions \union {x} /\ issued \subseteq issued'
  BY DEF CreateSession
<1>. HIDE DEF x
<1>. QED
  BY <1>1, <1>2, <1>3 DEF AccountRows, ResetSignsOut, OffboardedIsOut

LEMMA LoginSessionOK ==
    ASSUME AccountsIInv, NEW c \in Calls, LoginSession(c)
    PROVE  AccountsIInv'
<1>. DEFINE u == call[c].user
<1>1. Goes(c, "verified", Idle) /\ \E s \in Sessions : CreateSession(u, s)
  BY DEF LoginSession
<1>2. UNCHANGED <<people, resets, devices, sso, past>>
  BY DEF LoginSession
<1>3. u \in Users
  BY <1>1, UserOf DEF Goes, OfUser, AccountsIInv
<1>4. Turn(c, Idle) /\ Steady
  BY <1>1, TurnGoes, TurnSteady, IdleOK DEF AccountsIInv
<1>5. /\ sessions' \subseteq [id : Sessions, user : Users, at : Nat, late : BOOLEAN]
      /\ ResetSignsOut'
      /\ \A x \in sessions' : gone'[x.user] = "out" => x.late
      /\ issued \subseteq issued'
  BY <1>1, <1>2, <1>3, SessionOpened DEF AccountsIInv, GoneOK, past
<1>. HIDE DEF u
<1>6. AccountRows'
  BY <1>2, <1>4, <1>5 DEF AccountsIInv, AccountRows, Turn, CallOK, OfUser, people, sso, past
<1>7. TicketsGood'
  <2>1. OpenResets' = OpenResets
    BY <1>2 DEF OpenResets
  <2>. QED
    BY <1>2, <1>4, <1>5, <2>1, SteadyHeld, TicketsSame DEF AccountsIInv, sso, past
<1>8. OneForgot'
  BY <1>2, <1>4, ForgotSame, SteadyParts DEF AccountsIInv, past
<1>9. GoneOK'
  <2>1. \A d \in Calls : call'[d].at = "page" => call'[d] = call[d]
    BY <1>4, SteadyParts
  <2>. QED
    BY <1>2, <1>5, <2>1 DEF AccountsIInv, GoneOK, OffboardedIsOut, people, past
<1>10. SecretOK'
  BY <1>2, <1>4, SecretSame, SteadyParts DEF AccountsIInv, sso, past
<1>. QED
  BY <1>5, <1>6, <1>7, <1>8, <1>9, <1>10 DEF AccountsIInv

LEMMA ChangePasswordOK ==
    ASSUME AccountsIInv, NEW c \in Calls, NEW old, NEW new, ChangeMyPassword(c, old, new)
    PROVE  AccountsIInv'
<1>. DEFINE u == call[c].user
            keep == call[c].tok
<1>1. Goes(c, "page", Idle) /\ ChangePassword(u, old, new, keep)
  BY DEF ChangeMyPassword, Page
<1>2. UNCHANGED <<member, resets, devices, sso, issued, gone, spent, early, crossed>>
  BY DEF ChangeMyPassword
<1>3. u \in Users
  BY <1>1, UserOf DEF Goes, OfUser, AccountsIInv
<1>4. Turn(c, Idle) /\ Steady
  BY <1>1, TurnGoes, TurnSteady, IdleOK DEF AccountsIInv
<1>5. /\ sessions' = {s \in sessions : s.user # u \/ s.id = keep}
      /\ epoch' = [epoch EXCEPT ![u] = @ + 1] /\ keeper' = [keeper EXCEPT ![u] = keep]
  BY <1>1 DEF ChangePassword
<1>. HIDE DEF u, keep
<1>6. ResetSignsOut'
  BY <1>3, <1>5 DEF AccountsIInv, AccountRows, ResetSignsOut
<1>7. AccountRows'
  BY <1>2, <1>3, <1>4, <1>5 DEF AccountsIInv, AccountRows, Turn, CallOK, OfUser, sso
<1>8. TicketsGood'
  <2>1. OpenResets' = OpenResets
    BY <1>2 DEF OpenResets
  <2>. QED
    BY <1>2, <1>4, <2>1, SteadyHeld, TicketsSame DEF AccountsIInv, sso
<1>9. OneForgot'
  BY <1>2, <1>4, ForgotSame, SteadyParts DEF AccountsIInv
<1>10. GoneOK'
  BY <1>2, <1>4, <1>5, GoneSame, SteadyParts DEF AccountsIInv
<1>11. SecretOK'
  BY <1>2, <1>4, SecretSame, SteadyParts DEF AccountsIInv, sso
<1>. QED
  BY <1>6, <1>7, <1>8, <1>9, <1>10, <1>11 DEF AccountsIInv

-----------------------------------------------------------------------------
(* Reset links.                                                             *)
LEMMA ForgotReadOK ==
    ASSUME AccountsIInv, NEW c \in Calls, NEW u \in Users, ForgotRead(c, u)
    PROVE  AccountsIInv'
<1>. DEFINE drop == {r.id : r \in Outstanding(u)}
            m == [at |-> "forgot", user |-> u, drop |-> drop]
<1>1. Starts(c, m) /\ UNCHANGED <<people, sessions, resets, devices, sso, issued, epoch, keeper,
                                  gone, spent, early>>
  BY DEF ForgotRead
<1>2. crossed' = IF \E d \in Calls : call[d].at = "forgot" /\ call[d].user = u
                 THEN crossed \union {u} ELSE crossed
  BY DEF ForgotRead
<1>3. CallOK(m) /\ m.at = "forgot" /\ m.user = u /\ m.drop = drop
  BY DEF CallOK, OfUser
<1>4. \A r \in resets : r.user = u => r.id \in drop
  BY DEF Outstanding
<1>. HIDE DEF m, drop
<1>5. Turn(c, m) /\ call[c].at = "idle"
  BY <1>1, <1>3, TurnStarts DEF AccountsIInv
<1>6. \A d \in Calls : call'[d].at \in Notable \ {"forgot"} => call'[d] = call[d]
  BY <1>3, <1>5 DEF Turn
<1>7. AccountRows'
  BY <1>1, <1>5, RowsSame DEF AccountsIInv, Turn, people, sso
<1>8. TicketsGood'
  <2>1. OpenResets' = OpenResets
    BY <1>1 DEF OpenResets
  <2>2. Arrivals' \subseteq Arrivals /\ Mintings' \subseteq Mintings
    BY <1>6 DEF Arrivals, Mintings, Visiting, Notable
  <2>. QED
    BY <1>1, <2>1, <2>2, TicketsSame DEF AccountsIInv, sso
<1>9. OneForgot'
  <2>. SUFFICES ASSUME NEW v \in Users \ crossed'
                PROVE  /\ \A r, q \in resets : r.user = v /\ q.user = v /\ r.open /\ q.open => r = q
                       /\ \A d \in Calls : call'[d].at = "forgot" /\ call'[d].user = v =>
                             /\ \A r \in resets : r.user = v => r.id \in call'[d].drop
                             /\ \A e \in Calls : call'[e].at = "forgot" /\ call'[e].user = v => e = d
    BY <1>1 DEF OneForgot
  <2>1. v \in Users \ crossed
    BY <1>2
  <2>2. CASE v # u
    BY <2>1, <2>2, <1>3, <1>5 DEF AccountsIInv, OneForgot, Turn
  <2>3. CASE v = u
    <3>1. \A d \in Calls : ~ (call[d].at = "forgot" /\ call[d].user = u)
      BY <1>2, <2>3
    <3>. QED
      BY <2>1, <2>3, <3>1, <1>3, <1>4, <1>5 DEF AccountsIInv, OneForgot, Turn
  <2>. QED
    BY <2>2, <2>3
<1>10. GoneOK'
  BY <1>1, <1>6, GoneSame DEF AccountsIInv, people, Notable
<1>11. SecretOK'
  BY <1>1, <1>2, <1>6, SecretSame DEF AccountsIInv, sso, Notable
<1>12. ResetSignsOut'
  BY <1>1, SignedSame DEF AccountsIInv
<1>. QED
  BY <1>7, <1>8, <1>9, <1>10, <1>11, <1>12 DEF AccountsIInv

LEMMA ForgotCommitOK ==
    ASSUME AccountsIInv, NEW c \in Calls, ForgotCommit(c)
    PROVE  AccountsIInv'
<1>. DEFINE u == call[c].user
            drop == call[c].drop
<1>1. Goes(c, "forgot", Idle) /\ UNCHANGED <<people, sessions, devices, sso, past>>
  BY DEF ForgotCommit
<1>2. PICK l \in Links \ issued : /\ resets' = {r \in resets : r.id \notin drop}
                                               \union {[id |-> l, user |-> u, open |-> TRUE]}
                                  /\ issued' = issued \union {l}
  BY DEF ForgotCommit, InsertReset, Fresh
<1>3. u \in Users /\ call[c].at = "forgot"
  BY <1>1, UserOf DEF Goes, OfUser, AccountsIInv
<1>4. Turn(c, Idle) /\ Steady
  BY <1>1, TurnGoes, TurnSteady, IdleOK DEF AccountsIInv
<1>. DEFINE x == [id |-> l, user |-> u, open |-> TRUE]
<1>5. x.id = l /\ x.user = u /\ x.open = TRUE /\ x \in [id : Links, user : Users, open : BOOLEAN]
  BY <1>3
<1>6. resets' = {r \in resets : r.id \notin drop} \union {x}
  BY <1>2
<1>. HIDE DEF x
<1>7. AccountRows'
  BY <1>1, <1>4, <1>5, <1>6 DEF AccountsIInv, AccountRows, Turn, CallOK, OfUser, people, sso, past
<1>8. TicketsGood'
  <2>1. l \in Links \ issued /\ spent[l] = 0
    BY <1>2 DEF AccountsIInv, AccountRows, TicketsGood, SpentOK
  <2>2. TicketsOK(OpenResets \union {x}, {}, Links, issued \union {l}, spent)
    BY <1>5, <2>1, TicketDrawn DEF AccountsIInv, TicketsGood
  <2>3. OpenResets' \subseteq OpenResets \union {x}
    BY <1>6 DEF OpenResets
  <2>4. TicketsOK(OpenResets', {}, Links, issued', spent')
    BY <1>1, <1>2, <2>2, <2>3, TicketsKept DEF past
  <2>5. Arrivals' \subseteq Arrivals /\ Mintings' \subseteq Mintings
    BY <1>4, SteadyHeld
  <2>6. TicketsOK(flows', Arrivals', Flows, issued', spent')
    BY <1>1, <1>2, <2>5, TicketsKept DEF AccountsIInv, TicketsGood, sso, past
  <2>7. TicketsOK(devices', Mintings', Devices, issued', spent')
    BY <1>1, <1>2, <2>5, TicketsKept DEF AccountsIInv, TicketsGood, past
  <2>8. SpentOK'
    BY <1>1, <1>2 DEF AccountsIInv, TicketsGood, SpentOK, past
  <2>. QED
    BY <2>4, <2>6, <2>7, <2>8 DEF TicketsGood, TicketsOK
<1>9. OneForgot'
  <2>1. \A d \in Calls : call'[d].at = "forgot" => d # c /\ call'[d] = call[d]
    BY <1>4 DEF Turn, Idle
  <2>. SUFFICES ASSUME NEW v \in Users \ crossed
                PROVE  /\ \A r, q \in resets' : r.user = v /\ q.user = v /\ r.open /\ q.open => r = q
                       /\ \A d \in Calls : call'[d].at = "forgot" /\ call'[d].user = v =>
                             /\ \A r \in resets' : r.user = v => r.id \in call'[d].drop
                             /\ \A e \in Calls : call'[e].at = "forgot" /\ call'[e].user = v => e = d
    BY <1>1 DEF OneForgot, past
  <2>2. CASE v # u
    BY <2>1, <2>2, <1>5, <1>6 DEF AccountsIInv, OneForgot
  <2>3. CASE v = u
    <3>1. \A r \in resets : r.user = u => r.id \in drop
      BY <1>3, <2>3 DEF AccountsIInv, OneForgot
    <3>2. \A r \in resets' : r.user = u => r = x
      BY <1>6, <3>1
    <3>3. \A d \in Calls : call'[d].at = "forgot" => call'[d].user # u
      BY <1>3, <2>1, <2>3 DEF AccountsIInv, OneForgot
    <3>. QED
      BY <2>3, <3>2, <3>3
  <2>. QED
    BY <2>2, <2>3
<1>10. GoneOK'
  BY <1>1, <1>4, GoneSame, SteadyParts DEF AccountsIInv, people, past
<1>11. SecretOK'
  BY <1>1, <1>4, SecretSame, SteadyParts DEF AccountsIInv, sso, past
<1>12. ResetSignsOut'
  BY <1>1, SignedSame DEF AccountsIInv, past
<1>. QED
  BY <1>7, <1>8, <1>9, <1>10, <1>11, <1>12 DEF AccountsIInv

(* A link that is used or lapses is the same link, and never opens again.   *)
LEMMA LinkClosed ==
    ASSUME AccountsIInv, NEW r \in resets, r.open,
           resets' = (resets \ {r}) \union {[r EXCEPT !.open = FALSE]}
    PROVE  /\ resets' \subseteq [id : Links, user : Users, open : BOOLEAN]
           /\ OpenResets' = OpenResets \ {r}
           /\ \A x \in resets' : \E q \in resets :
                 q.id = x.id /\ q.user = x.user /\ (x.open => q = x)
<1>. DEFINE y == [r EXCEPT !.open = FALSE]
<1>1. r \in [id : Links, user : Users, open : BOOLEAN]
  BY DEF AccountsIInv, AccountRows
<1>2. y \in [id : Links, user : Users, open : BOOLEAN] /\ y.id = r.id /\ y.user = r.user /\ ~ y.open
  BY <1>1
<1>. HIDE DEF y
<1>3. resets' = (resets \ {r}) \union {y}
  BY DEF y
<1>. QED
  BY <1>2, <1>3 DEF AccountsIInv, AccountRows, OpenResets

LEMMA ResetPasswordOK ==
    ASSUME AccountsIInv, NEW c \in Calls, NEW p, ResetPassword(c, p)
    PROVE  AccountsIInv'
<1>1. Goes(c, "chosen", Idle) /\ UNCHANGED <<member, devices, sso, issued, gone, early, crossed>>
  BY DEF ResetPassword
<1>2. PICK r \in resets :
        /\ r.open
        /\ resets'  = (resets \ {r}) \union {[r EXCEPT !.open = FALSE]}
        /\ sessions' = {s \in sessions : s.user # r.user}
        /\ epoch'   = [epoch EXCEPT ![r.user] = @ + 1]
        /\ keeper'  = [keeper EXCEPT ![r.user] = None]
        /\ spent'   = [spent EXCEPT ![r.id] = @ + 1]
  BY DEF ResetPassword, DeleteUserSessions
<1>3. Turn(c, Idle) /\ Steady
  BY <1>1, TurnGoes, TurnSteady, IdleOK DEF AccountsIInv
<1>4. r.user \in Users /\ r.id \in Links
  BY <1>2 DEF AccountsIInv, AccountRows
<1>5. /\ resets' \subseteq [id : Links, user : Users, open : BOOLEAN]
      /\ OpenResets' = OpenResets \ {r}
      /\ \A x \in resets' : \E q \in resets : q.id = x.id /\ q.user = x.user /\ (x.open => q = x)
  BY <1>2, LinkClosed
<1>6. AccountRows'
  BY <1>1, <1>2, <1>3, <1>4, <1>5 DEF AccountsIInv, AccountRows, Turn, CallOK, OfUser, sso
<1>7. ResetSignsOut'
  BY <1>2, <1>4 DEF AccountsIInv, AccountRows, ResetSignsOut
<1>8. TicketsGood'
  <2>1. r \in OpenResets /\ spent[r.id] = 0 /\ r.id \in issued
    BY <1>2 DEF OpenResets, AccountsIInv, TicketsGood, TicketsOK
  <2>2. /\ \A t \in DOMAIN spent : t # r.id => spent'[t] = spent[t]
        /\ DOMAIN spent = Links \union Flows \union Devices
    BY <1>2 DEF AccountsIInv, TicketsGood, SpentOK
  <2>3. TicketsOK(OpenResets', {}, Links, issued', spent')
    BY <1>1, <1>5, <2>1, <2>2, TicketSpent DEF AccountsIInv, TicketsGood
  <2>4. Arrivals' \subseteq Arrivals /\ Mintings' \subseteq Mintings
    BY <1>3, SteadyHeld
  <2>5. \A t \in Flows \union Devices : spent'[t] = spent[t]
    BY <1>4, <2>2, AccountsAssumption
  <2>6. TicketsOK(flows', Arrivals', Flows, issued', spent')
    BY <1>1, <2>4, <2>5, TicketsKept DEF AccountsIInv, TicketsGood, sso
  <2>7. TicketsOK(devices', Mintings', Devices, issued', spent')
    BY <1>1, <2>4, <2>5, TicketsKept DEF AccountsIInv, TicketsGood
  <2>8. SpentOK'
    BY <1>1, <1>2, <1>4, <2>1, <2>2 DEF AccountsIInv, TicketsGood, SpentOK
  <2>. QED
    BY <2>3, <2>6, <2>7, <2>8 DEF TicketsGood, TicketsOK
<1>9. OneForgot'
  BY <1>1, <1>3, <1>5, ForgotSame, SteadyParts DEF AccountsIInv
<1>10. GoneOK'
  BY <1>1, <1>2, <1>3, GoneSame, SteadyParts DEF AccountsIInv
<1>11. SecretOK'
  BY <1>1, <1>3, SecretSame, SteadyParts DEF AccountsIInv, sso
<1>. QED
  BY <1>6, <1>7, <1>8, <1>9, <1>10, <1>11 DEF AccountsIInv

-----------------------------------------------------------------------------
(* Sign-on states: drawn, presented, and good for one session.              *)
LEMMA Elsewhere3 ==
    ASSUME NEW c \in Calls, NEW m, Turn(c, m), m.at \notin {"forgot", "page", "saving"}
    PROVE  /\ \A d \in Calls : call'[d].at = "forgot" => call'[d] = call[d]
           /\ \A d \in Calls : call'[d].at = "page" => call'[d] = call[d]
           /\ \A d \in Calls : call'[d].at = "saving" => call'[d] = call[d]
BY DEF Turn

LEMMA AuthStartOK ==
    ASSUME AccountsIInv, NEW c \in Calls, NEW sc, AuthStart(c, sc)
    PROVE  AccountsIInv'
<1>1. Starts(c, Idle) /\ UNCHANGED <<people, sessions, resets, devices, conns, scim, latest, past>>
  BY DEF AuthStart
<1>2. PICK f \in Flows \ issued : /\ flows' = flows \union {[id |-> f, conn |-> conns[sc].id]}
                                  /\ issued' = issued \union {f}
  BY DEF AuthStart, CreateOidcFlow, Fresh
<1>3. Turn(c, Idle) /\ Steady
  BY <1>1, TurnStarts, TurnSteady, IdleOK DEF AccountsIInv
<1>. DEFINE x == [id |-> f, conn |-> conns[sc].id]
<1>4. x.id = f /\ flows' = flows \union {x}
  BY <1>2
<1>. HIDE DEF x
<1>5. AccountRows'
  BY <1>1, <1>3, RowsSame DEF AccountsIInv, Turn, people, past
<1>6. TicketsGood'
  <2>1. spent[f] = 0
    BY <1>2 DEF AccountsIInv, TicketsGood, SpentOK
  <2>2. TicketsOK(flows', Arrivals, Flows, issued', spent)
    BY <1>2, <1>4, <2>1, TicketDrawn DEF AccountsIInv, TicketsGood
  <2>3. Arrivals' \subseteq Arrivals /\ Mintings' \subseteq Mintings /\ OpenResets' = OpenResets
    BY <1>1, <1>3, SteadyHeld DEF OpenResets
  <2>4. TicketsOK(flows', Arrivals', Flows, issued', spent')
    BY <1>1, <2>2, <2>3, TicketsKept DEF past
  <2>5. TicketsOK(OpenResets', {}, Links, issued', spent') /\ TicketsOK(devices', Mintings', Devices, issued', spent')
    BY <1>1, <1>2, <2>3, TicketsKept DEF AccountsIInv, TicketsGood, past
  <2>6. SpentOK'
    BY <1>1, <1>2 DEF AccountsIInv, TicketsGood, SpentOK, past
  <2>. QED
    BY <2>4, <2>5, <2>6 DEF TicketsGood, TicketsOK
<1>7. OneForgot'
  BY <1>1, <1>3, ForgotSame, SteadyParts DEF AccountsIInv, past
<1>8. GoneOK'
  BY <1>1, <1>3, GoneSame, SteadyParts DEF AccountsIInv, people, past
<1>9. SecretOK'
  BY <1>1, <1>3, SecretSame, SteadyParts DEF AccountsIInv, past
<1>10. ResetSignsOut'
  BY <1>1, SignedSame DEF AccountsIInv, past
<1>. QED
  BY <1>5, <1>6, <1>7, <1>8, <1>9, <1>10 DEF AccountsIInv

LEMMA AuthCallbackOK ==
    ASSUME AccountsIInv, NEW c \in Calls, NEW f \in flows, AuthCallback(c, f)
    PROVE  AccountsIInv'
<1>. DEFINE m == [at |-> "consumed", flow |-> f.id, conn |-> f.conn]
<1>1. /\ Starts(c, m) /\ flows' = flows \ {f}
      /\ UNCHANGED <<people, sessions, resets, devices, conns, scim, latest, issued, past>>
  BY DEF AuthCallback, ConsumeOidcFlow
<1>2. CallOK(m) /\ m.at = "consumed" /\ m.flow = f.id
  BY DEF CallOK, OfUser
<1>. HIDE DEF m
<1>3. Turn(c, m) /\ call[c].at = "idle"
  BY <1>1, <1>2, TurnStarts DEF AccountsIInv
<1>4. /\ \A d \in Calls : call'[d].at = "forgot" => call'[d] = call[d]
      /\ \A d \in Calls : call'[d].at = "page" => call'[d] = call[d]
      /\ \A d \in Calls : call'[d].at = "saving" => call'[d] = call[d]
  BY <1>2, <1>3, Elsewhere3
<1>5. AccountRows'
  BY <1>1, <1>3, RowsSame DEF AccountsIInv, Turn, people, past
<1>6. TicketsGood'
  <2>1. Arrivals' \subseteq Arrivals \union {<<c, f.id>>} /\ Mintings' \subseteq Mintings
    BY <1>2, <1>3 DEF Arrivals, Mintings, Visiting, Turn
  <2>2. TicketsOK(flows \ {f}, Arrivals \union {<<c, f.id>>}, Flows, issued, spent)
    BY TicketPresented DEF AccountsIInv, TicketsGood
  <2>3. TicketsOK(flows', Arrivals', Flows, issued', spent')
    BY <1>1, <2>1, <2>2, TicketsKept DEF past
  <2>4. OpenResets' = OpenResets
    BY <1>1 DEF OpenResets
  <2>5. TicketsOK(OpenResets', {}, Links, issued', spent') /\ TicketsOK(devices', Mintings', Devices, issued', spent')
    BY <1>1, <2>1, <2>4, TicketsKept DEF AccountsIInv, TicketsGood, past
  <2>6. SpentOK'
    BY <1>1 DEF AccountsIInv, TicketsGood, SpentOK, past
  <2>. QED
    BY <2>3, <2>5, <2>6 DEF TicketsGood, TicketsOK
<1>7. OneForgot'
  BY <1>1, <1>4, ForgotSame DEF AccountsIInv, past
<1>8. GoneOK'
  BY <1>1, <1>4, GoneSame DEF AccountsIInv, people, past
<1>9. SecretOK'
  BY <1>1, <1>4, SecretSame DEF AccountsIInv, past
<1>10. ResetSignsOut'
  BY <1>1, SignedSame DEF AccountsIInv, past
<1>. QED
  BY <1>5, <1>6, <1>7, <1>8, <1>9, <1>10 DEF AccountsIInv

(* A visit that goes on keeps its state.                                    *)
LEMMA VisitGoesOn ==
    ASSUME NEW c \in Calls, NEW m, Turn(c, m), Visiting(call[c]), Visiting(m), m.flow = call[c].flow
    PROVE  Arrivals' \subseteq Arrivals /\ Mintings' \subseteq Mintings
<1>1. Arrivals' \subseteq Arrivals
  BY DEF Arrivals, Turn
<1>2. Mintings' \subseteq Mintings
  BY DEF Mintings, Turn, Visiting
<1>. QED
  BY <1>1, <1>2

LEMMA AuthIdentityOK ==
    ASSUME AccountsIInv, NEW c \in Calls, NEW u \in Users, AuthIdentity(c, u)
    PROVE  AccountsIInv'
<1>1. PICK sc \in Scopes :
         /\ Goes(c, "consumed", [at |-> IF sc = "org" THEN "identified" ELSE "joined",
                                 user |-> u, flow |-> call[c].flow])
         /\ UNCHANGED <<member, sessions, resets, devices, sso, issued, past>>
  BY DEF AuthIdentity, ConnById
<1>. DEFINE m == [at |-> IF sc = "org" THEN "identified" ELSE "joined",
                  user |-> u, flow |-> call[c].flow]
<1>2. m.user = u /\ m.flow = call[c].flow /\ m.at \in {"identified", "joined"} /\ Goes(c, "consumed", m)
  BY <1>1
<1>. HIDE DEF m
<1>3. CallOK(m)
  BY <1>2 DEF CallOK
<1>4. Turn(c, m) /\ call[c].at = "consumed"
  BY <1>2, <1>3, TurnGoes DEF AccountsIInv
<1>5. /\ \A d \in Calls : call'[d].at = "forgot" => call'[d] = call[d]
      /\ \A d \in Calls : call'[d].at = "page" => call'[d] = call[d]
      /\ \A d \in Calls : call'[d].at = "saving" => call'[d] = call[d]
  BY <1>2, <1>4, Elsewhere3
<1>6. AccountRows'
  BY <1>1, <1>4, RowsSame DEF AccountsIInv, Turn, sso, past
<1>7. TicketsGood'
  <2>1. Arrivals' \subseteq Arrivals /\ Mintings' \subseteq Mintings /\ OpenResets' = OpenResets
    BY <1>1, <1>2, <1>4, VisitGoesOn DEF Visiting, OpenResets
  <2>. QED
    BY <1>1, <2>1, TicketsSame DEF AccountsIInv, sso, past
<1>8. OneForgot'
  BY <1>1, <1>5, ForgotSame DEF AccountsIInv, past
<1>9. GoneOK'
  BY <1>1, <1>5, GoneSame DEF AccountsIInv, past
<1>10. SecretOK'
  BY <1>1, <1>5, SecretSame DEF AccountsIInv, sso, past
<1>11. ResetSignsOut'
  BY <1>1, SignedSame DEF AccountsIInv, past
<1>. QED
  BY <1>6, <1>7, <1>8, <1>9, <1>10, <1>11 DEF AccountsIInv

-----------------------------------------------------------------------------
(* Memberships and what SCIM has taken.                                     *)
LEMMA Readmitted ==
    ASSUME AccountsIInv, NEW u \in Users, NEW role \in {None, "member", "admin"},
           member' = [member EXCEPT ![u] = [role |-> role, active |-> TRUE]],
           gone' = [gone EXCEPT ![u] = "in"],
           sessions' = sessions, early' = early,
           \A d \in Calls : call'[d].at = "page" => call'[d] = call[d]
    PROVE  /\ GoneOK'
           /\ member' \in [Users -> [role : {None, "member", "admin"}, active : BOOLEAN]]
           /\ gone' \in [Users -> {"in", "leaving", "out"}]
<1>. DEFINE Rows == [role : {None, "member", "admin"}, active : BOOLEAN]
            row == [role |-> role, active |-> TRUE]
<1>1. row \in Rows
  OBVIOUS
<1>2. member \in [Users -> Rows] /\ gone \in [Users -> {"in", "leaving", "out"}]
  BY DEF AccountsIInv, AccountRows
<1>. HIDE DEF Rows, row
<1>3. member' = [member EXCEPT ![u] = row]
  BY DEF row
<1>4. member' \in [Users -> Rows] /\ gone' \in [Users -> {"in", "leaving", "out"}]
  BY <1>1, <1>2, <1>3
<1>5. gone'[u] = "in" /\ \A v \in Users \ {u} : gone'[v] = gone[v] /\ member'[v] = member[v]
  BY <1>2, <1>3
<1>6. GoneOK'
  <2>1. \A v \in Users : gone'[v] # "in" => v # u
    BY <1>5
  <2>2. \A v \in Users : gone'[v] # "in" => ~ member'[v].active
    BY <1>5, <2>1 DEF AccountsIInv, GoneOK
  <2>3. \A s \in sessions : s.user \in Users
    BY DEF AccountsIInv, AccountRows
  <2>4. \A s \in sessions : gone'[s.user] = "out" => s.late
    BY <1>5, <2>3 DEF AccountsIInv, GoneOK, OffboardedIsOut
  <2>5. ASSUME NEW d \in Calls, call'[d].at = "page", gone'[call'[d].user] # "in", call'[d].tenant
        PROVE  d \in early
    <3>1. call'[d] = call[d] /\ call[d].user \in Users
      BY <2>5, UserOf DEF AccountsIInv, OfUser
    <3>2. gone[call[d].user] # "in"
      BY <1>5, <2>1, <2>5, <3>1
    <3>. QED
      BY <2>5, <3>1, <3>2 DEF AccountsIInv, GoneOK, OffboardedIsOut
  <2>. QED
    BY <2>2, <2>4, <2>5 DEF GoneOK, OffboardedIsOut
<1>. QED
  BY <1>4, <1>6 DEF Rows

(* ... and nothing else.                                                    *)
LEMMA ReadmittedOK ==
    ASSUME AccountsIInv, NEW u \in Users, NEW role \in {None, "member", "admin"},
           member' = [member EXCEPT ![u] = [role |-> role, active |-> TRUE]],
           gone' = [gone EXCEPT ![u] = "in"],
           UNCHANGED <<sessions, resets, devices, sso, issued, epoch, keeper, spent, early, crossed>>,
           DOMAIN call' = Calls, \A c \in Calls : CallOK(call'[c]),
           Arrivals' \subseteq Arrivals, Mintings' \subseteq Mintings,
           \A d \in Calls : call'[d].at \in {"forgot", "page", "saving"} => call'[d] = call[d]
    PROVE  AccountsIInv'
<1>1. /\ GoneOK'
      /\ member' \in [Users -> [role : {None, "member", "admin"}, active : BOOLEAN]]
      /\ gone' \in [Users -> {"in", "leaving", "out"}]
  BY Readmitted
<1>2. AccountRows'
  BY <1>1 DEF AccountsIInv, AccountRows, CallOK, OfUser, sso
<1>3. TicketsGood'
  <2>1. OpenResets' = OpenResets
    BY DEF OpenResets
  <2>. QED
    BY <2>1, TicketsSame DEF AccountsIInv, sso
<1>4. OneForgot'
  BY ForgotSame DEF AccountsIInv
<1>5. SecretOK'
  BY SecretSame DEF AccountsIInv, sso
<1>6. ResetSignsOut'
  BY SignedSame DEF AccountsIInv
<1>. QED
  BY <1>1, <1>2, <1>3, <1>4, <1>5, <1>6 DEF AccountsIInv

LEMMA AuthJoinOK ==
    ASSUME AccountsIInv, NEW c \in Calls, AuthJoin(c)
    PROVE  AccountsIInv'
<1>. DEFINE m == [call[c] EXCEPT !.at = "joined"]
            u == call[c].user
<1>1. /\ Goes(c, "identified", m)
      /\ member' = [member EXCEPT ![u] = [role |-> "member", active |-> TRUE]]
      /\ gone' = [gone EXCEPT ![u] = "in"]
      /\ UNCHANGED <<account, sessions, resets, devices, sso, issued, epoch, keeper, spent, early,
                     crossed>>
  BY DEF AuthJoin, AddUserToTenant
<1>2. call[c].at = "identified" /\ CallOK(call[c])
  BY <1>1 DEF Goes, AccountsIInv, AccountRows
<1>3. m.at = "joined" /\ m.user = u /\ m.flow = call[c].flow
  BY <1>2
<1>. HIDE DEF m
<1>4. CallOK(m) /\ u \in Users
  BY <1>2, <1>3 DEF CallOK, OfUser
<1>5. Turn(c, m)
  BY <1>1, <1>4, TurnGoes DEF AccountsIInv
<1>6. \A d \in Calls : call'[d].at \in {"forgot", "page", "saving"} => call'[d] = call[d]
  BY <1>3, <1>5 DEF Turn
<1>7. Arrivals' \subseteq Arrivals /\ Mintings' \subseteq Mintings
  BY <1>2, <1>3, <1>5, VisitGoesOn DEF Visiting
<1>. HIDE DEF u
<1>. QED
  BY <1>1, <1>4, <1>5, <1>6, <1>7, ReadmittedOK DEF Turn

LEMMA GrantOK ==
    ASSUME AccountsIInv, NEW u \in Users, NEW role \in {"member", "admin"},
           AddUserToTenant(u, role), \/ call' = call
                                     \/ \E c \in Calls : Goes(c, "page", Idle),
           UNCHANGED <<account, sessions, resets, devices, sso, issued, epoch, keeper, spent, early,
                       crossed>>
    PROVE  AccountsIInv'
<1>1. DOMAIN call' = Calls /\ (\A c \in Calls : CallOK(call'[c])) /\ Steady
  <2>1. CASE call' = call
    BY <2>1 DEF AccountsIInv, AccountRows, Steady
  <2>2. CASE \E c \in Calls : Goes(c, "page", Idle)
    BY <2>2, TurnGoes, TurnSteady, IdleOK DEF AccountsIInv, Turn
  <2>. QED
    BY <2>1, <2>2
<1>2. \A d \in Calls : call'[d].at \in {"forgot", "page", "saving"} => call'[d] = call[d]
  BY <1>1 DEF Steady, Notable
<1>. QED
  BY <1>1, <1>2, SteadyHeld, ReadmittedOK DEF AddUserToTenant

LEMMA ScimCreateUserOK ==
    ASSUME AccountsIInv, NEW c \in Calls, ScimCreateUser(c)
    PROVE  AccountsIInv'
<1>. DEFINE u == call[c].user
            role == IF member[u] = NoMember THEN "member" ELSE member[u].role
<1>1. /\ Goes(c, "provision", Idle)
      /\ member' = [member EXCEPT ![u] = [role |-> role, active |-> TRUE]]
      /\ gone' = [gone EXCEPT ![u] = "in"]
      /\ UNCHANGED <<sessions, resets, devices, sso, issued, epoch, keeper, spent, early, crossed>>
  BY DEF ScimCreateUser, ScimProvision
<1>2. u \in Users
  BY <1>1, UserOf DEF AccountsIInv, Goes, OfUser
<1>3. Turn(c, Idle) /\ Steady
  BY <1>1, TurnGoes, TurnSteady, IdleOK DEF AccountsIInv
<1>4. \A d \in Calls : call'[d].at \in {"forgot", "page", "saving"} => call'[d] = call[d]
  BY <1>3 DEF Steady, Notable
<1>5. role \in {None, "member", "admin"}
  BY <1>2 DEF AccountsIInv, AccountRows
<1>. HIDE DEF u, role
<1>. QED
  BY <1>1, <1>2, <1>3, <1>4, <1>5, SteadyHeld, ReadmittedOK DEF Turn

(* Deactivating: whoever is in a page by then was let in before it.         *)
LEMMA ScimActiveOK ==
    ASSUME AccountsIInv, NEW c \in Calls, NEW u \in Users, NEW active \in BOOLEAN,
           ScimApplyActive(c, u, active)
    PROVE  AccountsIInv'
<1>. DEFINE m == IF active THEN Idle ELSE [at |-> "offboarding", user |-> u]
<1>1. /\ Starts(c, m) /\ ScimSetActive(u, active)
      /\ UNCHANGED <<account, resets, devices, sso, issued, epoch, keeper, spent, crossed>>
  BY DEF ScimApplyActive
<1>2. CallOK(m) /\ m.at \notin Notable
  BY IdleOK DEF CallOK, OfUser, Notable
<1>. HIDE DEF m
<1>3. Turn(c, m) /\ Steady
  BY <1>1, <1>2, TurnStarts, TurnSteady DEF AccountsIInv
<1>4. /\ member' = [member EXCEPT ![u].active = active]
      /\ gone' = [gone EXCEPT ![u] = IF active THEN "in" ELSE "leaving"]
  BY <1>1 DEF ScimSetActive
<1>5. /\ member'[u].active = active /\ \A v \in Users \ {u} : member'[v] = member[v]
      /\ member' \in [Users -> [role : {None, "member", "admin"}, active : BOOLEAN]]
  BY <1>4 DEF AccountsIInv, AccountRows
<1>6. /\ gone'[u] = (IF active THEN "in" ELSE "leaving") /\ \A v \in Users \ {u} : gone'[v] = gone[v]
      /\ gone' \in [Users -> {"in", "leaving", "out"}]
  BY <1>4 DEF AccountsIInv, AccountRows
<1>7. \A s \in sessions' : \E x \in sessions :
         /\ s.id = x.id /\ s.user = x.user /\ s.at = x.at /\ (s = x \/ s.user = u)
         /\ s \in [id : Sessions, user : Users, at : Nat, late : BOOLEAN]
  <2>1. CASE active
    BY <2>1, <1>1 DEF ScimSetActive, AccountsIInv, AccountRows
  <2>2. CASE ~ active
    <3>1. sessions' = {IF s.user = u THEN [s EXCEPT !.late = FALSE] ELSE s : s \in sessions}
      BY <2>2, <1>1 DEF ScimSetActive
    <3>2. ASSUME NEW x \in sessions
          PROVE  LET s == IF x.user = u THEN [x EXCEPT !.late = FALSE] ELSE x
                 IN  /\ s.id = x.id /\ s.user = x.user /\ s.at = x.at /\ (s = x \/ s.user = u)
                     /\ s \in [id : Sessions, user : Users, at : Nat, late : BOOLEAN]
      <4>1. x \in [id : Sessions, user : Users, at : Nat, late : BOOLEAN]
        BY DEF AccountsIInv, AccountRows
      <4>. QED
        BY <4>1
    <3>. QED
      BY <3>1, <3>2
  <2>. QED
    BY <2>1, <2>2
<1>8. AccountRows'
  BY <1>1, <1>3, <1>5, <1>6, <1>7 DEF AccountsIInv, AccountRows, Turn, CallOK, OfUser, sso
<1>9. ResetSignsOut'
  BY <1>1, <1>7 DEF AccountsIInv, ResetSignsOut
<1>10. GoneOK'
  <2>1. \A v \in Users : gone'[v] # "in" => ~ member'[v].active
    BY <1>5, <1>6 DEF AccountsIInv, GoneOK
  <2>2. \A s \in sessions' : gone'[s.user] = "out" => s.late
    <3>1. \A s \in sessions' : s.user \in Users
      BY <1>7
    <3>. QED
      BY <1>6, <1>7, <3>1 DEF AccountsIInv, GoneOK, OffboardedIsOut
  <2>3. ASSUME NEW d \in Calls, call'[d].at = "page", gone'[call'[d].user] # "in", call'[d].tenant
        PROVE  d \in early'
    <3>1. call'[d] = call[d] /\ call[d].user \in Users
      BY <1>3, <2>3, SteadyParts, UserOf DEF AccountsIInv, OfUser
    <3>2. CASE active
      BY <1>1, <1>6, <2>3, <3>1, <3>2 DEF ScimSetActive, AccountsIInv, GoneOK, OffboardedIsOut
    <3>3. CASE ~ active
      <4>1. early' = early \union {e \in Calls : call[e].at = "page" /\ call[e].user = u}
        BY <1>1, <3>3 DEF ScimSetActive
      <4>2. CASE call[d].user = u
        BY <2>3, <3>1, <4>1, <4>2
      <4>3. CASE call[d].user # u
        BY <1>6, <2>3, <3>1, <4>1, <4>3 DEF AccountsIInv, GoneOK, OffboardedIsOut
      <4>. QED
        BY <4>2, <4>3
    <3>. QED
      BY <3>2, <3>3
  <2>. QED
    BY <2>1, <2>2, <2>3 DEF GoneOK, OffboardedIsOut
<1>11. TicketsGood'
  <2>1. OpenResets' = OpenResets
    BY <1>1 DEF OpenResets
  <2>. QED
    BY <1>1, <1>3, <2>1, SteadyHeld, TicketsSame DEF AccountsIInv, sso
<1>12. OneForgot'
  BY <1>1, <1>3, ForgotSame, SteadyParts DEF AccountsIInv
<1>13. SecretOK'
  BY <1>1, <1>3, SecretSame, SteadyParts DEF AccountsIInv, sso
<1>. QED
  BY <1>8, <1>9, <1>10, <1>11, <1>12, <1>13 DEF AccountsIInv

LEMMA ScimRevokeOK ==
    ASSUME AccountsIInv, NEW c \in Calls, ScimRevoke(c)
    PROVE  AccountsIInv'
<1>. DEFINE u == call[c].user
<1>1. /\ Goes(c, "offboarding", Idle)
      /\ sessions' = {s \in sessions : s.user # u}
      /\ gone' = [gone EXCEPT ![u] = IF @ = "leaving" THEN "out" ELSE @]
      /\ UNCHANGED <<people, resets, devices, sso, issued, epoch, keeper, spent, early, crossed>>
  BY DEF ScimRevoke, DeleteUserSessions
<1>2. u \in Users
  BY <1>1, UserOf DEF AccountsIInv, Goes, OfUser
<1>3. Turn(c, Idle) /\ Steady
  BY <1>1, TurnGoes, TurnSteady, IdleOK DEF AccountsIInv
<1>. HIDE DEF u
<1>4. /\ gone' \in [Users -> {"in", "leaving", "out"}]
      /\ \A v \in Users : (gone'[v] = "in" <=> gone[v] = "in") /\ (v # u => gone'[v] = gone[v])
  BY <1>1, <1>2 DEF AccountsIInv, AccountRows
<1>5. AccountRows'
  BY <1>1, <1>3, <1>4 DEF AccountsIInv, AccountRows, Turn, CallOK, OfUser, people, sso
<1>6. GoneOK'
  <2>1. \A v \in Users : gone'[v] # "in" => ~ member'[v].active
    BY <1>1, <1>4 DEF AccountsIInv, GoneOK, people
  <2>2. \A s \in sessions' : gone'[s.user] = "out" => s.late
    BY <1>1, <1>4 DEF AccountsIInv, AccountRows, GoneOK, OffboardedIsOut
  <2>3. \A d \in Calls : call'[d].at = "page" => call'[d] = call[d] /\ call[d].user \in Users
    BY <1>3, SteadyParts, UserOf DEF AccountsIInv, OfUser
  <2>4. \A d \in Calls : call'[d].at = "page" /\ gone'[call'[d].user] # "in" /\ call'[d].tenant
            => d \in early'
    BY <1>1, <1>4, <2>3 DEF AccountsIInv, GoneOK, OffboardedIsOut
  <2>. QED
    BY <2>1, <2>2, <2>4 DEF GoneOK, OffboardedIsOut
<1>7. TicketsGood'
  <2>1. OpenResets' = OpenResets
    BY <1>1 DEF OpenResets
  <2>. QED
    BY <1>1, <1>3, <2>1, SteadyHeld, TicketsSame DEF AccountsIInv, sso
<1>8. OneForgot'
  BY <1>1, <1>3, ForgotSame, SteadyParts DEF AccountsIInv
<1>9. SecretOK'
  BY <1>1, <1>3, SecretSame, SteadyParts DEF AccountsIInv, sso
<1>10. ResetSignsOut'
  BY <1>1, SignedSame DEF AccountsIInv
<1>. QED
  BY <1>5, <1>6, <1>7, <1>8, <1>9, <1>10 DEF AccountsIInv

(* A request reads its memberships: none of an organisation it has left.    *)
LEMMA MembershipsOK ==
    ASSUME AccountsIInv, NEW c \in Calls, PageMemberships(c)
    PROVE  AccountsIInv'
<1>. DEFINE u == call[c].user
            m == [at |-> "page", user |-> u, tok |-> call[c].tok, super |-> call[c].super,
                  tenant |-> Tenant(u), manager |-> Manager(u)]
<1>1. /\ Goes(c, "seen", m) /\ early' = early \ {c}
      /\ UNCHANGED <<people, sessions, resets, devices, sso, issued, epoch, keeper, gone, spent,
                     crossed>>
  BY DEF PageMemberships
<1>2. u \in Users
  BY <1>1, UserOf DEF AccountsIInv, Goes, OfUser
<1>3. m.at = "page" /\ m.user = u /\ m.tenant = member[u].active
  BY DEF Tenant
<1>. HIDE DEF m, u
<1>4. CallOK(m)
  BY <1>2, <1>3 DEF CallOK
<1>5. Turn(c, m) /\ call[c].at = "seen"
  BY <1>1, <1>4, TurnGoes DEF AccountsIInv
<1>6. \A d \in Calls : call'[d].at \in Notable \ {"page"} => call'[d] = call[d]
  BY <1>3, <1>5 DEF Turn
<1>7. AccountRows'
  BY <1>1, <1>5, RowsSame DEF AccountsIInv, Turn, people, sso
<1>8. GoneOK'
  <2>1. \A d \in Calls : call'[d].at = "page" /\ gone[call'[d].user] # "in" /\ call'[d].tenant
            => d \in early'
    BY <1>1, <1>2, <1>3, <1>5 DEF AccountsIInv, GoneOK, OffboardedIsOut, Turn
  <2>. QED
    BY <1>1, <2>1 DEF AccountsIInv, GoneOK, OffboardedIsOut, people
<1>9. TicketsGood'
  <2>1. OpenResets' = OpenResets
    BY <1>1 DEF OpenResets
  <2>2. Arrivals' \subseteq Arrivals /\ Mintings' \subseteq Mintings
    BY <1>6 DEF Arrivals, Mintings, Visiting, Notable
  <2>. QED
    BY <1>1, <2>1, <2>2, TicketsSame DEF AccountsIInv, sso
<1>10. OneForgot'
  BY <1>1, <1>6, ForgotSame DEF AccountsIInv, Notable
<1>11. SecretOK'
  BY <1>1, <1>6, SecretSame DEF AccountsIInv, sso, Notable
<1>12. ResetSignsOut'
  BY <1>1, SignedSame DEF AccountsIInv
<1>. QED
  BY <1>7, <1>8, <1>9, <1>10, <1>11, <1>12 DEF AccountsIInv

LEMMA AuthSessionOK ==
    ASSUME AccountsIInv, NEW c \in Calls, AuthSession(c)
    PROVE  AccountsIInv'
<1>. DEFINE u == call[c].user
            h == <<c, call[c].flow>>
<1>1. /\ Goes(c, "joined", Idle) /\ (\E s \in Sessions : CreateSession(u, s))
      /\ spent' = [spent EXCEPT ![h[2]] = @ + 1]
      /\ UNCHANGED <<people, resets, devices, sso, epoch, keeper, gone, early, crossed>>
  BY DEF AuthSession
<1>2. u \in Users
  BY <1>1, UserOf DEF AccountsIInv, Goes, OfUser
<1>3. Turn(c, Idle) /\ Steady
  BY <1>1, TurnGoes, TurnSteady, IdleOK DEF AccountsIInv
<1>4. /\ sessions' \subseteq [id : Sessions, user : Users, at : Nat, late : BOOLEAN]
      /\ ResetSignsOut'
      /\ \A x \in sessions' : gone'[x.user] = "out" => x.late
      /\ issued \subseteq issued'
  BY <1>1, <1>2, SessionOpened DEF AccountsIInv, GoneOK
<1>5. h \in Arrivals
  BY <1>1 DEF Goes, Arrivals, Visiting
<1>. HIDE DEF u
<1>6. AccountRows'
  BY <1>1, <1>3, <1>4 DEF AccountsIInv, AccountRows, Turn, CallOK, OfUser, people, sso
<1>7. TicketsGood'
  <2>0. Arrivals' \subseteq Arrivals \ {h}
    BY <1>3 DEF Arrivals, Visiting, Turn, Idle
  <2>. HIDE DEF h
  <2>1. h[2] \in Flows \intersect issued /\ spent[h[2]] = 0
    BY <1>5 DEF AccountsIInv, TicketsGood, TicketsOK
  <2>2. /\ DOMAIN spent' = DOMAIN spent /\ DOMAIN spent = Links \union Flows \union Devices
        /\ spent'[h[2]] = 1 /\ \A t \in DOMAIN spent \ {h[2]} : spent'[t] = spent[t]
    BY <1>1, <2>1 DEF AccountsIInv, TicketsGood, SpentOK
  <2>3. TicketsOK(flows, Arrivals \ {h}, Flows, issued, spent')
    BY <1>5, <2>2, TicketUsed DEF AccountsIInv, TicketsGood
  <2>4. TicketsOK(flows', Arrivals', Flows, issued', spent')
    BY <1>1, <1>4, <2>0, <2>3, TicketsKept DEF sso
  <2>5. OpenResets' = OpenResets /\ Mintings' \subseteq Mintings
    BY <1>1, <1>3, SteadyHeld DEF OpenResets
  <2>6. \A t \in Links \union Devices : spent'[t] = spent[t]
    BY <2>1, <2>2, AccountsAssumption
  <2>7. TicketsOK(OpenResets', {}, Links, issued', spent')
    BY <1>4, <2>5, <2>6, TicketsKept DEF AccountsIInv, TicketsGood
  <2>8. TicketsOK(devices', Mintings', Devices, issued', spent')
    <3>1. TicketsOK(devices, Mintings, Devices, issued, spent) /\ devices' = devices
      BY <1>1 DEF AccountsIInv, TicketsGood
    <3>. QED
      BY <1>4, <2>5, <2>6, <3>1, TicketsKept
  <2>9. spent' \in [Links \union Flows \union Devices -> Nat]
    BY <1>1, <2>1 DEF AccountsIInv, TicketsGood, SpentOK
  <2>10. SpentOK'
    BY <1>4, <2>1, <2>2, <2>9 DEF AccountsIInv, TicketsGood, SpentOK
  <2>. QED
    BY <2>4, <2>7, <2>8, <2>10 DEF TicketsGood, TicketsOK
<1>8. OneForgot'
  BY <1>1, <1>3, ForgotSame, SteadyParts DEF AccountsIInv
<1>9. GoneOK'
  <2>1. \A d \in Calls : call'[d].at = "page" => call'[d] = call[d]
    BY <1>3, SteadyParts
  <2>. QED
    BY <1>1, <1>4, <2>1 DEF AccountsIInv, GoneOK, OffboardedIsOut, people
<1>10. SecretOK'
  BY <1>1, <1>3, SecretSame, SteadyParts DEF AccountsIInv, sso
<1>. QED
  BY <1>4, <1>6, <1>7, <1>8, <1>9, <1>10 DEF AccountsIInv

LEMMA RemoveMemberOK ==
    ASSUME AccountsIInv, NEW c \in Calls, NEW u \in Users, RemoveMember(c, u)
    PROVE  AccountsIInv'
<1>1. /\ Goes(c, "page", Idle) /\ member' = [member EXCEPT ![u] = NoMember]
      /\ UNCHANGED <<account, sessions, resets, devices, sso, issued, past>>
  BY DEF RemoveMember, Page, RemoveFromTenant
<1>2. Turn(c, Idle) /\ Steady
  BY <1>1, TurnGoes, TurnSteady, IdleOK DEF AccountsIInv
<1>3. /\ NoMember \in [role : {None, "member", "admin"}, active : BOOLEAN] /\ ~ NoMember.active
  BY DEF NoMember
<1>4. /\ member' \in [Users -> [role : {None, "member", "admin"}, active : BOOLEAN]]
      /\ \A v \in Users : member'[v].active => member[v].active
  BY <1>1, <1>3 DEF AccountsIInv, AccountRows
<1>5. AccountRows'
  BY <1>1, <1>2, <1>4 DEF AccountsIInv, AccountRows, Turn, CallOK, OfUser, sso, past
<1>6. GoneOK'
  BY <1>1, <1>2, <1>4, GoneSame, SteadyParts DEF AccountsIInv, past
<1>7. TicketsGood'
  <2>1. OpenResets' = OpenResets
    BY <1>1 DEF OpenResets
  <2>. QED
    BY <1>1, <1>2, <2>1, SteadyHeld, TicketsSame DEF AccountsIInv, sso, past
<1>8. OneForgot'
  BY <1>1, <1>2, ForgotSame, SteadyParts DEF AccountsIInv, past
<1>9. SecretOK'
  BY <1>1, <1>2, SecretSame, SteadyParts DEF AccountsIInv, sso, past
<1>10. ResetSignsOut'
  BY <1>1, SignedSame DEF AccountsIInv, past
<1>. QED
  BY <1>5, <1>6, <1>7, <1>8, <1>9, <1>10 DEF AccountsIInv

-----------------------------------------------------------------------------
(* Client secrets.                                                          *)
LEMMA SaveReadOK ==
    ASSUME AccountsIInv, NEW c \in Calls, NEW rule \in DomainRules,
           NEW secret \in Secrets \union {None}, SaveOidcRead(c, rule, secret)
    PROVE  AccountsIInv'
<1>. DEFINE carried == IF secret # None THEN [text |-> secret, sealed |-> FALSE]
                       ELSE IF conns["org"] = None THEN None ELSE conns["org"].secret
            m == [at |-> "saving", rule |-> rule, given |-> secret # None, secret |-> carried]
<1>1. Goes(c, "page", m) /\ UNCHANGED <<people, sessions, resets, devices, sso, issued, past>>
  BY DEF SaveOidcRead, Page
<1>2. m.at = "saving" /\ m.rule = rule /\ m.given = (secret # None) /\ m.secret = carried
  OBVIOUS
<1>3. carried \in Stored \union {None}
  <2>1. conns["org"] \in ConnRows \union {None}
    BY DEF AccountsIInv, AccountRows, Scopes
  <2>. QED
    BY <2>1 DEF ConnRows, Stored
<1>. HIDE DEF m
<1>4. CallOK(m)
  BY <1>2, <1>3 DEF CallOK, OfUser
<1>5. Turn(c, m) /\ call[c].at = "page"
  BY <1>1, <1>4, TurnGoes DEF AccountsIInv
<1>6. \A d \in Calls : call'[d].at \in Notable \ {"saving"} => call'[d] = call[d]
  BY <1>2, <1>5 DEF Turn
<1>7. AccountRows'
  BY <1>1, <1>5, RowsSame DEF AccountsIInv, Turn, people, sso, past
<1>8. SecretOK'
  <2>1. ~ m.given => m.secret = IF conns["org"] = None THEN None ELSE conns["org"].secret
    BY <1>2
  <2>2. \A d \in Calls : call'[d].at = "saving" /\ ~ call'[d].given /\ "saving" \notin crossed =>
          call'[d].secret = IF conns["org"] = None THEN None ELSE conns["org"].secret
    BY <1>5, <2>1 DEF AccountsIInv, SecretOK, Turn
  <2>. QED
    BY <1>1, <2>2 DEF AccountsIInv, SecretOK, SecretLossNeedsRace, sso, past
<1>9. TicketsGood'
  <2>1. OpenResets' = OpenResets
    BY <1>1 DEF OpenResets
  <2>2. Arrivals' \subseteq Arrivals /\ Mintings' \subseteq Mintings
    BY <1>6 DEF Arrivals, Mintings, Visiting, Notable
  <2>. QED
    BY <1>1, <2>1, <2>2, TicketsSame DEF AccountsIInv, sso, past
<1>10. OneForgot'
  BY <1>1, <1>6, ForgotSame DEF AccountsIInv, Notable, past
<1>11. GoneOK'
  BY <1>1, <1>6, GoneSame DEF AccountsIInv, people, Notable, past
<1>12. ResetSignsOut'
  BY <1>1, SignedSame DEF AccountsIInv, past
<1>. QED
  BY <1>7, <1>8, <1>9, <1>10, <1>11, <1>12 DEF AccountsIInv

LEMMA ConnectionSet ==
    ASSUME AccountsIInv, NEW sc \in Scopes, NEW rule \in DomainRules, NEW secret \in Stored \union {None},
           \E id \in ConnIds : SetOidcConnection(sc, rule, secret, id)
    PROVE  /\ conns' \in [Scopes -> ConnRows \union {None}]
           /\ conns'[sc] # None /\ conns'[sc].secret = secret
           /\ \A x \in Scopes \ {sc} : conns'[x] = conns[x]
           /\ flows' \subseteq flows /\ issued \subseteq issued'
<1>1. PICK id \in ConnIds : SetOidcConnection(sc, rule, secret, id)
  OBVIOUS
<1>. DEFINE row == [id |-> id, rule |-> rule, secret |-> secret]
<1>2. row \in ConnRows /\ row.secret = secret
  BY DEF ConnRows
<1>3. conns' = [conns EXCEPT ![sc] = row] /\ flows' \subseteq flows /\ issued \subseteq issued'
  BY <1>1 DEF SetOidcConnection
<1>. HIDE DEF row
<1>4. row # None
  BY <1>2, AccountsAssumption
<1>. QED
  BY <1>2, <1>3, <1>4 DEF AccountsIInv, AccountRows

LEMMA ConnectionOK ==
    ASSUME AccountsIInv, DOMAIN call' = Calls, \A c \in Calls : CallOK(call'[c]), Steady,
           conns' \in [Scopes -> ConnRows \union {None}], DOMAIN latest' = Scopes,
           flows' \subseteq flows, issued \subseteq issued', crossed \subseteq crossed',
           UNCHANGED <<member, sessions, resets, devices, epoch, keeper, gone, spent, early>>,
           SecretOK'
    PROVE  AccountsIInv'
<1>1. AccountRows'
  BY DEF AccountsIInv, AccountRows, CallOK, OfUser
<1>2. TicketsGood'
  <2>1. OpenResets' = OpenResets
    BY DEF OpenResets
  <2>. QED
    BY <2>1, SteadyHeld, TicketsSame DEF AccountsIInv
<1>3. OneForgot'
  BY ForgotSame, SteadyParts DEF AccountsIInv
<1>4. GoneOK'
  BY GoneSame, SteadyParts DEF AccountsIInv
<1>5. ResetSignsOut'
  BY SignedSame DEF AccountsIInv
<1>. QED
  BY <1>1, <1>2, <1>3, <1>4, <1>5 DEF AccountsIInv

LEMMA SaveOidcOK ==
    ASSUME AccountsIInv, NEW c \in Calls, SaveOidc(c)
    PROVE  AccountsIInv'
<1>. DEFINE m == call[c]
<1>1. /\ Goes(c, "saving", Idle)
      /\ \E id \in ConnIds : SetOidcConnection("org", m.rule, m.secret, id)
      /\ latest' = IF m.given THEN [latest EXCEPT !["org"] = m.secret] ELSE latest
      /\ crossed' = Overlap("org")
      /\ UNCHANGED <<people, sessions, resets, devices, scim, epoch, keeper, gone, spent, early>>
  BY DEF SaveOidc
<1>2. m.at = "saving" /\ m.rule \in DomainRules /\ m.secret \in Stored \union {None}
  BY <1>1 DEF Goes, AccountsIInv, AccountRows, CallOK
<1>3. Turn(c, Idle) /\ Steady
  BY <1>1, TurnGoes, TurnSteady, IdleOK DEF AccountsIInv
<1>4. "org" \in Scopes
  BY DEF Scopes
<1>5. /\ conns' \in [Scopes -> ConnRows \union {None}]
      /\ conns'["org"] # None /\ conns'["org"].secret = m.secret
      /\ \A x \in Scopes \ {"org"} : conns'[x] = conns[x]
      /\ flows' \subseteq flows /\ issued \subseteq issued'
  BY <1>1, <1>2, <1>4, ConnectionSet
<1>6. crossed \subseteq crossed'
  BY <1>1 DEF Overlap
<1>7. "saving" \notin crossed' => \A d \in Calls : call'[d].at # "saving"
  BY <1>1, <1>3, SteadyParts DEF Overlap, Idle
<1>8. /\ DOMAIN latest' = Scopes /\ \A x \in Scopes \ {"org"} : latest'[x] = latest[x]
      /\ latest'["org"] = IF m.given THEN m.secret ELSE latest["org"]
  BY <1>1, <1>4 DEF AccountsIInv, AccountRows
<1>9. "saving" \notin crossed' /\ ~ m.given => m.secret = latest["org"]
  <2>. SUFFICES ASSUME "saving" \notin crossed, ~ m.given PROVE m.secret = latest["org"]
    BY <1>6
  <2>1. m.secret = IF conns["org"] = None THEN None ELSE conns["org"].secret
    BY <1>2 DEF AccountsIInv, SecretOK
  <2>. QED
    BY <1>4, <2>1 DEF AccountsIInv, SecretOK, SecretLossNeedsRace
<1>. HIDE DEF m
<1>10. SecretOK'
  <2>1. \A sc \in Scopes : conns'[sc] # None /\ conns'[sc].secret # latest'[sc] => "saving" \in crossed'
    BY <1>5, <1>6, <1>8, <1>9 DEF AccountsIInv, SecretOK, SecretLossNeedsRace
  <2>2. \A sc \in Scopes : conns'[sc] = None => latest'[sc] = None
    BY <1>5, <1>8 DEF AccountsIInv, SecretOK
  <2>. QED
    BY <1>7, <2>1, <2>2 DEF SecretOK, SecretLossNeedsRace
<1>. QED
  BY <1>1, <1>3, <1>5, <1>6, <1>8, <1>10, ConnectionOK DEF people, Turn

LEMMA OidcConfigOK ==
    ASSUME AccountsIInv, NEW sc \in Scopes, NEW rule \in DomainRules,
           NEW secret \in Secrets \union {None}, OidcConfig(sc, rule, secret)
    PROVE  AccountsIInv'
<1>. DEFINE stored == IF secret = None THEN None ELSE [text |-> secret, sealed |-> TRUE]
<1>1. /\ call' = call
      /\ \E id \in ConnIds : SetOidcConnection(sc, rule, stored, id)
      /\ latest' = [latest EXCEPT ![sc] = stored]
      /\ crossed' = Overlap(sc)
      /\ UNCHANGED <<people, sessions, resets, devices, scim, epoch, keeper, gone, spent, early>>
  BY DEF OidcConfig, Operator
<1>2. stored \in Stored \union {None}
  BY DEF Stored
<1>. HIDE DEF stored
<1>3. DOMAIN call' = Calls /\ (\A c \in Calls : CallOK(call'[c])) /\ Steady
  BY <1>1 DEF AccountsIInv, AccountRows, Steady
<1>4. /\ conns' \in [Scopes -> ConnRows \union {None}]
      /\ conns'[sc] # None /\ conns'[sc].secret = stored
      /\ \A x \in Scopes \ {sc} : conns'[x] = conns[x]
      /\ flows' \subseteq flows /\ issued \subseteq issued'
  BY <1>1, <1>2, ConnectionSet
<1>5. crossed \subseteq crossed'
  BY <1>1 DEF Overlap
<1>6. DOMAIN latest' = Scopes /\ latest'[sc] = stored /\ \A x \in Scopes \ {sc} : latest'[x] = latest[x]
  BY <1>1 DEF AccountsIInv, AccountRows
<1>7. sc = "org" /\ "saving" \notin crossed' => \A d \in Calls : call[d].at # "saving"
  BY <1>1 DEF Overlap, Idle
<1>8. SecretOK'
  <2>1. \A x \in Scopes : conns'[x] # None /\ conns'[x].secret # latest'[x] => "saving" \in crossed'
    BY <1>4, <1>5, <1>6 DEF AccountsIInv, SecretOK, SecretLossNeedsRace
  <2>2. \A x \in Scopes : conns'[x] = None => latest'[x] = None
    BY <1>4, <1>6 DEF AccountsIInv, SecretOK
  <2>3. ASSUME NEW d \in Calls, call[d].at = "saving", ~ call[d].given, "saving" \notin crossed'
        PROVE  call[d].secret = IF conns'["org"] = None THEN None ELSE conns'["org"].secret
    <3>1. sc # "org" /\ "org" \in Scopes
      BY <1>7, <2>3 DEF Scopes
    <3>2. conns'["org"] = conns["org"]
      BY <1>4, <3>1
    <3>. QED
      BY <1>5, <2>3, <3>2 DEF AccountsIInv, SecretOK
  <2>. QED
    BY <1>1, <2>1, <2>2, <2>3 DEF SecretOK, SecretLossNeedsRace
<1>. QED
  BY <1>1, <1>3, <1>4, <1>5, <1>6, <1>8, ConnectionOK DEF people

-----------------------------------------------------------------------------
(* Device codes: drawn, rewritten by whoever decides, taken by one poll.    *)
LEMMA DevicesOK ==
    ASSUME AccountsIInv, DOMAIN call' = Calls, \A c \in Calls : CallOK(call'[c]),
           \A d \in Calls : call'[d].at \in Notable \ {"minting"} => call'[d] = call[d],
           issued \subseteq issued',
           TicketsOK(devices', Mintings', Devices, issued', spent'), SpentOK',
           \A t \in Links \union Flows : spent'[t] = spent[t],
           UNCHANGED <<member, sessions, resets, conns, flows, latest, epoch, keeper, gone, early,
                       crossed>>
    PROVE  AccountsIInv'
<1>1. AccountRows'
  BY RowsSame DEF AccountsIInv
<1>2. TicketsGood'
  <2>1. OpenResets' = OpenResets
    BY DEF OpenResets
  <2>2. Arrivals' \subseteq Arrivals
    BY DEF Arrivals, Visiting, Notable
  <2>3. TicketsOK(OpenResets', {}, Links, issued', spent')
    BY <2>1, TicketsKept DEF AccountsIInv, TicketsGood
  <2>4. TicketsOK(flows', Arrivals', Flows, issued', spent')
    BY <2>2, TicketsKept DEF AccountsIInv, TicketsGood
  <2>. QED
    BY <2>3, <2>4 DEF TicketsGood, TicketsOK
<1>3. OneForgot'
  BY ForgotSame DEF AccountsIInv, Notable
<1>4. GoneOK'
  BY GoneSame DEF AccountsIInv, Notable
<1>5. SecretOK'
  BY SecretSame DEF AccountsIInv, Notable
<1>6. ResetSignsOut'
  BY SignedSame DEF AccountsIInv
<1>. QED
  BY <1>1, <1>2, <1>3, <1>4, <1>5, <1>6 DEF AccountsIInv

LEMMA DecideOK ==
    ASSUME AccountsIInv, NEW c \in Calls, NEW d \in devices, DeviceApprove(c, d) \/ DeviceDeny(c, d)
    PROVE  AccountsIInv'
<1>1. /\ Goes(c, "page", Idle)
      /\ UNCHANGED <<people, sessions, resets, sso, issued, past>>
  BY DEF DeviceApprove, DeviceDeny, Page
<1>2. PICK status : devices' = (devices \ {d}) \union {[d EXCEPT !.status = status]}
  BY DEF DeviceApprove, DeviceDeny, ApproveDeviceFlow, DenyDeviceFlow
<1>3. Turn(c, Idle) /\ Steady
  BY <1>1, TurnGoes, TurnSteady, IdleOK DEF AccountsIInv
<1>4. TicketsOK(devices', Mintings', Devices, issued', spent')
  <2>. DEFINE e == [d EXCEPT !.status = status]
  <2>1. e.id = d.id
    OBVIOUS
  <2>. HIDE DEF e
  <2>2. TicketsOK((devices \ {d}) \union {e}, Mintings, Devices, issued, spent)
    BY <2>1, TicketRewritten DEF AccountsIInv, TicketsGood
  <2>3. devices' = (devices \ {d}) \union {e}
    BY <1>2 DEF e
  <2>4. Mintings' \subseteq Mintings
    BY <1>3, SteadyHeld
  <2>. QED
    BY <1>1, <2>2, <2>3, <2>4, TicketsKept DEF past
<1>5. SpentOK'
  BY <1>1 DEF AccountsIInv, TicketsGood, SpentOK, past
<1>. QED
  BY <1>1, <1>3, <1>4, <1>5, DevicesOK DEF Turn, Steady, people, sso, past

LEMMA OauthDeviceOK ==
    ASSUME AccountsIInv, NEW c \in Calls, OauthDevice(c)
    PROVE  AccountsIInv'
<1>1. Starts(c, Idle) /\ UNCHANGED <<people, sessions, resets, sso, past>>
  BY DEF OauthDevice
<1>2. PICK d \in Devices \ issued : /\ devices' = devices \union {[id |-> d, status |-> "pending"]}
                                    /\ issued' = issued \union {d}
  BY DEF OauthDevice, StartDeviceFlow, Fresh
<1>3. Turn(c, Idle) /\ Steady
  BY <1>1, TurnStarts, TurnSteady, IdleOK DEF AccountsIInv
<1>4. TicketsOK(devices', Mintings', Devices, issued', spent')
  <2>. DEFINE x == [id |-> d, status |-> "pending"]
  <2>1. x.id = d /\ devices' = devices \union {x}
    BY <1>2
  <2>. HIDE DEF x
  <2>2. spent[d] = 0
    BY <1>2 DEF AccountsIInv, TicketsGood, SpentOK
  <2>3. TicketsOK(devices', Mintings, Devices, issued', spent)
    BY <1>2, <2>1, <2>2, TicketDrawn DEF AccountsIInv, TicketsGood
  <2>4. Mintings' \subseteq Mintings
    BY <1>3, SteadyHeld
  <2>. QED
    BY <1>1, <2>3, <2>4, TicketsKept DEF past
<1>5. SpentOK'
  BY <1>1, <1>2 DEF AccountsIInv, TicketsGood, SpentOK, past
<1>. QED
  BY <1>1, <1>2, <1>3, <1>4, <1>5, DevicesOK DEF Turn, Steady, people, sso, past

LEMMA PollOK ==
    ASSUME AccountsIInv, NEW c \in Calls, NEW d \in devices, DeviceTokenPoll(c, d)
    PROVE  AccountsIInv'
<1>. DEFINE m == [at |-> "minting", device |-> d.id]
<1>1. /\ Starts(c, m) /\ devices' = devices \ {d}
      /\ UNCHANGED <<people, sessions, resets, sso, issued, past>>
  BY DEF DeviceTokenPoll, PollDeviceFlow
<1>2. CallOK(m) /\ m.at = "minting" /\ m.device = d.id
  BY DEF CallOK, OfUser
<1>. HIDE DEF m
<1>3. Turn(c, m) /\ call[c].at = "idle"
  BY <1>1, <1>2, TurnStarts DEF AccountsIInv
<1>4. TicketsOK(devices', Mintings', Devices, issued', spent')
  <2>1. Mintings' \subseteq Mintings \union {<<c, d.id>>}
    BY <1>2, <1>3 DEF Mintings, Turn
  <2>2. TicketsOK(devices \ {d}, Mintings \union {<<c, d.id>>}, Devices, issued, spent)
    BY TicketPresented DEF AccountsIInv, TicketsGood
  <2>. QED
    BY <1>1, <2>1, <2>2, TicketsKept DEF past
<1>5. SpentOK'
  BY <1>1 DEF AccountsIInv, TicketsGood, SpentOK, past
<1>6. \A e \in Calls : call'[e].at \in Notable \ {"minting"} => call'[e] = call[e]
  BY <1>2, <1>3 DEF Turn
<1>. QED
  BY <1>1, <1>3, <1>4, <1>5, <1>6, DevicesOK DEF Turn, people, sso, past

LEMMA DeviceTokenOK ==
    ASSUME AccountsIInv, NEW c \in Calls, OauthDeviceToken(c)
    PROVE  AccountsIInv'
<1>. DEFINE h == <<c, call[c].device>>
<1>1. /\ Goes(c, "minting", Idle) /\ spent' = [spent EXCEPT ![h[2]] = @ + 1]
      /\ UNCHANGED <<people, sessions, resets, devices, sso, issued, epoch, keeper, gone, early,
                     crossed>>
  BY DEF OauthDeviceToken
<1>2. Turn(c, Idle) /\ Steady
  BY <1>1, TurnGoes, TurnSteady, IdleOK DEF AccountsIInv
<1>3. h \in Mintings
  BY <1>1 DEF Goes, Mintings
<1>4. Mintings' \subseteq Mintings \ {h}
  BY <1>2 DEF Mintings, Turn, Idle
<1>. HIDE DEF h
<1>5. h[2] \in Devices \intersect issued /\ spent[h[2]] = 0
  BY <1>3 DEF AccountsIInv, TicketsGood, TicketsOK
<1>6. /\ DOMAIN spent' = DOMAIN spent /\ DOMAIN spent = Links \union Flows \union Devices
      /\ spent'[h[2]] = 1 /\ \A t \in DOMAIN spent \ {h[2]} : spent'[t] = spent[t]
  BY <1>1, <1>5 DEF AccountsIInv, TicketsGood, SpentOK
<1>7. TicketsOK(devices', Mintings', Devices, issued', spent')
  <2>1. TicketsOK(devices, Mintings \ {h}, Devices, issued, spent')
    BY <1>3, <1>6, TicketUsed DEF AccountsIInv, TicketsGood
  <2>. QED
    BY <1>1, <1>4, <2>1, TicketsKept
<1>8. \A t \in Links \union Flows : spent'[t] = spent[t]
  BY <1>5, <1>6, AccountsAssumption
<1>9. SpentOK'
  <2>1. spent' \in [Links \union Flows \union Devices -> Nat]
    BY <1>1, <1>5 DEF AccountsIInv, TicketsGood, SpentOK
  <2>. QED
    BY <1>1, <1>5, <1>6, <2>1 DEF AccountsIInv, TicketsGood, SpentOK
<1>. QED
  BY <1>1, <1>2, <1>7, <1>8, <1>9, DevicesOK DEF Turn, Steady, people, sso

-----------------------------------------------------------------------------
(* What lapses is what a request could have taken away.                     *)
LEMMA LapseOK ==
    ASSUME AccountsIInv, Lapse
    PROVE  AccountsIInv'
<1>1. call' = call /\ UNCHANGED <<people, conns, scim, latest, issued, past>>
  BY DEF Lapse, Operator
<1>2. DOMAIN call' = Calls /\ (\A c \in Calls : CallOK(call'[c])) /\ Steady
  BY <1>1 DEF AccountsIInv, AccountRows, Steady
<1>3. CASE UNCHANGED resets
  <2>1. sessions' \subseteq sessions /\ flows' \subseteq flows /\ devices' \subseteq devices
    BY DEF Lapse
  <2>. QED
    BY <1>1, <1>2, <1>3, <2>1, QuietStep DEF people
<1>4. CASE resets' # resets
  <2>1. PICK r \in resets : r.open /\ resets' = (resets \ {r}) \union {[r EXCEPT !.open = FALSE]}
    BY <1>4 DEF Lapse
  <2>2. UNCHANGED <<sessions, flows, devices>>
    BY <1>4 DEF Lapse
  <2>3. /\ resets' \subseteq [id : Links, user : Users, open : BOOLEAN]
        /\ OpenResets' \subseteq OpenResets
        /\ \A x \in resets' : \E q \in resets : q.id = x.id /\ q.user = x.user /\ (x.open => q = x)
    BY <2>1, LinkClosed
  <2>4. AccountRows'
    BY <1>1, <1>2, <2>2, <2>3 DEF AccountsIInv, AccountRows, CallOK, OfUser, people, past
  <2>5. TicketsGood'
    BY <1>1, <1>2, <2>2, <2>3, SteadyHeld, TicketsSame DEF AccountsIInv, past
  <2>6. OneForgot'
    BY <1>1, <1>2, <2>3, ForgotSame, SteadyParts DEF AccountsIInv, past
  <2>7. GoneOK'
    BY <1>1, <1>2, <2>2, GoneSame, SteadyParts DEF AccountsIInv, people, past
  <2>8. SecretOK'
    BY <1>1, <1>2, SecretSame, SteadyParts DEF AccountsIInv, past
  <2>9. ResetSignsOut'
    BY <1>1, <2>2, SignedSame DEF AccountsIInv, past
  <2>. QED
    BY <2>4, <2>5, <2>6, <2>7, <2>8, <2>9 DEF AccountsIInv
<1>. QED
  BY <1>3, <1>4

LEMMA QuietStarts ==
    ASSUME AccountsIInv, NEW c \in Calls, NEW m, CallOK(m), m.at \notin Notable, Starts(c, m),
           UNCHANGED <<member, sessions, resets, devices, sso, issued, past>>
    PROVE  AccountsIInv'
BY TurnStarts, QuietTurn DEF AccountsIInv, sso

LEMMA CallQuiet ==
    ASSUME AccountsIInv, NEW c \in Calls, NEW at, Goes(c, at, Idle), sessions' \subseteq sessions,
           UNCHANGED <<member, resets, devices, conns, flows, latest, issued, past>>
    PROVE  AccountsIInv'
BY TurnGoes, IdleOK, QuietTurn DEF AccountsIInv

LEMMA QuietOperator ==
    ASSUME AccountsIInv, Operator,
           UNCHANGED <<member, sessions, resets, devices, conns, flows, latest, issued, past>>
    PROVE  AccountsIInv'
<1>1. DOMAIN call' = Calls /\ (\A c \in Calls : CallOK(call'[c])) /\ Steady
  BY DEF AccountsIInv, AccountRows, Steady, Operator
<1>. QED
  BY <1>1, QuietStep

LEMMA PagesOK ==
    ASSUME AccountsIInv, NEW c \in Calls, Pages(c)
    PROVE  AccountsIInv'
<1>1. ASSUME NEW s \in sessions, PageSession(c, s) PROVE AccountsIInv'
  <2>. DEFINE m == [at |-> "seen", user |-> s.user, tok |-> s.id, super |-> account[s.user].super]
  <2>1. s.user \in Users
    BY DEF AccountsIInv, AccountRows
  <2>2. CallOK(m) /\ m.at \notin Notable
    BY <2>1 DEF CallOK, OfUser, Notable
  <2>3. Starts(c, m)
    BY <1>1 DEF PageSession
  <2>. HIDE DEF m
  <2>. QED
    BY <1>1, <2>2, <2>3, QuietStarts DEF PageSession, people
<1>2. CASE AccountPage(c)
  BY <1>2, CallQuiet DEF AccountPage, Page, people, sso
<1>3. ASSUME NEW s \in Sessions, RevokeMySession(c, s) PROVE AccountsIInv'
  BY <1>3, CallQuiet DEF RevokeMySession, RevokeSessionForUser, Page, people, sso
<1>4. CASE Logout(c)
  BY <1>4, CallQuiet DEF Logout, DeleteSession, Page, people, sso
<1>5. ASSUME NEW u, NEW p, NEW super, CreateUserForm(c, u, p, super) PROVE AccountsIInv'
  BY <1>5, CallQuiet DEF CreateUserForm, Page, sso
<1>6. ASSUME NEW u \in Users, NEW role \in {"member", "admin"}, GrantTenant(c, u, role)
      PROVE  AccountsIInv'
  BY <1>6, GrantOK DEF GrantTenant, Page
<1>7. CASE GenScimToken(c)
  BY <1>7, CallQuiet DEF GenScimToken, Page, people
<1>. QED
  BY <1>1, <1>2, <1>3, <1>4, <1>5, <1>6, <1>7, MembershipsOK, ChangePasswordOK, RemoveMemberOK,
     SaveReadOK, SaveOidcOK, DecideOK DEF Pages

LEMMA SignInsOK ==
    ASSUME AccountsIInv, NEW c \in Calls, SignIns(c)
    PROVE  AccountsIInv'
<1>1. ASSUME NEW u \in Users, NEW p, LoginVerify(c, u, p) PROVE AccountsIInv'
  <2>. DEFINE m == [at |-> "verified", user |-> u]
  <2>1. CallOK(m) /\ m.at \notin Notable
    BY DEF CallOK, OfUser, Notable
  <2>2. Starts(c, m)
    BY <1>1 DEF LoginVerify
  <2>. HIDE DEF m
  <2>. QED
    BY <1>1, <2>1, <2>2, QuietStarts DEF LoginVerify, people
<1>2. ASSUME NEW r \in resets, ResetForm(c, r) PROVE AccountsIInv'
  <2>. DEFINE m == [at |-> "chosen", link |-> r.id]
  <2>1. CallOK(m) /\ m.at \notin Notable
    BY DEF CallOK, OfUser, Notable
  <2>2. Starts(c, m)
    BY <1>2 DEF ResetForm
  <2>. HIDE DEF m
  <2>. QED
    BY <1>2, <2>1, <2>2, QuietStarts DEF ResetForm, people
<1>3. CASE ResetLate(c)
  BY <1>3, CallQuiet DEF ResetLate, people, sso
<1>4. CASE AuthRefused(c)
  BY <1>4, CallQuiet DEF AuthRefused, people, sso
<1>5. ASSUME NEW u \in Users, AuthRoute(c, u) PROVE AccountsIInv'
  BY <1>5, AuthStartOK DEF AuthRoute
<1>. QED
  BY <1>1, <1>2, <1>3, <1>4, <1>5, LoginSessionOK, ForgotReadOK, ForgotCommitOK, ResetPasswordOK,
     AuthStartOK, AuthCallbackOK, AuthIdentityOK, AuthJoinOK, AuthSessionOK DEF SignIns

LEMMA ServicesOK ==
    ASSUME AccountsIInv, NEW c \in Calls, Services(c)
    PROVE  AccountsIInv'
<1>1. ASSUME NEW u \in Users, ScimCreateCheck(c, u) PROVE AccountsIInv'
  <2>. DEFINE m == [at |-> "provision", user |-> u]
  <2>1. CallOK(m) /\ m.at \notin Notable
    BY DEF CallOK, OfUser, Notable
  <2>2. Starts(c, m)
    BY <1>1 DEF ScimCreateCheck
  <2>. HIDE DEF m
  <2>. QED
    BY <1>1, <2>1, <2>2, QuietStarts DEF ScimCreateCheck, people
<1>2. CASE ScimRevokeFails(c)
  BY <1>2, CallQuiet DEF ScimRevokeFails, people, sso
<1>3. CASE DeviceTokenFails(c)
  BY <1>3, CallQuiet DEF DeviceTokenFails, people, sso
<1>. QED
  BY <1>1, <1>2, <1>3, ScimCreateUserOK, ScimActiveOK, ScimRevokeOK, OauthDeviceOK, PollOK, DeviceTokenOK
     DEF Services, ScimPatchUser, ScimDeleteUser

LEMMA AccountsNext == AccountsIInv /\ [Next]_vars => AccountsIInv'
<1>. SUFFICES ASSUME AccountsIInv, [Next]_vars PROVE AccountsIInv'
  OBVIOUS
<1>1. CASE CommandLine
  <2>1. ASSUME NEW u, NEW p, NEW super, UserCreate(u, p, super) PROVE AccountsIInv'
    BY <2>1, QuietOperator DEF UserCreate, sso
  <2>2. ASSUME NEW u \in Users, NEW role \in {"member", "admin"}, UserGrant(u, role)
        PROVE  AccountsIInv'
    BY <2>2, GrantOK DEF UserGrant, Operator
  <2>3. CASE ScimToken
    BY <2>3, QuietOperator DEF ScimToken, people
  <2>. QED
    BY <1>1, <2>1, <2>2, <2>3, OidcConfigOK DEF CommandLine
<1>2. CASE UNCHANGED vars
  <2>1. DOMAIN call' = Calls /\ (\A c \in Calls : CallOK(call'[c])) /\ Steady
    BY <1>2 DEF AccountsIInv, AccountRows, Steady, vars
  <2>. QED
    BY <1>2, <2>1, QuietStep DEF vars, past
<1>. QED
  BY <1>1, <1>2, PagesOK, SignInsOK, ServicesOK, LapseOK DEF Next

LEMMA AccountsInvariant == Spec => []AccountsIInv
BY AccountsInit, AccountsNext, PTL DEF Spec

-----------------------------------------------------------------------------
(* A password that was reset or changed has signed out: no session of its   *)
(* user opened before is left but the one the change was made from          *)
(* (reset_password, change_password), whatever sign-ins overlap.            *)
THEOREM PasswordSignsOut == Spec => []ResetSignsOut
<1>1. AccountsIInv => ResetSignsOut
  BY DEF AccountsIInv
<1>. QED
  BY <1>1, AccountsInvariant, PTL

(* A reset link sets one password, a sign-on state opens one session and a  *)
(* device code is given one token, however the calls that present it        *)
(* overlap (reset_password, consume_oidc_flow, poll_device_flow).           *)
THEOREM GoodOnce == Spec => []OneUseEach
<1>1. AccountsIInv => OneUseEach
  BY DEF AccountsIInv, TicketsGood, SpentOK, OneUseEach
<1>. QED
  BY <1>1, AccountsInvariant, PTL

(* A user has two open reset links only after two requests for one ran at   *)
(* the same time (create_password_reset deletes what it saw).               *)
THEOREM OneLiveLink == Spec => []LinksNeedRace
<1>1. AccountsIInv => LinksNeedRace
  <2>. SUFFICES ASSUME AccountsIInv, NEW u \in Users, u \notin crossed
                PROVE  Cardinality({r \in resets : r.user = u /\ r.open}) <= 1
    BY DEF LinksNeedRace
  <2>. DEFINE R == {r \in resets : r.user = u /\ r.open}
  <2>1. \A r, q \in R : r = q
    BY DEF AccountsIInv, OneForgot
  <2>. HIDE DEF R
  <2>2. CASE R = {}
    BY <2>2, FS_EmptySet DEF R
  <2>3. CASE R # {}
    <3>1. PICK r \in R : TRUE
      BY <2>3
    <3>2. R = {r}
      BY <2>1, <3>1
    <3>. QED
      BY <3>2, FS_Singleton DEF R
  <2>. QED
    BY <2>2, <2>3
<1>. QED
  BY <1>1, AccountsInvariant, PTL

(* Offboarded is out: once SCIM has deactivated a member and revoked the    *)
(* sessions (scim_apply_active), those left were opened after it, and only  *)
(* requests that were let in before act for the organisation.               *)
THEOREM OffboardingHolds == Spec => []OffboardedIsOut
<1>1. AccountsIInv => OffboardedIsOut
  BY DEF AccountsIInv, GoneOK
<1>. QED
  BY <1>1, AccountsInvariant, PTL

(* A stored client secret is lost only to a save that overlapped another    *)
(* (save_oidc reads back what the form leaves blank).                       *)
THEOREM SecretsKept == Spec => []SecretLossNeedsRace
<1>1. AccountsIInv => SecretLossNeedsRace
  BY DEF AccountsIInv, SecretOK
<1>. QED
  BY <1>1, AccountsInvariant, PTL

-----------------------------------------------------------------------------
(* The rows of accounts and what refers to them.                            *)

AccountRow == [pw : Passwords \union {None, "random"}, super : BOOLEAN]
Holding    == {"verified", "forgot", "identified", "joined"}

Rowed ==
    /\ account \in [Users -> AccountRow]
    /\ \A u \in Users : account[u].pw = None => account[u] = NoUser

MembersKnown == \A u \in Users : member[u] # NoMember => Known(u)
RowsKnown    == \A x \in sessions \union resets : Known(x.user)
CallsKnown   == \A c \in Calls : call[c].at \in Holding => Known(call[c].user)

HoldersOK == Rowed /\ MembersKnown /\ RowsKnown /\ CallsKnown

(* Nobody is forgotten.                                                     *)
KnownStay == \A u \in Users : account[u] # NoUser => account'[u] # NoUser

LEMMA AccountSame ==
    ASSUME Rowed, UNCHANGED account
    PROVE  Rowed' /\ KnownStay
BY DEF Rowed, KnownStay

LEMMA AccountSet ==
    ASSUME Rowed, NEW u \in Users, NEW row \in AccountRow, row.pw # None,
           account' = [account EXCEPT ![u] = row]
    PROVE  Rowed' /\ KnownStay /\ account'[u] # NoUser
<1>1. NoUser.pw = None
  BY DEF NoUser
<1>2. account \in [Users -> AccountRow]
  BY DEF Rowed
<1>3. account' \in [Users -> AccountRow] /\ account'[u] = row
      /\ \A v \in Users : v # u => account'[v] = account[v]
  BY <1>2
<1>4. account'[u] # NoUser
  BY <1>1, <1>3
<1>5. \A v \in Users : account'[v].pw = None => account'[v] = NoUser
  BY <1>3 DEF Rowed
<1>6. KnownStay
  BY <1>3, <1>4 DEF KnownStay
<1>. QED
  BY <1>3, <1>4, <1>5, <1>6 DEF Rowed

(* A known account has a password, of whatever kind.                        *)
LEMMA KnownRow ==
    ASSUME Rowed, NEW u \in Users
    PROVE  /\ account[u] \in AccountRow /\ account[u].super \in BOOLEAN
           /\ account[u].pw \in Passwords \union {None, "random"}
           /\ Known(u) => account[u].pw # None
BY DEF Rowed, Known, AccountRow

LEMMA PasswordRow ==
    ASSUME NEW p \in Passwords \union {"random"}, NEW super \in BOOLEAN
    PROVE  LET row == [pw |-> p, super |-> super] IN row \in AccountRow /\ row.pw # None
BY AccountsAssumption DEF AccountRow

LEMMA PasswordSet ==
    ASSUME Rowed, NEW u \in Users, NEW p \in Passwords, account' = [account EXCEPT ![u].pw = p]
    PROVE  Rowed' /\ KnownStay /\ account'[u] # NoUser
<1>. DEFINE row == [account[u] EXCEPT !.pw = p]
<1>1. account[u] \in AccountRow
  BY KnownRow
<1>2. row \in AccountRow /\ row.pw = p
  BY <1>1 DEF AccountRow
<1>3. account' = [account EXCEPT ![u] = row]
  OBVIOUS
<1>4. p # None
  BY AccountsAssumption
<1>. HIDE DEF row
<1>. QED
  BY <1>2, <1>3, <1>4, AccountSet

LEMMA CallsKept ==
    ASSUME AccountRows, CallsKnown, KnownStay, NEW c \in Calls, NEW m,
           call' = [call EXCEPT ![c] = m], m.at \in Holding => account'[m.user] # NoUser
    PROVE  CallsKnown'
<1>1. /\ DOMAIN call = Calls /\ call'[c] = m
      /\ \A d \in Calls : d # c => call'[d] = call[d]
  BY DEF AccountRows
<1>2. ASSUME NEW d \in Calls, call[d].at \in Holding
      PROVE  account'[call[d].user] # NoUser
  <2>1. call[d].user \in Users /\ account[call[d].user] # NoUser
    BY <1>2, UserOf DEF OfUser, Holding, CallsKnown, Known
  <2>. QED
    BY <2>1 DEF KnownStay
<1>3. \A d \in Calls : call'[d].at \in Holding => account'[call'[d].user] # NoUser
  BY <1>1, <1>2
<1>. QED
  BY <1>3 DEF CallsKnown, Known

LEMMA CallsHold ==
    ASSUME AccountRows, CallsKnown, KnownStay, UNCHANGED call
    PROVE  CallsKnown'
<1>1. ASSUME NEW d \in Calls, call[d].at \in Holding
      PROVE  account'[call[d].user] # NoUser
  <2>1. call[d].user \in Users /\ account[call[d].user] # NoUser
    BY <1>1, UserOf DEF OfUser, Holding, CallsKnown, Known
  <2>. QED
    BY <2>1 DEF KnownStay
<1>. QED
  BY <1>1 DEF CallsKnown, Known

LEMMA RowsKept ==
    ASSUME AccountRows, RowsKnown, KnownStay,
           \A x \in sessions' \union resets' :
              account'[x.user] # NoUser \/ \E y \in sessions \union resets : y.user = x.user
    PROVE  RowsKnown'
<1>1. \A y \in sessions \union resets : y.user \in Users
  BY DEF AccountRows
<1>2. \A y \in sessions \union resets : account'[y.user] # NoUser
  BY <1>1 DEF RowsKnown, Known, KnownStay
<1>. QED
  BY <1>2 DEF RowsKnown, Known

LEMMA MembersKept ==
    ASSUME MembersKnown, KnownStay,
           \A u \in Users : member'[u] # NoMember => member[u] # NoMember \/ account'[u] # NoUser
    PROVE  MembersKnown'
BY DEF MembersKnown, KnownStay, Known

(* Most requests leave the accounts, the members and who holds a session or *)
(* a link.                                                                  *)
LEMMA HoldersTurn ==
    ASSUME AccountRows, HoldersOK, NEW c \in Calls, NEW m, call' = [call EXCEPT ![c] = m],
           m.at \in Holding => account[m.user] # NoUser,
           UNCHANGED <<account, member>>, sessions' \subseteq sessions, resets' \subseteq resets
    PROVE  HoldersOK'
<1>1. Rowed' /\ KnownStay
  BY AccountSame DEF HoldersOK
<1>2. MembersKnown'
  BY <1>1, MembersKept DEF HoldersOK
<1>3. RowsKnown'
  BY <1>1, RowsKept DEF HoldersOK
<1>4. CallsKnown'
  BY <1>1, CallsKept DEF HoldersOK
<1>. QED
  BY <1>1, <1>2, <1>3, <1>4 DEF HoldersOK

LEMMA HoldersLeave ==
    ASSUME AccountRows, HoldersOK, NEW c \in Calls, NEW at, Goes(c, at, Idle),
           UNCHANGED <<account, member>>, sessions' \subseteq sessions, resets' \subseteq resets
    PROVE  HoldersOK'
BY HoldersTurn DEF Goes, Idle, Holding

(* Membership is of known users.                                            *)
LEMMA HoldersJoin ==
    ASSUME AccountRows, HoldersOK, NEW u \in Users, NEW row, Rowed', KnownStay, account'[u] # NoUser,
           member' = [member EXCEPT ![u] = row], UNCHANGED <<sessions, resets>>, CallsKnown'
    PROVE  HoldersOK'
<1>1. \A v \in Users : v # u => member'[v] = member[v]
  BY DEF AccountRows
<1>2. MembersKnown'
  BY <1>1, MembersKept DEF HoldersOK
<1>3. RowsKnown'
  BY RowsKept DEF HoldersOK
<1>. QED
  BY <1>2, <1>3 DEF HoldersOK

(* Writing an account forgets nobody.                                       *)
LEMMA HoldersWrite ==
    ASSUME AccountRows, HoldersOK, Rowed', KnownStay, CallsKnown', UNCHANGED member,
           \A x \in sessions' \union resets' : \E y \in sessions \union resets : y.user = x.user
    PROVE  HoldersOK'
<1>1. MembersKnown'
  BY MembersKept DEF HoldersOK
<1>2. RowsKnown'
  BY RowsKept DEF HoldersOK
<1>. QED
  BY <1>1, <1>2 DEF HoldersOK

LEMMA ChangeHolders ==
    ASSUME AccountRows, HoldersOK, NEW c \in Calls, NEW old \in Passwords, NEW new \in Passwords,
           ChangeMyPassword(c, old, new)
    PROVE  HoldersOK'
<1>1. /\ call[c].at = "page" /\ call' = [call EXCEPT ![c] = Idle]
      /\ account' = [account EXCEPT ![call[c].user].pw = new]
      /\ sessions' \subseteq sessions /\ UNCHANGED <<member, resets>>
  BY DEF ChangeMyPassword, ChangePassword, Page, Goes
<1>2. call[c].user \in Users
  BY <1>1, UserOf DEF OfUser
<1>3. Rowed' /\ KnownStay
  BY <1>1, <1>2, PasswordSet DEF HoldersOK
<1>4. CallsKnown'
  BY <1>1, <1>3, CallsKept DEF HoldersOK, Idle, Holding
<1>. QED
  BY <1>1, <1>3, <1>4, HoldersWrite

LEMMA CreateUserHolders ==
    ASSUME AccountRows, HoldersOK, NEW u \in Users, NEW p \in Passwords, NEW super \in BOOLEAN,
           CreateUser(u, p, super), UNCHANGED <<member, sessions, resets>>,
           \/ UNCHANGED call
           \/ \E c \in Calls : call' = [call EXCEPT ![c] = Idle]
    PROVE  HoldersOK'
<1>. DEFINE row == [pw |-> p, super |-> super]
<1>1. account' = [account EXCEPT ![u] = row] /\ row \in AccountRow /\ row.pw # None
  BY PasswordRow DEF CreateUser
<1>. HIDE DEF row
<1>2. Rowed' /\ KnownStay
  BY <1>1, AccountSet DEF HoldersOK
<1>3. CallsKnown'
  BY <1>2, CallsKept, CallsHold DEF HoldersOK, Idle, Holding
<1>. QED
  BY <1>2, <1>3, HoldersWrite

LEMMA GrantHolders ==
    ASSUME AccountRows, HoldersOK, NEW u \in Users, NEW role, AddUserToTenant(u, role),
           UNCHANGED <<account, sessions, resets>>,
           \/ UNCHANGED call
           \/ \E c \in Calls : call' = [call EXCEPT ![c] = Idle]
    PROVE  HoldersOK'
<1>1. Rowed' /\ KnownStay /\ account'[u] # NoUser
  BY AccountSame DEF HoldersOK, AddUserToTenant, Known
<1>2. CallsKnown'
  BY <1>1, CallsKept, CallsHold DEF HoldersOK, Idle, Holding
<1>. QED
  BY <1>1, <1>2, HoldersJoin DEF AddUserToTenant

LEMMA RemoveHolders ==
    ASSUME AccountRows, HoldersOK, NEW c \in Calls, NEW u \in Users, RemoveMember(c, u)
    PROVE  HoldersOK'
<1>1. /\ call' = [call EXCEPT ![c] = Idle] /\ UNCHANGED <<account, sessions, resets>>
      /\ member' = [member EXCEPT ![u] = NoMember]
  BY DEF RemoveMember, RemoveFromTenant, Page, Goes, people
<1>2. Rowed' /\ KnownStay
  BY <1>1, AccountSame DEF HoldersOK
<1>3. \A v \in Users : member'[v] # NoMember => member[v] # NoMember
  BY <1>1 DEF AccountRows
<1>4. MembersKnown'
  BY <1>2, <1>3, MembersKept DEF HoldersOK
<1>5. CallsKnown'
  BY <1>1, <1>2, CallsKept DEF HoldersOK, Idle, Holding
<1>6. RowsKnown'
  BY <1>1, <1>2, RowsKept DEF HoldersOK
<1>. QED
  BY <1>2, <1>4, <1>5, <1>6 DEF HoldersOK

LEMMA PagesHolders ==
    ASSUME AccountRows, HoldersOK, NEW c \in Calls, Pages(c)
    PROVE  HoldersOK'
<1>1. ASSUME NEW s \in sessions, PageSession(c, s) PROVE HoldersOK'
  BY <1>1, HoldersTurn DEF PageSession, Starts, people, Holding
<1>2. CASE PageMemberships(c)
  BY <1>2, HoldersTurn DEF PageMemberships, Goes, people, Holding
<1>3. CASE AccountPage(c)
  BY <1>3, HoldersLeave DEF AccountPage, Page, people
<1>4. ASSUME NEW s \in Sessions, RevokeMySession(c, s) PROVE HoldersOK'
  BY <1>4, HoldersLeave DEF RevokeMySession, RevokeSessionForUser, Page, people
<1>5. CASE Logout(c)
  BY <1>5, HoldersLeave DEF Logout, DeleteSession, Page, people
<1>6. ASSUME NEW u \in Users, NEW p \in Passwords, NEW super \in BOOLEAN, CreateUserForm(c, u, p, super)
      PROVE  HoldersOK'
  BY <1>6, CreateUserHolders DEF CreateUserForm, Page, Goes
<1>7. ASSUME NEW u \in Users, NEW role \in {"member", "admin"}, GrantTenant(c, u, role)
      PROVE  HoldersOK'
  BY <1>7, GrantHolders DEF GrantTenant, Page, Goes
<1>8. ASSUME NEW rule, NEW secret, SaveOidcRead(c, rule, secret) PROVE HoldersOK'
  BY <1>8, HoldersTurn DEF SaveOidcRead, Page, Goes, people, Holding
<1>9. CASE SaveOidc(c)
  BY <1>9, HoldersLeave DEF SaveOidc, people
<1>10. CASE GenScimToken(c)
  BY <1>10, HoldersLeave DEF GenScimToken, Page, people
<1>11. ASSUME NEW d \in devices, DeviceApprove(c, d) \/ DeviceDeny(c, d) PROVE HoldersOK'
  BY <1>11, HoldersLeave DEF DeviceApprove, DeviceDeny, Page, people
<1>. QED
  BY <1>1, <1>2, <1>3, <1>4, <1>5, <1>6, <1>7, <1>8, <1>9, <1>10, <1>11, ChangeHolders,
     RemoveHolders DEF Pages

(* A session or a link is made for whoever was known before.                *)
LEMMA OpenHolders ==
    ASSUME AccountRows, HoldersOK, NEW c \in Calls, call[c].at \in Holding,
           call' = [call EXCEPT ![c] = Idle], UNCHANGED <<account, member>>,
           \A x \in sessions' \union resets' : x \in sessions \union resets \/ x.user = call[c].user
    PROVE  HoldersOK'
<1>1. Rowed' /\ KnownStay
  BY AccountSame DEF HoldersOK
<1>2. call[c].user \in Users /\ account[call[c].user] # NoUser
  BY UserOf DEF OfUser, Holding, HoldersOK, CallsKnown, Known
<1>3. RowsKnown'
  BY <1>1, <1>2, RowsKept DEF HoldersOK
<1>4. MembersKnown'
  BY <1>1, MembersKept DEF HoldersOK
<1>5. CallsKnown'
  BY <1>1, CallsKept DEF HoldersOK, Idle, Holding
<1>. QED
  BY <1>1, <1>3, <1>4, <1>5 DEF HoldersOK

LEMMA ResetHolders ==
    ASSUME AccountRows, HoldersOK, NEW c \in Calls, NEW p \in Passwords, ResetPassword(c, p)
    PROVE  HoldersOK'
<1>1. PICK r \in resets : /\ resets' = (resets \ {r}) \union {[r EXCEPT !.open = FALSE]}
                          /\ account' = [account EXCEPT ![r.user].pw = p]
                          /\ DeleteUserSessions(r.user)
  BY DEF ResetPassword
<1>2. r \in [id : Links, user : Users, open : BOOLEAN]
  BY DEF AccountRows
<1>3. r.user \in Users /\ [r EXCEPT !.open = FALSE].user = r.user
  BY <1>2
<1>4. Rowed' /\ KnownStay
  BY <1>1, <1>3, PasswordSet DEF HoldersOK
<1>5. call' = [call EXCEPT ![c] = Idle] /\ UNCHANGED member
  BY DEF ResetPassword, Goes
<1>6. CallsKnown'
  BY <1>4, <1>5, CallsKept DEF HoldersOK, Idle, Holding
<1>7. \A x \in sessions' \union resets' : \E y \in sessions \union resets : y.user = x.user
  BY <1>1, <1>3 DEF DeleteUserSessions
<1>. QED
  BY <1>4, <1>5, <1>6, <1>7, HoldersWrite

(* Whoever a provider names has an account from then on.                    *)
LEMMA IdentityHolders ==
    ASSUME AccountRows, HoldersOK, NEW c \in Calls, NEW u \in Users, AuthIdentity(c, u),
           conns \in [Scopes -> ConnRows \union {None}]
    PROVE  HoldersOK'
<1>1. PICK sc \in ConnById(call[c].conn) :
        /\ Goes(c, "consumed", [at |-> IF sc = "org" THEN "identified" ELSE "joined",
                                user |-> u, flow |-> call[c].flow])
        /\ FindOrCreateSsoUser(u, u \in conns[sc].rule.admins)
        /\ UNCHANGED <<member, sessions, resets, devices, sso, issued, past>>
  BY DEF AuthIdentity
<1>. DEFINE row == [pw |-> IF Known(u) THEN account[u].pw ELSE "random",
                    super |-> u \in conns[sc].rule.admins]
            m   == [at |-> IF sc = "org" THEN "identified" ELSE "joined", user |-> u,
                    flow |-> call[c].flow]
<1>2. account' = [account EXCEPT ![u] = row]
  BY <1>1 DEF FindOrCreateSsoUser
<1>3. row.pw \in Passwords \union {"random"} /\ row.pw # None /\ row.super \in BOOLEAN
  BY KnownRow, AccountsAssumption DEF HoldersOK
<1>4. row \in AccountRow
  BY <1>3 DEF AccountRow
<1>. HIDE DEF row
<1>5. Rowed' /\ KnownStay /\ account'[u] # NoUser
  BY <1>2, <1>3, <1>4, AccountSet DEF HoldersOK
<1>6. call' = [call EXCEPT ![c] = m] /\ m.user = u
  BY <1>1 DEF Goes
<1>. HIDE DEF m
<1>7. CallsKnown'
  BY <1>5, <1>6, CallsKept DEF HoldersOK
<1>. QED
  BY <1>1, <1>5, <1>7, HoldersWrite

LEMMA JoinHolders ==
    ASSUME AccountRows, HoldersOK, NEW c \in Calls, AuthJoin(c)
    PROVE  HoldersOK'
<1>. DEFINE m == [call[c] EXCEPT !.at = "joined"]
<1>1. /\ call[c].at = "identified" /\ call' = [call EXCEPT ![c] = m] /\ Known(call[c].user)
      /\ AddUserToTenant(call[c].user, "member") /\ UNCHANGED <<account, sessions, resets>>
  BY DEF AuthJoin, Goes, AddUserToTenant
<1>2. call[c].user \in Users
  BY <1>1, UserOf DEF OfUser
<1>3. Rowed' /\ KnownStay /\ account'[call[c].user] # NoUser
  BY <1>1, AccountSame DEF HoldersOK, Known
<1>4. m.at \in Holding => account'[m.user] # NoUser
  BY <1>3
<1>. HIDE DEF m
<1>5. CallsKnown'
  BY <1>1, <1>3, <1>4, CallsKept DEF HoldersOK
<1>. QED
  BY <1>1, <1>2, <1>3, <1>5, HoldersJoin DEF AddUserToTenant

LEMMA SignInsHolders ==
    ASSUME AccountRows, HoldersOK, NEW c \in Calls, SignIns(c)
    PROVE  HoldersOK'
<1>1. ASSUME NEW u \in Users, NEW p \in Passwords, LoginVerify(c, u, p) PROVE HoldersOK'
  BY <1>1, HoldersTurn DEF LoginVerify, VerifyCredentials, Known, Starts, people
<1>2. CASE LoginSession(c)
  <2>1. PICK s : CreateSession(call[c].user, s)
    BY <1>2 DEF LoginSession
  <2>2. \A x \in sessions' \union resets' : x \in sessions \union resets \/ x.user = call[c].user
    BY <1>2, <2>1 DEF LoginSession, CreateSession
  <2>. QED
    BY <1>2, <2>2, OpenHolders DEF LoginSession, Goes, people, Holding
<1>3. ASSUME NEW u \in Users, ForgotRead(c, u) PROVE HoldersOK'
  BY <1>3, HoldersTurn DEF ForgotRead, Known, Starts, people
<1>4. CASE ForgotCommit(c)
  <2>1. PICK l : InsertReset(call[c].user, l, call[c].drop)
    BY <1>4 DEF ForgotCommit
  <2>2. \A x \in sessions' \union resets' : x \in sessions \union resets \/ x.user = call[c].user
    BY <1>4, <2>1 DEF ForgotCommit, InsertReset
  <2>. QED
    BY <1>4, <2>2, OpenHolders DEF ForgotCommit, Goes, people, Holding
<1>5. ASSUME NEW r \in resets, ResetForm(c, r) PROVE HoldersOK'
  BY <1>5, HoldersTurn DEF ResetForm, Starts, people, Holding
<1>6. CASE ResetLate(c)
  BY <1>6, HoldersLeave DEF ResetLate, people
<1>7. ASSUME NEW sc, AuthStart(c, sc) PROVE HoldersOK'
  BY <1>7, HoldersTurn DEF AuthStart, Starts, people, Idle, Holding
<1>8. ASSUME NEW f \in flows, AuthCallback(c, f) PROVE HoldersOK'
  BY <1>8, HoldersTurn DEF AuthCallback, Starts, people, Holding
<1>9. CASE AuthRefused(c)
  BY <1>9, HoldersLeave DEF AuthRefused, people
<1>10. CASE AuthSession(c)
  <2>1. PICK s : CreateSession(call[c].user, s)
    BY <1>10 DEF AuthSession
  <2>2. \A x \in sessions' \union resets' : x \in sessions \union resets \/ x.user = call[c].user
    BY <1>10, <2>1 DEF AuthSession, CreateSession
  <2>. QED
    BY <1>10, <2>2, OpenHolders DEF AuthSession, Goes, people, Holding
<1>11. ASSUME NEW u \in Users, AuthIdentity(c, u) PROVE HoldersOK'
  BY <1>11, IdentityHolders DEF AccountRows
<1>. QED
  BY <1>1, <1>2, <1>3, <1>4, <1>5, <1>6, <1>7, <1>8, <1>9, <1>10, <1>11, ResetHolders,
     JoinHolders DEF SignIns, AuthRoute

LEMMA ProvisionHolders ==
    ASSUME AccountRows, HoldersOK, NEW c \in Calls, ScimCreateUser(c)
    PROVE  HoldersOK'
<1>. DEFINE u   == call[c].user
            row == [role |-> IF member[u] = NoMember THEN "member" ELSE member[u].role, active |-> TRUE]
            new == [pw |-> "random", super |-> FALSE]
<1>1. /\ call[c].at = "provision" /\ call' = [call EXCEPT ![c] = Idle] /\ UNCHANGED <<sessions, resets>>
      /\ account' = IF Known(u) THEN account ELSE [account EXCEPT ![u] = new]
      /\ member' = [member EXCEPT ![u] = row]
  BY DEF ScimCreateUser, ScimProvision, Goes
<1>2. u \in Users
  BY <1>1, UserOf DEF OfUser
<1>3. new \in AccountRow /\ new.pw # None
  BY PasswordRow
<1>. HIDE DEF row, new
<1>4. Rowed' /\ KnownStay /\ account'[u] # NoUser
  BY <1>1, <1>2, <1>3, AccountSame, AccountSet DEF HoldersOK, Known
<1>5. CallsKnown'
  BY <1>1, <1>4, CallsKept DEF HoldersOK, Idle, Holding
<1>. QED
  BY <1>1, <1>2, <1>4, <1>5, HoldersJoin

LEMMA ActiveHolders ==
    ASSUME AccountRows, HoldersOK, NEW c \in Calls, NEW u \in Users, NEW active \in BOOLEAN,
           ScimApplyActive(c, u, active)
    PROVE  HoldersOK'
<1>. DEFINE m == IF active THEN Idle ELSE [at |-> "offboarding", user |-> u]
<1>1. /\ call' = [call EXCEPT ![c] = m] /\ UNCHANGED <<account, resets>>
      /\ member[u] # NoMember /\ member' = [member EXCEPT ![u].active = active]
      /\ sessions' = sessions \/
         sessions' = {IF s.user = u THEN [s EXCEPT !.late = FALSE] ELSE s : s \in sessions}
  BY DEF ScimApplyActive, ScimSetActive, ScimMember, Starts
<1>2. m.at \notin Holding
  BY DEF Idle, Holding
<1>. HIDE DEF m
<1>3. Rowed' /\ KnownStay
  BY <1>1, AccountSame DEF HoldersOK
<1>4. \A v \in Users : member'[v] # NoMember => member[v] # NoMember
  BY <1>1 DEF AccountRows
<1>5. \A x \in sessions' : \E y \in sessions : y.user = x.user
  <2>1. CASE sessions' = sessions
    BY <2>1
  <2>2. CASE sessions' = {IF s.user = u THEN [s EXCEPT !.late = FALSE] ELSE s : s \in sessions}
    <3>. TAKE x \in sessions'
    <3>1. PICK s \in sessions : x = IF s.user = u THEN [s EXCEPT !.late = FALSE] ELSE s
      BY <2>2
    <3>2. s \in [id : Sessions, user : Users, at : Nat, late : BOOLEAN]
      BY DEF AccountRows
    <3>3. x.user = s.user
      BY <3>1, <3>2
    <3>. QED
      BY <3>3
  <2>. QED
    BY <1>1, <2>1, <2>2
<1>6. MembersKnown'
  BY <1>3, <1>4, MembersKept DEF HoldersOK
<1>7. RowsKnown'
  BY <1>1, <1>3, <1>5, RowsKept DEF HoldersOK
<1>8. CallsKnown'
  BY <1>1, <1>2, <1>3, CallsKept DEF HoldersOK
<1>. QED
  BY <1>3, <1>6, <1>7, <1>8 DEF HoldersOK

LEMMA ServicesHolders ==
    ASSUME AccountRows, HoldersOK, NEW c \in Calls, Services(c)
    PROVE  HoldersOK'
<1>1. ASSUME NEW u \in Users, ScimCreateCheck(c, u) PROVE HoldersOK'
  BY <1>1, HoldersTurn DEF ScimCreateCheck, Starts, people, Holding
<1>2. CASE ScimRevoke(c)
  BY <1>2, HoldersLeave DEF ScimRevoke, DeleteUserSessions, people
<1>3. CASE ScimRevokeFails(c)
  BY <1>3, HoldersLeave DEF ScimRevokeFails, people
<1>4. CASE OauthDevice(c)
  BY <1>4, HoldersTurn DEF OauthDevice, Starts, people, Idle, Holding
<1>5. ASSUME NEW d \in devices, DeviceTokenPoll(c, d) PROVE HoldersOK'
  BY <1>5, HoldersTurn DEF DeviceTokenPoll, Starts, people, Holding
<1>6. CASE OauthDeviceToken(c) \/ DeviceTokenFails(c)
  BY <1>6, HoldersLeave DEF OauthDeviceToken, DeviceTokenFails, people
<1>. QED
  BY <1>1, <1>2, <1>3, <1>4, <1>5, <1>6, ProvisionHolders, ActiveHolders
     DEF Services, ScimPatchUser, ScimDeleteUser

(* What leaves accounts, members and calls, and drops or closes rows.       *)
LEMMA HoldersLapse ==
    ASSUME AccountRows, HoldersOK, UNCHANGED <<account, member, call>>,
           \A x \in sessions' \union resets' : \E y \in sessions \union resets : y.user = x.user
    PROVE  HoldersOK'
<1>1. Rowed' /\ KnownStay
  BY AccountSame DEF HoldersOK
<1>2. CallsKnown'
  BY <1>1, CallsHold DEF HoldersOK
<1>. QED
  BY <1>1, <1>2, HoldersWrite

LEMMA LapseHolders ==
    ASSUME AccountRows, HoldersOK, Lapse
    PROVE  HoldersOK'
<1>1. UNCHANGED <<account, member, call>> /\ sessions' \subseteq sessions
  BY DEF Lapse, Operator, people
<1>2. \A x \in resets' : \E y \in resets : y.user = x.user
  <2>1. CASE UNCHANGED resets
    BY <2>1
  <2>2. CASE \E r \in resets : resets' = (resets \ {r}) \union {[r EXCEPT !.open = FALSE]}
    <3>1. PICK r \in resets : resets' = (resets \ {r}) \union {[r EXCEPT !.open = FALSE]}
      BY <2>2
    <3>2. r \in [id : Links, user : Users, open : BOOLEAN]
      BY DEF AccountRows
    <3>. QED
      BY <3>1, <3>2
  <2>. QED
    BY <2>1, <2>2 DEF Lapse
<1>. QED
  BY <1>1, <1>2, HoldersLapse

LEMMA NextHolders ==
    ASSUME AccountsIInv, HoldersOK, [Next]_vars
    PROVE  HoldersOK'
<1>. AccountRows
  BY DEF AccountsIInv
<1>1. ASSUME NEW u \in Users, NEW p \in Passwords, NEW super \in BOOLEAN, UserCreate(u, p, super)
      PROVE  HoldersOK'
  BY <1>1, CreateUserHolders DEF UserCreate, Operator
<1>2. ASSUME NEW u \in Users, NEW role \in {"member", "admin"}, UserGrant(u, role)
      PROVE  HoldersOK'
  BY <1>2, GrantHolders DEF UserGrant, Operator
<1>3. ASSUME NEW sc, NEW rule, NEW secret, OidcConfig(sc, rule, secret) PROVE HoldersOK'
  BY <1>3, HoldersLapse DEF OidcConfig, Operator, people
<1>4. CASE ScimToken
  BY <1>4, HoldersLapse DEF ScimToken, Operator, people
<1>5. CASE UNCHANGED vars
  BY <1>5, HoldersLapse DEF vars
<1>. QED
  BY <1>1, <1>2, <1>3, <1>4, <1>5, PagesHolders, SignInsHolders, ServicesHolders, LapseHolders
     DEF Next, CommandLine

(* The connections, and the sign-ons begun with them.                       *)

ConnsOK ==
    /\ \A sc \in Scopes : conns[sc] # None => conns[sc].id \in (issued \intersect ConnIds) \union {"first"}
    /\ \A sc, other \in Scopes :
          conns[sc] # None /\ conns[other] # None /\ conns[sc].id = conns[other].id => sc = other
    /\ \A f \in flows : \E sc \in Scopes : conns[sc] # None /\ conns[sc].id = f.conn
    /\ scim \in BOOLEAN

LEMMA ConnsStay ==
    ASSUME ConnsOK, UNCHANGED conns, flows' \subseteq flows, issued \subseteq issued', scim' \in BOOLEAN
    PROVE  ConnsOK'
BY DEF ConnsOK

LEMMA ConnReplaced ==
    ASSUME AccountRows, ConnsOK, NEW sc \in Scopes, NEW rule, NEW secret, NEW id \in ConnIds,
           SetOidcConnection(sc, rule, secret, id), UNCHANGED scim
    PROVE  ConnsOK'
<1>. DEFINE row == [id |-> id, rule |-> rule, secret |-> secret]
<1>1. /\ id \in ConnIds \ issued /\ conns' = [conns EXCEPT ![sc] = row]
      /\ flows' = {f \in flows : conns[sc] = None \/ f.conn # conns[sc].id}
      /\ issued' = issued \union {id} /\ row.id = id
  BY DEF SetOidcConnection, Fresh
<1>. HIDE DEF row
<1>2. conns'[sc] = row /\ \A other \in Scopes : other # sc => conns'[other] = conns[other]
  BY <1>1 DEF AccountRows
<1>3. id # "first"
  BY AccountsAssumption
<1>4. \A s \in Scopes : conns'[s] # None => conns'[s].id \in (issued' \intersect ConnIds) \union {"first"}
  BY <1>1, <1>2 DEF ConnsOK
<1>5. \A s, other \in Scopes :
        conns'[s] # None /\ conns'[other] # None /\ conns'[s].id = conns'[other].id => s = other
  BY <1>1, <1>2, <1>3 DEF ConnsOK
<1>6. \A f \in flows' : \E s \in Scopes : conns'[s] # None /\ conns'[s].id = f.conn
  BY <1>1, <1>2 DEF ConnsOK
<1>. QED
  BY <1>4, <1>5, <1>6 DEF ConnsOK

LEMMA FlowBegun ==
    ASSUME ConnsOK, NEW c \in Calls, NEW sc \in Scopes, AuthStart(c, sc)
    PROVE  ConnsOK'
<1>1. PICK f : /\ flows' = flows \union {[id |-> f, conn |-> conns[sc].id]}
               /\ issued' = issued \union {f}
  BY DEF AuthStart, CreateOidcFlow
<1>2. conns[sc] # None /\ UNCHANGED <<conns, scim>>
  BY DEF AuthStart
<1>. QED
  BY <1>1, <1>2 DEF ConnsOK

LEMMA PagesConns ==
    ASSUME AccountRows, ConnsOK, NEW c \in Calls, Pages(c)
    PROVE  ConnsOK'
<1>1. CASE SaveOidc(c)
  BY <1>1, ConnReplaced DEF SaveOidc, Scopes
<1>2. CASE GenScimToken(c)
  BY <1>2, ConnsStay DEF GenScimToken, CreateScimToken
<1>3. Pages(c) => SaveOidc(c) \/ GenScimToken(c) \/ (UNCHANGED <<sso, issued>>)
  BY DEF Pages, PageSession, PageMemberships, AccountPage, ChangeMyPassword, RevokeMySession, Logout,
     CreateUserForm, GrantTenant, RemoveMember, SaveOidcRead, DeviceApprove, DeviceDeny
<1>. QED
  BY <1>1, <1>2, <1>3, ConnsStay DEF sso, ConnsOK

LEMMA SignInsConns ==
    ASSUME ConnsOK, NEW c \in Calls, SignIns(c)
    PROVE  ConnsOK'
<1>1. ASSUME NEW sc \in Scopes, AuthStart(c, sc) PROVE ConnsOK'
  BY <1>1, FlowBegun
<1>2. ASSUME NEW u \in Users, AuthRoute(c, u) PROVE ConnsOK'
  BY <1>2, FlowBegun DEF AuthRoute, ConnForEmail, Scopes
<1>3. ASSUME NEW f \in flows, AuthCallback(c, f) PROVE ConnsOK'
  BY <1>3, ConnsStay DEF AuthCallback, ConsumeOidcFlow, ConnsOK
<1>4. CASE LoginSession(c) \/ AuthSession(c)
  BY <1>4, ConnsStay DEF LoginSession, AuthSession, CreateSession, sso, ConnsOK
<1>5. CASE ForgotCommit(c)
  BY <1>5, ConnsStay DEF ForgotCommit, sso, ConnsOK
<1>6. CASE UNCHANGED <<sso, issued>>
  BY <1>6, ConnsStay DEF sso, ConnsOK
<1>. QED
  BY <1>1, <1>2, <1>3, <1>4, <1>5, <1>6
     DEF SignIns, LoginVerify, ForgotRead, ResetForm, ResetPassword, ResetLate, AuthIdentity,
         AuthRefused, AuthJoin

LEMMA NextConns ==
    ASSUME AccountsIInv, ConnsOK, [Next]_vars
    PROVE  ConnsOK'
<1>. AccountRows
  BY DEF AccountsIInv
<1>1. ASSUME NEW c \in Calls, Services(c) PROVE ConnsOK'
  <2>1. CASE OauthDevice(c)
    BY <2>1, ConnsStay DEF OauthDevice, sso, ConnsOK
  <2>2. CASE UNCHANGED <<sso, issued>>
    BY <2>2, ConnsStay DEF sso, ConnsOK
  <2>. QED
    BY <1>1, <2>1, <2>2
       DEF Services, ScimCreateCheck, ScimCreateUser, ScimPatchUser, ScimDeleteUser, ScimApplyActive,
           ScimRevoke, ScimRevokeFails, DeviceTokenPoll, OauthDeviceToken, DeviceTokenFails
<1>2. CASE CommandLine
  <2>1. ASSUME NEW sc \in Scopes, NEW rule, NEW secret, OidcConfig(sc, rule, secret) PROVE ConnsOK'
    BY <2>1, ConnReplaced DEF OidcConfig
  <2>2. CASE ScimToken
    BY <2>2, ConnsStay DEF ScimToken, CreateScimToken
  <2>3. CASE UNCHANGED <<sso, issued>>
    BY <2>3, ConnsStay DEF sso, ConnsOK
  <2>. QED
    BY <1>2, <2>1, <2>2, <2>3 DEF CommandLine, UserCreate, UserGrant
<1>3. CASE Lapse
  BY <1>3, ConnsStay DEF Lapse, ConnsOK
<1>4. CASE UNCHANGED vars
  BY <1>4, ConnsStay DEF vars, sso, ConnsOK
<1>. QED
  BY <1>1, <1>2, <1>3, <1>4, PagesConns, SignInsConns DEF Next

LEMMA KeysInit == Init => HoldersOK /\ ConnsOK
<1>. SUFFICES ASSUME Init PROVE HoldersOK /\ ConnsOK
  OBVIOUS
<1>1. \A u \in Users : account[u] = NoUser \/ account[u] \in [pw : Passwords, super : BOOLEAN]
  BY DEF Init
<1>2. NoUser \in AccountRow /\ [pw : Passwords, super : BOOLEAN] \subseteq AccountRow
      /\ \A row \in [pw : Passwords, super : BOOLEAN] : row.pw # None
  BY AccountsAssumption DEF NoUser, AccountRow
<1>3. DOMAIN account = Users /\ account = [u \in DOMAIN account |-> account[u]]
  BY DEF Init
<1>4. Rowed
  BY <1>1, <1>2, <1>3 DEF Rowed
<1>5. MembersKnown
  BY DEF Init, MembersKnown
<1>6. RowsKnown
  <2>1. \A x \in sessions : Known(x.user)
    BY DEF Init
  <2>. QED
    BY <2>1 DEF Init, RowsKnown
<1>7. CallsKnown
  BY DEF Init, CallsKnown, Idle, Holding
<1>8. ConnsOK
  <2>1. conns["default"] = None /\ (conns["org"] # None => conns["org"].id = "first")
    BY DEF Init, Scopes
  <2>2. flows = {} /\ scim \in BOOLEAN
    BY DEF Init
  <2>. QED
    BY <2>1, <2>2 DEF ConnsOK, Scopes
<1>. QED
  BY <1>4, <1>5, <1>6, <1>7, <1>8 DEF HoldersOK

(* Members, sessions and reset links are of accounts there are, whatever    *)
(* sign-ins, resets, SCIM calls and forms overlap, and a sign-on that comes *)
(* back is of a connection there still is: set_oidc_connection takes the    *)
(* flows of the row it replaces with it.                                    *)
THEOREM AccountsTypesCorrect == Spec => []TypeOK
<1>1. AccountsIInv /\ HoldersOK /\ ConnsOK /\ [Next]_vars => (HoldersOK /\ ConnsOK)'
  BY NextHolders, NextConns
<1>2. AccountsIInv /\ HoldersOK /\ ConnsOK => TypeOK
  <2>. SUFFICES ASSUME AccountsIInv, HoldersOK, ConnsOK PROVE TypeOK
    OBVIOUS
  <2>1. account \in [Users -> [pw : Passwords \union {None, "random"}, super : BOOLEAN]]
    BY DEF HoldersOK, Rowed, AccountRow
  <2>2. member \in [Users -> [role : {None, "member", "admin"}, active : BOOLEAN]]
    BY DEF AccountsIInv, AccountRows
  <2>3. \A f \in flows : ConnById(f.conn) # {}
    BY DEF ConnsOK, ConnById
  <2>4. conns["org"] # None /\ conns["default"] # None => conns["org"].id # conns["default"].id
    BY DEF ConnsOK, Scopes
  <2>. QED
    BY <2>1, <2>2, <2>3, <2>4 DEF TypeOK, HoldersOK, MembersKnown, RowsKnown, ConnsOK
<1>. QED
  BY <1>1, <1>2, KeysInit, AccountsInvariant, PTL DEF Spec

-----------------------------------------------------------------------------
(* The limiter.                                                             *)

(* Attempts counted from the newest.                                        *)
Back(w, i) == w[Len(w) - i]

(* Attempts in the order of time.                                           *)
Run(w, at) ==
    /\ w \in Seq(Nat)
    /\ \A i \in 0..Len(w) - 1 : Back(w, i) =< at
    /\ \A i, j \in 0..Len(w) - 1 : i =< j => Back(w, j) =< Back(w, i)

(* The newest attempts that count are remembered, all of them or as many as *)
(* are kept; what else is remembered is too old to count.                   *)
Remembers(w, a, at) ==
    /\ \A i \in 0..Len(a) - 1 : /\ i < Len(w) => Back(w, i) = Back(a, i)
                                /\ i >= Len(w) => Len(w) = Kept
    /\ \A i \in Len(a)..Len(w) - 1 : at - Back(w, i) >= Window

AttemptsOK(w, a, at) ==
    /\ Run(w, at) /\ Len(w) =< Kept /\ Run(a, at)
    /\ \A i \in 0..Len(a) - 1 : at - Back(a, i) < Window
    /\ Remembers(w, a, at)

LimiterRows ==
    /\ clock \in Nat /\ DOMAIN windows \subseteq AllKeys
    /\ client \in [Clients -> BasicKeys \union {"none"}] /\ DOMAIN admitted = AllKeys

Remembered == \A k \in AllKeys : AttemptsOK(Of(windows, k), admitted[k], clock)
NoneTooMany == \A k \in Keys : Counted(k) =< Limit[k]

LimiterIInv == LimiterRows /\ Remembered /\ NoneTooMany /\ FailuresNeedRace

-----------------------------------------------------------------------------
LEMMA FirstInIs ==
    ASSUME NEW w \in Seq(Nat), NEW at \in Nat, NEW length \in Nat
    PROVE  /\ FirstIn(w, at, length) \in 1..Len(w) + 1
           /\ \A j \in 1..(FirstIn(w, at, length) - 1) : at - w[j] >= length
           /\ FirstIn(w, at, length) =< Len(w) => at - w[FirstIn(w, at, length)] < length
<1>. DEFINE T == {i \in 1..Len(w) + 1 : i =< Len(w) => at - w[i] < length}
            R == OpToRel(<, Nat)
<1>1. Len(w) \in Nat /\ \A i \in 1..Len(w) : w[i] \in Nat
  BY LenProperties
<1>2. T \subseteq Nat /\ Len(w) + 1 \in T
  BY <1>1
<1>3. PICK m \in T : \A y \in T : ~ (<<y, m>> \in R)
  <2>. HIDE DEF T, R
  <2>1. IsWellFoundedOn(R, Nat)
    BY NatLessThanWellFounded DEF R
  <2>2. T # {}
    BY <1>2
  <2>. QED
    BY <2>1, <2>2, <1>2, WFMin
<1>4. m \in Nat /\ \A y \in T : ~ (y < m)
  BY <1>2, <1>3 DEF OpToRel
<1>5. \A j \in 1..(m - 1) : at - w[j] >= length
  <2>. SUFFICES ASSUME NEW j \in 1..(m - 1), ~ (at - w[j] >= length)
       PROVE  FALSE
    OBVIOUS
  <2>1. m \in 1..Len(w) + 1
    OBVIOUS
  <2>2. j \in 1..Len(w) /\ j < m
    BY <2>1, <1>1
  <2>3. at - w[j] < length
    BY <2>2, <1>1
  <2>4. j \in T
    BY <2>2, <2>3, <1>1
  <2>. QED
    BY <2>2, <2>4, <1>4
<1>6. m \in 1..Len(w) + 1 /\ (m =< Len(w) => at - w[m] < length)
  OBVIOUS
<1>. HIDE DEF T, R
<1>. DEFINE P(i) == /\ \A j \in 1..(i - 1) : at - w[j] >= length
                    /\ i =< Len(w) => at - w[i] < length
<1>7. m \in 1..Len(w) + 1 /\ P(m)
  BY <1>5, <1>6
<1>8. FirstIn(w, at, length) = CHOOSE i \in 1..Len(w) + 1 : P(i)
  BY DEF FirstIn
<1>. HIDE DEF P
<1>9. FirstIn(w, at, length) \in 1..Len(w) + 1 /\ P(FirstIn(w, at, length))
  BY <1>7, <1>8
<1>. QED
  BY <1>9 DEF P

(* Of attempts in order the old ones go and the others stay.                *)
LEMMA Pruned ==
    ASSUME NEW w, NEW at \in Nat, Run(w, at), NEW length \in Nat, NEW p, p = Prune(w, at, length)
    PROVE  /\ Run(p, at) /\ Len(p) \in Nat /\ Len(w) \in Nat /\ Len(p) =< Len(w)
           /\ \A i \in 0..Len(p) - 1 : Back(p, i) = Back(w, i) /\ at - Back(w, i) < length
           /\ \A i \in Len(p)..Len(w) - 1 : at - Back(w, i) >= length
<1>. DEFINE f == FirstIn(w, at, length)
            n == Len(w)
<1>1. w \in Seq(Nat) /\ n \in Nat /\ \A i \in 1..n : w[i] \in Nat
  BY LenProperties DEF Run
<1>2. /\ f \in 1..n + 1 /\ (\A j \in 1..(f - 1) : at - w[j] >= length)
      /\ f =< n => at - w[f] < length
  BY <1>1, FirstInIs
<1>3. p = SubSeq(w, f, n)
  BY DEF Prune
<1>. HIDE DEF f
<1>4. f \in Int /\ n \in Int /\ \A i \in f..n : w[i] \in Nat
  BY <1>1, <1>2
<1>5. /\ p \in Seq(Nat) /\ Len(p) = (IF f =< n THEN n - f + 1 ELSE 0)
      /\ \A i \in 1..n - f + 1 : p[i] = w[f + i - 1]
  BY <1>3, <1>4, SubSeqProperties
<1>6. Len(p) = n + 1 - f /\ Len(p) \in Nat /\ Len(p) =< n
  BY <1>1, <1>2, <1>5
<1>7. \A i \in 0..Len(p) - 1 : Back(p, i) = Back(w, i)
  <2>. SUFFICES ASSUME NEW i \in 0..Len(p) - 1
       PROVE  p[Len(p) - i] = w[n - i]
    BY DEF Back
  <2>1. Len(p) - i \in 1..n - f + 1 /\ f + (Len(p) - i) - 1 = n - i
    BY <1>1, <1>2, <1>6
  <2>. QED
    BY <2>1, <1>5
<1>8. \A i, j \in 0..n - 1 : i =< j => Back(w, j) =< Back(w, i)
  BY DEF Run
<1>9. \A i \in 0..n - 1 : Back(w, i) \in Nat /\ Back(w, i) =< at
  <2>. SUFFICES ASSUME NEW i \in 0..n - 1
       PROVE  Back(w, i) \in Nat /\ Back(w, i) =< at
    OBVIOUS
  <2>1. n - i \in 1..n
    BY <1>1
  <2>. QED
    BY <2>1, <1>1 DEF Back, Run
<1>10. \A i \in 0..Len(p) - 1 : at - Back(w, i) < length
  <2>. SUFFICES ASSUME NEW i \in 0..Len(p) - 1
       PROVE  at - Back(w, i) < length
    OBVIOUS
  <2>1. f =< n /\ n - f \in 0..n - 1 /\ i \in 0..n - 1 /\ i =< n - f /\ n - (n - f) = f
    BY <1>1, <1>2, <1>6
  <2>2. Back(w, n - f) = w[f] /\ Back(w, n - f) =< Back(w, i)
    BY <2>1, <1>8 DEF Back
  <2>. QED
    BY <2>1, <2>2, <1>2, <1>9
<1>11. \A i \in Len(p)..n - 1 : at - Back(w, i) >= length
  <2>. SUFFICES ASSUME NEW i \in Len(p)..n - 1
       PROVE  at - Back(w, i) >= length
    OBVIOUS
  <2>1. n - i \in 1..(f - 1)
    BY <1>1, <1>2, <1>6
  <2>. QED
    BY <2>1, <1>2 DEF Back
<1>12. Run(p, at)
  <2>1. \A i \in 0..Len(p) - 1 : i \in 0..n - 1
    BY <1>1, <1>6
  <2>. QED
    BY <2>1, <1>5, <1>7, <1>8, <1>9 DEF Run
<1>. QED
  BY <1>1, <1>6, <1>7, <1>10, <1>11, <1>12

LEMMA LimiterNumbers ==
    /\ Window \in Nat \ {0} /\ MaxWindow \in Nat /\ Window =< MaxWindow /\ Kept \in Nat
    /\ \A k \in AllKeys : Limit[k] \in Nat \ {0} /\ Limit[k] =< Kept
BY LimiterAssumption DEF AllKeys

LEMMA RunBack ==
    ASSUME NEW w, NEW at, Run(w, at)
    PROVE  Len(w) \in Nat /\ \A i \in 0..Len(w) - 1 : Back(w, i) \in Nat /\ Back(w, i) =< at
<1>1. w \in Seq(Nat) /\ Len(w) \in Nat /\ \A i \in 1..Len(w) : w[i] \in Nat
  BY LenProperties DEF Run
<1>2. \A i \in 0..Len(w) - 1 : Len(w) - i \in 1..Len(w)
  BY <1>1
<1>. QED
  BY <1>1, <1>2 DEF Back, Run

(* Pruning forgets nothing that counts.                                     *)
LEMMA PruneRemembers ==
    ASSUME NEW w, NEW a, NEW at \in Nat, AttemptsOK(w, a, at), NEW length \in Nat, Window =< length
    PROVE  AttemptsOK(Prune(w, at, length), a, at)
<1>. DEFINE p == Prune(w, at, length)
<1>1. /\ Run(p, at) /\ Len(p) \in Nat /\ Len(w) \in Nat /\ Len(p) =< Len(w)
      /\ \A i \in 0..Len(p) - 1 : Back(p, i) = Back(w, i) /\ at - Back(w, i) < length
      /\ \A i \in Len(p)..Len(w) - 1 : at - Back(w, i) >= length
  BY Pruned DEF AttemptsOK
<1>. HIDE DEF p
<1>2. /\ Len(a) \in Nat /\ (\A i \in 0..Len(a) - 1 : Back(a, i) \in Nat /\ at - Back(a, i) < Window)
      /\ Remembers(w, a, at) /\ Len(w) =< Kept /\ Run(a, at)
  BY RunBack DEF AttemptsOK
<1>3. Window \in Nat /\ Kept \in Nat
  BY LimiterNumbers
<1>4. \A i \in 0..Len(a) - 1 : i < Len(w) => i < Len(p)
  <2>. SUFFICES ASSUME NEW i \in 0..Len(a) - 1, i < Len(w), ~ (i < Len(p))
       PROVE  FALSE
    OBVIOUS
  <2>1. i \in Len(p)..Len(w) - 1 /\ Back(w, i) = Back(a, i)
    BY <1>1, <1>2 DEF Remembers
  <2>2. at - Back(a, i) >= length /\ at - Back(a, i) < Window /\ Back(a, i) \in Nat
    BY <2>1, <1>1, <1>2
  <2>. QED
    BY <2>2, <1>3
<1>5. ASSUME NEW i \in 0..Len(a) - 1
      PROVE  /\ i < Len(p) => Back(p, i) = Back(a, i)
             /\ i >= Len(p) => Len(p) = Kept
  <2>1. i < Len(p) => Back(p, i) = Back(a, i)
    BY <1>1, <1>2 DEF Remembers
  <2>2. ASSUME i >= Len(p)
        PROVE  Len(p) = Kept
    <3>0. ~ (i < Len(w))
      BY <2>2, <1>1, <1>2, <1>4
    <3>1. i >= Len(w) /\ Len(w) = Kept
      BY <3>0, <1>1, <1>2 DEF Remembers
    <3>2. ASSUME Len(p) < Len(w)
          PROVE  FALSE
      <4>1. Len(p) \in 0..Len(a) - 1
        BY <3>1, <3>2, <1>1, <1>2
      <4>. QED
        BY <3>2, <4>1, <1>1, <1>4
    <3>. QED
      BY <3>1, <3>2, <1>1
  <2>. QED
    BY <2>1, <2>2
<1>6. ASSUME NEW i \in Len(a)..Len(p) - 1
      PROVE  at - Back(p, i) >= Window
  <2>1. i \in 0..Len(p) - 1 /\ i \in Len(a)..Len(w) - 1
    BY <1>1, <1>2
  <2>. QED
    BY <2>1, <1>1, <1>2 DEF Remembers
<1>7. Remembers(p, a, at)
  BY <1>5, <1>6 DEF Remembers
<1>8. Len(p) =< Kept
  BY <1>1, <1>2, <1>3
<1>. QED
  BY <1>1, <1>2, <1>7, <1>8 DEF AttemptsOK, p

LEMMA RunAppend ==
    ASSUME NEW w, NEW at \in Nat, Run(w, at), NEW q, q \in Seq(Nat), Len(q) = Len(w) + 1,
           q[Len(w) + 1] = at, \A i \in 1..Len(w) : q[i] = w[i]
    PROVE  /\ Run(q, at) /\ Len(q) = Len(w) + 1 /\ Back(q, 0) = at
           /\ \A i \in 0..Len(w) - 1 : Back(q, i + 1) = Back(w, i)
           /\ \A i \in 1..Len(w) : i - 1 \in 0..Len(w) - 1 /\ Back(q, i) = Back(w, i - 1)
<1>1. w \in Seq(Nat) /\ Len(w) \in Nat
  BY LenProperties DEF Run
<1>2. /\ q \in Seq(Nat) /\ Len(q) = Len(w) + 1 /\ q[Len(w) + 1] = at
      /\ \A i \in 1..Len(w) : q[i] = w[i]
  OBVIOUS
<1>3. Back(q, 0) = at
  BY <1>1, <1>2 DEF Back
<1>4. \A i \in 0..Len(w) - 1 : Back(q, i + 1) = Back(w, i)
  <2>. SUFFICES ASSUME NEW i \in 0..Len(w) - 1
       PROVE  q[Len(q) - (i + 1)] = w[Len(w) - i]
    BY DEF Back
  <2>1. Len(q) - (i + 1) = Len(w) - i /\ Len(w) - i \in 1..Len(w)
    BY <1>1, <1>2
  <2>. QED
    BY <2>1, <1>2
<1>5. \A i \in 1..Len(w) : i - 1 \in 0..Len(w) - 1 /\ Back(q, i) = Back(w, i - 1)
  <2>. SUFFICES ASSUME NEW i \in 1..Len(w)
       PROVE  i - 1 \in 0..Len(w) - 1 /\ Back(q, i) = Back(w, i - 1)
    OBVIOUS
  <2>1. i - 1 \in 0..Len(w) - 1 /\ (i - 1) + 1 = i
    BY <1>1
  <2>2. Back(q, (i - 1) + 1) = Back(w, i - 1)
    BY <2>1, <1>4
  <2>. QED
    BY <2>1, <2>2
<1>6. \A i \in 0..Len(w) - 1 : Back(w, i) \in Nat /\ Back(w, i) =< at
  BY RunBack
<1>7. \A i \in 0..Len(q) - 1 : Back(q, i) =< at
  <2>. SUFFICES ASSUME NEW i \in 0..Len(q) - 1
       PROVE  Back(q, i) =< at
    OBVIOUS
  <2>1. i = 0 \/ i \in 1..Len(w)
    BY <1>1, <1>2
  <2>. QED
    BY <2>1, <1>3, <1>5, <1>6
<1>8. \A i, j \in 0..Len(q) - 1 : i =< j => Back(q, j) =< Back(q, i)
  <2>. SUFFICES ASSUME NEW i \in 0..Len(q) - 1, NEW j \in 0..Len(q) - 1, i =< j
       PROVE  Back(q, j) =< Back(q, i)
    OBVIOUS
  <2>1. i = 0 \/ (i \in 1..Len(w) /\ j \in 1..Len(w) /\ i - 1 =< j - 1)
    BY <1>1, <1>2
  <2>2. CASE i = 0
    BY <2>2, <1>3, <1>7
  <2>3. CASE i \in 1..Len(w) /\ j \in 1..Len(w) /\ i - 1 =< j - 1
    <3>1. Back(w, j - 1) =< Back(w, i - 1)
      BY <2>3, <1>5 DEF Run
    <3>. QED
      BY <2>3, <3>1, <1>5
  <2>. QED
    BY <2>1, <2>2, <2>3
<1>. QED
  BY <1>2, <1>3, <1>4, <1>5, <1>7, <1>8 DEF Run

LEMMA RunTail ==
    ASSUME NEW w, NEW at \in Nat, Run(w, at), Len(w) # 0, NEW s, s = Tail(w)
    PROVE  /\ Run(s, at) /\ Len(s) = Len(w) - 1
           /\ \A i \in 0..Len(s) - 1 : i \in 0..Len(w) - 1 /\ Back(s, i) = Back(w, i)
<1>1. w \in Seq(Nat) /\ Len(w) \in Nat /\ w # <<>>
  BY LenProperties, EmptySeq DEF Run
<1>2. /\ s \in Seq(Nat) /\ Len(s) = Len(w) - 1
      /\ \A i \in 1..Len(s) : s[i] = w[i + 1]
  BY <1>1, HeadTailProperties
<1>3. \A i \in 0..Len(s) - 1 : i \in 0..Len(w) - 1 /\ Back(s, i) = Back(w, i)
  <2>. SUFFICES ASSUME NEW i \in 0..Len(s) - 1
       PROVE  i \in 0..Len(w) - 1 /\ s[Len(s) - i] = w[Len(w) - i]
    BY DEF Back
  <2>1. i \in 0..Len(w) - 1 /\ Len(s) - i \in 1..Len(s) /\ (Len(s) - i) + 1 = Len(w) - i
    BY <1>1, <1>2
  <2>. QED
    BY <2>1, <1>2
<1>. QED
  BY <1>2, <1>3 DEF Run

(* An attempt that counts is remembered, and pushes out the oldest of too   *)
(* many.                                                                    *)
LEMMA PushRemembers ==
    ASSUME NEW w, NEW a, clock \in Nat, AttemptsOK(w, a, clock), Kept # 0
    PROVE  AttemptsOK(Push(w), Append(a, clock), clock)
<1>. DEFINE s == IF Len(w) = Kept THEN Tail(w) ELSE w
            q == Push(w)
            b == Append(a, clock)
<1>1. /\ Run(w, clock) /\ Len(w) =< Kept /\ Run(a, clock) /\ Remembers(w, a, clock)
      /\ \A i \in 0..Len(a) - 1 : clock - Back(a, i) < Window
  BY DEF AttemptsOK
<1>2. Len(w) \in Nat /\ Len(a) \in Nat /\ Kept \in Nat /\ Window \in Nat \ {0}
  BY <1>1, RunBack, LimiterNumbers
<1>3. /\ Run(s, clock) /\ Len(s) = (IF Len(w) = Kept THEN Len(w) - 1 ELSE Len(w))
      /\ \A i \in 0..Len(s) - 1 : i \in 0..Len(w) - 1 /\ Back(s, i) = Back(w, i)
  <2>1. CASE Len(w) = Kept
    <3>1. s = Tail(w) /\ Len(w) # 0
      BY <2>1
    <3>. HIDE DEF s
    <3>. QED
      BY <2>1, <3>1, <1>1, RunTail
  <2>2. CASE Len(w) # Kept
    BY <2>2, <1>1
  <2>. QED
    BY <2>1, <2>2
<1>4. q = Append(s, clock)
  BY DEF Push
<1>0. b = Append(a, clock)
  OBVIOUS
<1>. HIDE DEF s, q, b
<1>5. s \in Seq(Nat) /\ a \in Seq(Nat)
  BY <1>1, <1>3 DEF Run
<1>6. /\ q \in Seq(Nat) /\ Len(q) = Len(s) + 1 /\ q[Len(s) + 1] = clock
      /\ \A i \in 1..Len(s) : q[i] = s[i]
  BY <1>5, <1>4, AppendProperties
<1>7. /\ b \in Seq(Nat) /\ Len(b) = Len(a) + 1 /\ b[Len(a) + 1] = clock
      /\ \A i \in 1..Len(a) : b[i] = a[i]
  BY <1>5, <1>0, AppendProperties
<1>8. /\ Run(q, clock) /\ Len(q) = Len(s) + 1 /\ Back(q, 0) = clock
      /\ \A i \in 0..Len(s) - 1 : Back(q, i + 1) = Back(s, i)
      /\ \A i \in 1..Len(s) : i - 1 \in 0..Len(s) - 1 /\ Back(q, i) = Back(s, i - 1)
  BY <1>3, <1>6, RunAppend
<1>9. /\ Run(b, clock) /\ Len(b) = Len(a) + 1 /\ Back(b, 0) = clock
      /\ \A i \in 0..Len(a) - 1 : Back(b, i + 1) = Back(a, i)
      /\ \A i \in 1..Len(a) : i - 1 \in 0..Len(a) - 1 /\ Back(b, i) = Back(a, i - 1)
  BY <1>7, <1>1, RunAppend
<1>10. Len(s) \in Nat /\ Len(q) =< Kept
  BY <1>2, <1>3, <1>8, <1>1
<1>11. ASSUME NEW i \in 0..Len(b) - 1
      PROVE  clock - Back(b, i) < Window
  <2>1. i = 0 \/ i \in 1..Len(a)
    BY <1>2, <1>9
  <2>. QED
    BY <2>1, <1>1, <1>2, <1>9
<1>12. ASSUME NEW i \in 0..Len(b) - 1
      PROVE  /\ i < Len(q) => Back(q, i) = Back(b, i)
             /\ i >= Len(q) => Len(q) = Kept
  <2>1. i = 0 \/ i \in 1..Len(a)
    BY <1>2, <1>9
  <2>2. CASE i = 0
    BY <2>2, <1>8, <1>9, <1>10
  <2>3. CASE i \in 1..Len(a)
    <3>1. Back(b, i) = Back(a, i - 1) /\ i - 1 \in 0..Len(a) - 1
      BY <2>3, <1>9
    <3>2. ASSUME i < Len(q)
          PROVE  Back(q, i) = Back(b, i)
      <4>1. i \in 1..Len(s)
        BY <3>2, <2>3, <1>8, <1>10
      <4>2. /\ Back(q, i) = Back(s, i - 1) /\ Back(s, i - 1) = Back(w, i - 1)
            /\ i - 1 < Len(w)
        BY <4>1, <1>2, <1>3, <1>8
      <4>. QED
        BY <4>2, <3>1, <1>1 DEF Remembers
    <3>3. ASSUME i >= Len(q)
          PROVE  Len(q) = Kept
      <4>1. CASE Len(w) = Kept
        BY <4>1, <1>2, <1>3, <1>8
      <4>2. CASE Len(w) # Kept
        <5>1. i - 1 >= Len(w)
          BY <4>2, <3>3, <2>3, <1>2, <1>3, <1>8
        <5>. QED
          BY <4>2, <5>1, <3>1, <1>1 DEF Remembers
      <4>. QED
        BY <4>1, <4>2
    <3>. QED
      BY <3>2, <3>3
  <2>. QED
    BY <2>1, <2>2, <2>3
<1>13. ASSUME NEW i \in Len(b)..Len(q) - 1
       PROVE  clock - Back(q, i) >= Window
  <2>1. i \in 1..Len(s) /\ i - 1 \in Len(a)..Len(w) - 1 /\ i - 1 \in 0..Len(s) - 1
    BY <1>2, <1>3, <1>8, <1>9, <1>10
  <2>2. Back(q, i) = Back(w, i - 1)
    BY <2>1, <1>3, <1>8
  <2>. QED
    BY <2>1, <2>2, <1>1 DEF Remembers
<1>14. Remembers(q, b, clock)
  BY <1>12, <1>13 DEF Remembers
<1>. QED
  BY <1>8, <1>9, <1>10, <1>11, <1>14 DEF AttemptsOK, q, b

(* Time passes, and what no longer counts is not asked of the memory.       *)
LEMMA TickRemembers ==
    ASSUME NEW w, NEW a, NEW at \in Nat, AttemptsOK(w, a, at),
           NEW t, t = at + 1, NEW c, c = Prune(a, t, Window)
    PROVE  AttemptsOK(w, c, t) /\ Len(c) \in Nat /\ Len(a) \in Nat /\ Len(c) =< Len(a)
<1>1. /\ Run(w, at) /\ Len(w) =< Kept /\ Run(a, at) /\ Remembers(w, a, at)
      /\ \A i \in 0..Len(a) - 1 : at - Back(a, i) < Window
  BY DEF AttemptsOK
<1>0. t \in Nat
  OBVIOUS
<1>2. /\ Len(w) \in Nat /\ Len(a) \in Nat /\ Kept \in Nat /\ Window \in Nat
      /\ \A i \in 0..Len(w) - 1 : Back(w, i) \in Nat /\ Back(w, i) =< at
      /\ \A i \in 0..Len(a) - 1 : Back(a, i) \in Nat /\ Back(a, i) =< at
  BY <1>1, RunBack, LimiterNumbers
<1>3. Run(w, t) /\ Run(a, t)
  <2>1. /\ \A i \in 0..Len(w) - 1 : Back(w, i) =< t
        /\ \A i \in 0..Len(a) - 1 : Back(a, i) =< t
    BY <1>2
  <2>. QED
    BY <1>1, <2>1 DEF Run
<1>4. /\ Run(c, t) /\ Len(c) \in Nat /\ Len(c) =< Len(a)
      /\ \A i \in 0..Len(c) - 1 : Back(c, i) = Back(a, i) /\ t - Back(a, i) < Window
      /\ \A i \in Len(c)..Len(a) - 1 : t - Back(a, i) >= Window
  BY <1>0, <1>2, <1>3, Pruned
<1>5. ASSUME NEW i \in 0..Len(c) - 1
      PROVE  /\ i < Len(w) => Back(w, i) = Back(c, i)
             /\ i >= Len(w) => Len(w) = Kept
             /\ t - Back(c, i) < Window
  <2>1. i \in 0..Len(a) - 1
    BY <1>2, <1>4
  <2>. QED
    BY <2>1, <1>1, <1>4 DEF Remembers
<1>6. \A i \in 0..Len(c) - 1 : /\ i < Len(w) => Back(w, i) = Back(c, i)
                               /\ i >= Len(w) => Len(w) = Kept
  BY <1>5
<1>7. ASSUME NEW i \in Len(c)..Len(w) - 1
      PROVE  t - Back(w, i) >= Window
  <2>0. i \in 0..Len(w) - 1 /\ Back(w, i) \in Nat
    BY <1>2, <1>4
  <2>1. CASE i < Len(a)
    <3>1. i \in Len(c)..Len(a) - 1 /\ i \in 0..Len(a) - 1
      BY <2>1, <1>2, <1>4
    <3>2. Back(w, i) = Back(a, i)
      BY <3>1, <2>0, <1>1 DEF Remembers
    <3>. QED
      BY <3>1, <3>2, <1>4
  <2>2. CASE ~ (i < Len(a))
    <3>1. i \in Len(a)..Len(w) - 1
      BY <2>2, <1>2, <1>4
    <3>2. at - Back(w, i) >= Window
      BY <3>1, <1>1 DEF Remembers
    <3>. QED
      BY <3>2, <2>0, <1>2
  <2>. QED
    BY <2>1, <2>2
<1>8. \A i \in Len(c)..Len(w) - 1 : t - Back(w, i) >= Window
  BY <1>7
<1>9. Remembers(w, c, t)
  BY <1>6, <1>8 DEF Remembers
<1>. QED
  BY <1>1, <1>2, <1>3, <1>4, <1>5, <1>9 DEF AttemptsOK

(* What a key is asked for is what its window holds: at most what counted,  *)
(* and all of it unless the memory is full.                                 *)
LEMMA AskedIs ==
    ASSUME NEW w, NEW a, NEW at \in Nat, AttemptsOK(w, a, at), NEW p, p = Prune(w, at, Window)
    PROVE  /\ AttemptsOK(p, a, at) /\ Len(p) \in Nat /\ Len(a) \in Nat /\ Len(p) =< Len(a)
           /\ Len(p) < Kept => Len(a) = Len(p)
<1>0. Window \in Nat /\ Kept \in Nat
  BY LimiterNumbers
<1>1. AttemptsOK(p, a, at)
  BY <1>0, PruneRemembers
<1>2. /\ Len(p) \in Nat /\ Len(w) \in Nat /\ Len(p) =< Len(w)
      /\ \A i \in 0..Len(p) - 1 : Back(p, i) = Back(w, i) /\ at - Back(w, i) < Window
  BY <1>0, Pruned DEF AttemptsOK
<1>3. Len(a) \in Nat /\ Run(p, at)
  BY <1>1, RunBack DEF AttemptsOK
<1>4. \A i \in 0..Len(p) - 1 : Back(p, i) \in Nat
  BY <1>3, RunBack
<1>5. Remembers(p, a, at)
  BY <1>1 DEF AttemptsOK
<1>6. ASSUME Len(a) < Len(p)
      PROVE  FALSE
  <2>1. Len(a) \in Len(a)..Len(p) - 1 /\ Len(a) \in 0..Len(p) - 1
    BY <1>6, <1>2, <1>3
  <2>2. at - Back(p, Len(a)) >= Window
    BY <2>1, <1>5 DEF Remembers
  <2>. QED
    BY <2>1, <2>2, <1>0, <1>2, <1>4
<1>7. ASSUME Len(p) < Kept, Len(p) < Len(a)
      PROVE  FALSE
  <2>1. Len(p) \in 0..Len(a) - 1 /\ Len(p) >= Len(p)
    BY <1>7, <1>2, <1>3
  <2>2. Len(p) = Kept
    BY <2>1, <1>5 DEF Remembers
  <2>. QED
    BY <2>2, <1>7, <1>0
<1>. QED
  BY <1>0, <1>1, <1>2, <1>3, <1>6, <1>7

LEMMA Forgotten ==
    ASSUME NEW a, NEW at \in Nat, Run(a, at), Len(a) = 0
    PROVE  AttemptsOK(<<>>, a, at)
<1>1. <<>> \in Seq(Nat) /\ Len(<<>>) = 0 /\ Kept \in Nat
  BY LimiterNumbers
<1>2. Run(<<>>, at)
  BY <1>1 DEF Run
<1>3. Remembers(<<>>, a, at)
  BY <1>1 DEF Remembers
<1>. QED
  BY <1>1, <1>2, <1>3 DEF AttemptsOK

(* The sweep goes over keys none of whose attempts counts.                  *)
LEMMA SweepRemembers ==
    ASSUME LimiterRows, NEW k, NEW a, AttemptsOK(Of(windows, k), a, clock)
    PROVE  AttemptsOK(Of(Sweep(windows), k), a, clock) /\ DOMAIN Sweep(windows) \subseteq DOMAIN windows
<1>. DEFINE w == Of(windows, k)
<1>0. DOMAIN Sweep(windows) \subseteq DOMAIN windows
  BY DEF Sweep
<1>1. CASE Of(Sweep(windows), k) = w
  BY <1>0, <1>1
<1>2. CASE Of(Sweep(windows), k) # w
  <2>1. /\ Of(Sweep(windows), k) = <<>> /\ w = windows[k]
        /\ w # <<>> => ~ (clock - w[Len(w)] < MaxWindow)
    BY <1>2 DEF Of, Sweep
  <2>. HIDE DEF w
  <2>2. w # <<>>
    BY <1>2, <2>1
  <2>3. /\ clock \in Nat /\ Run(w, clock) /\ Run(a, clock) /\ Remembers(w, a, clock)
        /\ \A i \in 0..Len(a) - 1 : clock - Back(a, i) < Window
    BY DEF AttemptsOK, LimiterRows, w
  <2>4. Len(a) \in Nat /\ Len(w) \in Nat /\ \A i \in 0..Len(w) - 1 : Back(w, i) \in Nat
    BY <2>3, RunBack
  <2>5. Len(w) # 0
    BY <2>2, <2>3, EmptySeq DEF Run
  <2>6. clock - Back(w, 0) >= MaxWindow
    <3>0. Len(w) - 0 = Len(w) /\ 0 \in 0..Len(w) - 1
      BY <2>4, <2>5
    <3>1. Back(w, 0) = w[Len(w)] /\ Back(w, 0) \in Nat
      BY <3>0, <2>4 DEF Back
    <3>2. MaxWindow \in Nat
      BY LimiterNumbers
    <3>. QED
      BY <2>1, <2>2, <2>3, <3>1, <3>2
  <2>7. Len(a) = 0
    <3>. SUFFICES ASSUME Len(a) # 0
         PROVE  FALSE
      OBVIOUS
    <3>1. 0 \in 0..Len(a) - 1 /\ 0 < Len(w) /\ 0 \in 0..Len(w) - 1
      BY <2>4, <2>5
    <3>2. Back(w, 0) = Back(a, 0) /\ Back(w, 0) \in Nat /\ clock - Back(a, 0) < Window
      BY <3>1, <2>3, <2>4 DEF Remembers
    <3>. QED
      BY <3>2, <2>3, <2>6, LimiterNumbers
  <2>. QED
    BY <2>1, <2>3, <2>7, <1>0, Forgotten
<1>. QED
  BY <1>1, <1>2

-----------------------------------------------------------------------------
LEMMA CountedIs ==
    ASSUME LimiterIInv, NEW k \in AllKeys
    PROVE  Counted(k) = Len(admitted[k]) /\ Counted(k) \in Nat
BY RunBack DEF Counted, LimiterIInv, Remembered, AttemptsOK

(* Requests in flight are no more than there are clients.                   *)
LEMMA InFlight ==
    ASSUME NEW b, NEW cs, cs = {c \in Clients : client[c] = b}
    PROVE  /\ IsFiniteSet(cs) /\ cs \subseteq Clients
           /\ Cardinality(cs) \in Nat /\ Cardinality(Clients) \in Nat
           /\ Cardinality(cs) =< Cardinality(Clients)
<1>1. IsFiniteSet(Clients) /\ cs \subseteq Clients
  BY LimiterAssumption
<1>. QED
  BY <1>1, FS_Subset, FS_CardinalityType

(* One more or one less in flight with a key.                               *)
LEMMA InFlightOther ==
    ASSUME LimiterRows, NEW c \in Clients, NEW v, client' = [client EXCEPT ![c] = v], NEW b, b # v
    PROVE  /\ {x \in Clients : client'[x] = b} = {x \in Clients : client[x] = b} \ {c}
           /\ client[c] # b => {x \in Clients : client'[x] = b} = {x \in Clients : client[x] = b}
BY DEF LimiterRows

LEMMA AllowKeeps ==
    ASSUME LimiterIInv, NEW k \in Keys, Allow(k)
    PROVE  LimiterIInv'
<1>. DEFINE ws == Sweep(windows)
            w  == Of(ws, k)
            p  == Prune(w, clock, Window)
            a  == admitted[k]
<1>1. /\ k \in AllKeys /\ clock \in Nat /\ DOMAIN windows \subseteq AllKeys
      /\ DOMAIN admitted = AllKeys /\ k \notin BasicKeys
  BY LimiterAssumption DEF LimiterIInv, LimiterRows, AllKeys
<1>2. /\ \A x \in AllKeys : AttemptsOK(Of(ws, x), admitted[x], clock)
      /\ DOMAIN ws \subseteq DOMAIN windows
  BY <1>1, SweepRemembers DEF LimiterIInv, Remembered
<1>3. /\ AttemptsOK(p, a, clock) /\ Len(p) \in Nat /\ Len(a) \in Nat /\ Len(p) =< Len(a)
      /\ Len(p) < Kept => Len(a) = Len(p)
  BY <1>1, <1>2, AskedIs
<1>4. Limit[k] \in Nat \ {0} /\ Limit[k] =< Kept /\ Kept \in Nat /\ Kept # 0
  BY <1>1, LimiterNumbers
<1>5. /\ windows' = Set(ws, k, IF Len(p) >= Limit[k] THEN p ELSE Push(p))
      /\ admitted' = IF Len(p) >= Limit[k] THEN admitted ELSE [admitted EXCEPT ![k] = Append(@, clock)]
      /\ clock' = clock /\ client' = client
  BY DEF Allow
<1>. HIDE DEF ws, p
<1>6. PICK q : /\ q = (IF Len(p) >= Limit[k] THEN p ELSE Push(p))
               /\ AttemptsOK(q, admitted'[k], clock) /\ Len(admitted'[k]) =< Limit[k]
               /\ DOMAIN admitted' = AllKeys
               /\ \A x \in AllKeys : x # k => admitted'[x] = admitted[x]
  <2>1. CASE Len(p) >= Limit[k]
    <3>1. admitted' = admitted /\ Len(a) =< Limit[k]
      BY <2>1, <1>1, <1>5, CountedIs DEF LimiterIInv, NoneTooMany
    <3>. QED
      BY <2>1, <3>1, <1>1, <1>3
  <2>2. CASE ~ (Len(p) >= Limit[k])
    <3>1. AttemptsOK(Push(p), Append(a, clock), clock)
      BY <1>1, <1>3, <1>4, PushRemembers
    <3>2. /\ admitted'[k] = Append(a, clock) /\ DOMAIN admitted' = AllKeys
          /\ \A x \in AllKeys : x # k => admitted'[x] = admitted[x]
      BY <2>2, <1>1, <1>5
    <3>3. Len(Append(a, clock)) = Len(a) + 1
      BY <1>3, <1>1, AppendProperties DEF AttemptsOK, Run
    <3>4. Len(a) + 1 =< Limit[k]
      BY <2>2, <1>3, <1>4
    <3>5. Len(admitted'[k]) =< Limit[k]
      BY <3>2, <3>3, <3>4
    <3>. QED
      BY <2>2, <3>1, <3>2, <3>5
  <2>. QED
    BY <2>1, <2>2
<1>7. /\ DOMAIN windows' = DOMAIN ws \union {k}
      /\ \A x : Of(windows', x) = IF x = k THEN q ELSE Of(ws, x)
  <2>1. windows' = Set(ws, k, q)
    BY <1>5, <1>6
  <2>. QED
    BY <2>1 DEF Set, Of
<1>8. LimiterRows'
  BY <1>1, <1>2, <1>5, <1>6, <1>7 DEF LimiterIInv, LimiterRows
<1>9. Remembered'
  BY <1>2, <1>5, <1>6, <1>7 DEF Remembered
<1>10. NoneTooMany'
  BY <1>6 DEF LimiterIInv, NoneTooMany, Counted, AllKeys
<1>11. FailuresNeedRace'
  <2>1. \A b \in BasicKeys : Counted(b)' = Counted(b)
    BY <1>1, <1>6 DEF Counted, AllKeys
  <2>. QED
    BY <2>1, <1>5 DEF LimiterIInv, FailuresNeedRace
<1>. QED
  BY <1>8, <1>9, <1>10, <1>11 DEF LimiterIInv

LEMMA BasicAskKeeps ==
    ASSUME LimiterIInv, NEW c \in Clients, NEW k \in BasicKeys, BasicAsk(c, k)
    PROVE  LimiterIInv'
<1>. DEFINE w == Of(windows, k)
            p == Prune(w, clock, Window)
            a == admitted[k]
<1>1. /\ k \in AllKeys /\ k \notin Keys /\ k # "none" /\ clock \in Nat
      /\ DOMAIN windows \subseteq AllKeys /\ client \in [Clients -> BasicKeys \union {"none"}]
      /\ AttemptsOK(w, a, clock)
  BY LimiterAssumption DEF LimiterIInv, LimiterRows, Remembered, AllKeys
<1>2. /\ AttemptsOK(p, a, clock) /\ Len(p) \in Nat /\ Len(a) \in Nat
      /\ Len(p) < Kept => Len(a) = Len(p)
  BY <1>1, AskedIs
<1>3. /\ client[c] = "none" /\ client' = [client EXCEPT ![c] = IF AtLimit(k) THEN "none" ELSE k]
      /\ clock' = clock /\ admitted' = admitted
  BY DEF BasicAsk
<1>4. DOMAIN windows' \subseteq AllKeys /\ \A x : Of(windows', x) = Of(windows, x) \/ (x = k /\ Of(windows', x) = p)
  <2>1. CASE k \in DOMAIN windows
    <3>1. windows' = Set(windows, k, p)
      BY <2>1 DEF BasicAsk, Of
    <3>2. DOMAIN windows' = DOMAIN windows \union {k}
      BY <3>1 DEF Set
    <3>3. \A x : Of(windows', x) = IF x = k THEN p ELSE Of(windows, x)
      BY <3>1 DEF Set, Of
    <3>. HIDE DEF p
    <3>. QED
      BY <3>2, <3>3, <1>1
  <2>2. CASE k \notin DOMAIN windows
    <3>1. windows' = windows
      BY <2>2 DEF BasicAsk
    <3>. QED
      BY <3>1, <1>1
  <2>. QED
    BY <2>1, <2>2
<1>. HIDE DEF p
<1>5. LimiterRows'
  BY <1>1, <1>3, <1>4 DEF LimiterIInv, LimiterRows
<1>6. Remembered'
  BY <1>2, <1>3, <1>4 DEF LimiterIInv, Remembered
<1>7. NoneTooMany'
  BY <1>3 DEF LimiterIInv, NoneTooMany, Counted
<1>8. FailuresNeedRace'
  <2>. SUFFICES ASSUME NEW b \in BasicKeys
       PROVE  Len(admitted'[b]) + Cardinality({x \in Clients : client'[x] = b})
                  =< Limit[b] + Cardinality(Clients) - 1
    BY DEF FailuresNeedRace, Counted
  <2>1. /\ b \in AllKeys /\ b # "none"
        /\ Len(admitted[b]) + Cardinality({x \in Clients : client[x] = b})
                  =< Limit[b] + Cardinality(Clients) - 1
    BY LimiterAssumption DEF LimiterIInv, FailuresNeedRace, Counted, AllKeys
  <2>2. CASE b # client'[c]
    <3>1. \A v : client' = [client EXCEPT ![c] = v] /\ b # v =>
              {x \in Clients : client'[x] = b} = {x \in Clients : client[x] = b}
      BY <2>1, <1>3, InFlightOther DEF LimiterIInv
    <3>2. {x \in Clients : client'[x] = b} = {x \in Clients : client[x] = b}
      BY <3>1, <2>2, <1>1, <1>3
    <3>. QED
      BY <3>2, <2>1, <1>3
  <2>3. CASE b = client'[c]
    <3>1. b = k /\ ~ AtLimit(k)
      BY <2>1, <2>3, <1>1, <1>3
    <3>2. Len(p) < Limit[k] /\ Limit[k] \in Nat /\ Limit[k] =< Kept /\ Kept \in Nat
      BY <3>1, <1>1, <1>2, LimiterNumbers DEF AtLimit, p
    <3>3. Len(a) =< Limit[k] - 1
      BY <3>2, <1>2
    <3>4. /\ Cardinality({x \in Clients : client'[x] = b}) \in Nat /\ Cardinality(Clients) \in Nat
          /\ Cardinality({x \in Clients : client'[x] = b}) =< Cardinality(Clients)
      BY LimiterAssumption, FS_Subset, FS_CardinalityType
    <3>. QED
      BY <3>1, <3>2, <3>3, <3>4, <1>2, <1>3
  <2>. QED
    BY <2>2, <2>3
<1>. QED
  BY <1>5, <1>6, <1>7, <1>8 DEF LimiterIInv

LEMMA RecordKeeps ==
    ASSUME LimiterIInv, NEW c \in Clients, Record(c)
    PROVE  LimiterIInv'
<1>. DEFINE k  == client[c]
            ws == Sweep(windows)
            w  == Of(ws, k)
            p  == Prune(w, clock, MaxWindow)
            a  == admitted[k]
<1>1. /\ k \in BasicKeys /\ k \in AllKeys /\ k \notin Keys /\ k # "none" /\ clock \in Nat
      /\ DOMAIN windows \subseteq AllKeys /\ client \in [Clients -> BasicKeys \union {"none"}]
      /\ DOMAIN admitted = AllKeys
  BY LimiterAssumption DEF LimiterIInv, LimiterRows, Record, AllKeys
<1>2. /\ \A x \in AllKeys : AttemptsOK(Of(ws, x), admitted[x], clock)
      /\ DOMAIN ws \subseteq DOMAIN windows
  BY <1>1, SweepRemembers DEF LimiterIInv, Remembered
<1>3. /\ windows' = Set(ws, k, Push(p)) /\ admitted' = [admitted EXCEPT ![k] = Append(@, clock)]
      /\ client' = [client EXCEPT ![c] = "none"] /\ clock' = clock
  BY DEF Record
<1>4. AttemptsOK(p, a, clock)
  BY <1>1, <1>2, PruneRemembers, LimiterNumbers
<1>5. Kept \in Nat /\ Kept # 0
  BY <1>1, LimiterNumbers
<1>. HIDE DEF k, ws, p
<1>6. AttemptsOK(Push(p), Append(a, clock), clock)
  BY <1>1, <1>4, <1>5, PushRemembers
<1>7. /\ admitted'[k] = Append(a, clock) /\ DOMAIN admitted' = AllKeys
      /\ \A x \in AllKeys : x # k => admitted'[x] = admitted[x]
  BY <1>1, <1>3
<1>8. DOMAIN windows' = DOMAIN ws \union {k}
  BY <1>3 DEF Set
<1>9. \A x : Of(windows', x) = IF x = k THEN Push(p) ELSE Of(ws, x)
  BY <1>3 DEF Set, Of
<1>10. LimiterRows'
  BY <1>1, <1>2, <1>3, <1>7, <1>8 DEF LimiterIInv, LimiterRows
<1>11. Remembered'
  BY <1>2, <1>3, <1>6, <1>7, <1>9 DEF Remembered
<1>12. NoneTooMany'
  BY <1>1, <1>7 DEF LimiterIInv, NoneTooMany, Counted, AllKeys
<1>13. FailuresNeedRace'
  <2>. SUFFICES ASSUME NEW b \in BasicKeys
       PROVE  Len(admitted'[b]) + Cardinality({x \in Clients : client'[x] = b})
                  =< Limit[b] + Cardinality(Clients) - 1
    BY DEF FailuresNeedRace, Counted
  <2>1. /\ b \in AllKeys /\ b # "none"
        /\ Len(admitted[b]) + Cardinality({x \in Clients : client[x] = b})
                  =< Limit[b] + Cardinality(Clients) - 1
    BY LimiterAssumption DEF LimiterIInv, FailuresNeedRace, Counted, AllKeys
  <2>2. {x \in Clients : client'[x] = b} = {x \in Clients : client[x] = b} \ {c}
    BY <2>1, <1>1, <1>3
  <2>3. CASE b # k
    <3>1. {x \in Clients : client'[x] = b} = {x \in Clients : client[x] = b}
      BY <2>3, <2>2 DEF k
    <3>. QED
      BY <2>1, <2>3, <3>1, <1>7
  <2>4. CASE b = k
    <3>1. c \in {x \in Clients : client[x] = b}
      BY <2>4 DEF k
    <3>2. /\ IsFiniteSet({x \in Clients : client[x] = b})
          /\ Cardinality({x \in Clients : client[x] = b}) \in Nat
      BY InFlight
    <3>3. Cardinality({x \in Clients : client'[x] = b}) = Cardinality({x \in Clients : client[x] = b}) - 1
      BY <3>1, <3>2, <2>2, FS_RemoveElement
    <3>4. Len(admitted'[b]) = Len(admitted[b]) + 1 /\ Len(admitted[b]) \in Nat
      <4>1. a \in Seq(Nat) /\ Len(a) \in Nat
        BY <1>4, RunBack DEF AttemptsOK, Run
      <4>. QED
        BY <4>1, <2>4, <1>1, <1>7, AppendProperties
    <3>. QED
      BY <3>2, <3>3, <3>4, <2>1
  <2>. QED
    BY <2>3, <2>4
<1>. QED
  BY <1>10, <1>11, <1>12, <1>13 DEF LimiterIInv

LEMMA BasicPassesKeeps ==
    ASSUME LimiterIInv, NEW c \in Clients, BasicPasses(c)
    PROVE  LimiterIInv'
<1>1. /\ clock' = clock /\ windows' = windows /\ admitted' = admitted
      /\ client' = [client EXCEPT ![c] = "none"]
  BY DEF BasicPasses
<1>2. LimiterRows' /\ Remembered' /\ NoneTooMany'
  BY <1>1 DEF LimiterIInv, LimiterRows, Remembered, NoneTooMany, Counted
<1>3. FailuresNeedRace'
  <2>. SUFFICES ASSUME NEW b \in BasicKeys
       PROVE  Len(admitted[b]) + Cardinality({x \in Clients : client'[x] = b})
                  =< Limit[b] + Cardinality(Clients) - 1
    BY <1>1 DEF FailuresNeedRace, Counted
  <2>1. /\ b # "none" /\ b \in AllKeys
        /\ Len(admitted[b]) + Cardinality({x \in Clients : client[x] = b})
                  =< Limit[b] + Cardinality(Clients) - 1
    BY LimiterAssumption DEF LimiterIInv, FailuresNeedRace, Counted, AllKeys
  <2>2. {x \in Clients : client'[x] = b} \subseteq {x \in Clients : client[x] = b}
    BY <2>1, <1>1, InFlightOther DEF LimiterIInv
  <2>3. /\ IsFiniteSet({x \in Clients : client[x] = b}) /\ Cardinality(Clients) \in Nat
        /\ Cardinality({x \in Clients : client[x] = b}) \in Nat
    BY InFlight
  <2>4. /\ Cardinality({x \in Clients : client'[x] = b}) =< Cardinality({x \in Clients : client[x] = b})
        /\ Cardinality({x \in Clients : client'[x] = b}) \in Nat
    BY <2>2, <2>3, FS_Subset, FS_CardinalityType
  <2>5. Len(admitted[b]) \in Nat /\ Limit[b] \in Nat
    BY <2>1, CountedIs, LimiterNumbers DEF Counted
  <2>. QED
    BY <2>1, <2>3, <2>4, <2>5
<1>. QED
  BY <1>2, <1>3 DEF LimiterIInv

LEMMA TickKeeps ==
    ASSUME LimiterIInv, Tick
    PROVE  LimiterIInv'
<1>1. /\ clock' = clock + 1 /\ clock \in Nat /\ windows' = windows /\ client' = client
      /\ admitted' = [k \in AllKeys |-> Prune(admitted[k], clock', Window)]
  BY DEF LimiterIInv, LimiterRows, Tick
<1>2. ASSUME NEW k \in AllKeys
      PROVE  /\ AttemptsOK(Of(windows', k), admitted'[k], clock')
             /\ Len(admitted'[k]) \in Nat /\ Len(admitted[k]) \in Nat
             /\ Len(admitted'[k]) =< Len(admitted[k])
  <2>1. AttemptsOK(Of(windows, k), admitted[k], clock) /\ admitted'[k] = Prune(admitted[k], clock', Window)
    BY <1>1 DEF LimiterIInv, Remembered
  <2>. QED
    BY <2>1, <1>1, TickRemembers
<1>3. LimiterRows'
  BY <1>1 DEF LimiterIInv, LimiterRows
<1>4. Remembered'
  BY <1>2 DEF Remembered
<1>5. NoneTooMany'
  <2>. SUFFICES ASSUME NEW k \in Keys
       PROVE  Len(admitted'[k]) =< Limit[k]
    BY DEF NoneTooMany, Counted
  <2>1. k \in AllKeys /\ Len(admitted[k]) =< Limit[k] /\ Limit[k] \in Nat
    BY LimiterNumbers DEF LimiterIInv, NoneTooMany, Counted, AllKeys
  <2>. QED
    BY <2>1, <1>2
<1>6. FailuresNeedRace'
  <2>. SUFFICES ASSUME NEW b \in BasicKeys
       PROVE  Len(admitted'[b]) + Cardinality({x \in Clients : client[x] = b})
                  =< Limit[b] + Cardinality(Clients) - 1
    BY <1>1 DEF FailuresNeedRace, Counted
  <2>1. /\ b \in AllKeys /\ Limit[b] \in Nat
        /\ Len(admitted[b]) + Cardinality({x \in Clients : client[x] = b})
                  =< Limit[b] + Cardinality(Clients) - 1
    BY LimiterNumbers DEF LimiterIInv, FailuresNeedRace, Counted, AllKeys
  <2>2. Cardinality({x \in Clients : client[x] = b}) \in Nat /\ Cardinality(Clients) \in Nat
    BY InFlight
  <2>. QED
    BY <2>1, <2>2, <1>2
<1>. QED
  BY <1>3, <1>4, <1>5, <1>6 DEF LimiterIInv

LEMMA LimiterStarts ==
    ASSUME LimiterInit
    PROVE  LimiterIInv
<1>1. /\ clock = 0 /\ windows = [k \in {} |-> <<>>] /\ client = [c \in Clients |-> "none"]
      /\ admitted = [k \in AllKeys |-> <<>>]
  BY DEF LimiterInit
<1>2. <<>> \in Seq(Nat) /\ Len(<<>>) = 0
  OBVIOUS
<1>3. ASSUME NEW k \in AllKeys
      PROVE  AttemptsOK(Of(windows, k), admitted[k], clock)
  <2>1. Of(windows, k) = <<>> /\ admitted[k] = <<>>
    BY <1>1 DEF Of
  <2>2. Run(<<>>, 0)
    BY <1>2 DEF Run
  <2>. QED
    BY <2>1, <2>2, <1>1, <1>2, Forgotten
<1>4. LimiterRows
  BY <1>1 DEF LimiterRows
<1>5. NoneTooMany
  BY <1>1, <1>2, LimiterNumbers DEF NoneTooMany, Counted, AllKeys
<1>6. FailuresNeedRace
  <2>. SUFFICES ASSUME NEW b \in BasicKeys
       PROVE  Len(admitted[b]) + Cardinality({x \in Clients : client[x] = b})
                  =< Limit[b] + Cardinality(Clients) - 1
    BY DEF FailuresNeedRace, Counted
  <2>1. {x \in Clients : client[x] = b} = {}
    BY <1>1, LimiterAssumption
  <2>2. Cardinality({x \in Clients : client[x] = b}) = 0 /\ Cardinality(Clients) \in Nat
    BY <2>1, FS_EmptySet, InFlight
  <2>3. Len(admitted[b]) = 0 /\ Limit[b] \in Nat \ {0}
    BY <1>1, <1>2, LimiterNumbers DEF AllKeys
  <2>. QED
    BY <2>2, <2>3
<1>. QED
  BY <1>3, <1>4, <1>5, <1>6 DEF LimiterIInv, Remembered

LEMMA LimiterSteps ==
    ASSUME LimiterIInv, [LimiterNext]_limiter
    PROVE  LimiterIInv'
<1>1. ASSUME NEW k \in Keys, Allow(k)
      PROVE  LimiterIInv'
  BY <1>1, AllowKeeps
<1>2. ASSUME NEW c \in Clients, NEW k \in BasicKeys, BasicAsk(c, k)
      PROVE  LimiterIInv'
  BY <1>2, BasicAskKeeps
<1>3. ASSUME NEW c \in Clients, Record(c)
      PROVE  LimiterIInv'
  BY <1>3, RecordKeeps
<1>4. ASSUME NEW c \in Clients, BasicPasses(c)
      PROVE  LimiterIInv'
  BY <1>4, BasicPassesKeeps
<1>5. CASE Tick
  BY <1>5, TickKeeps
<1>6. CASE UNCHANGED limiter
  BY <1>6 DEF limiter, LimiterIInv, LimiterRows, Remembered, NoneTooMany, FailuresNeedRace, Counted
<1>. QED
  BY <1>1, <1>2, <1>3, <1>4, <1>5, <1>6 DEF LimiterNext

(* The limiter lets no key past its limit in any window, denies only a key  *)
(* that has had as many, and is overrun in basic authentication by the      *)
(* requests in flight and no more (RateLimiter::allow, at_limit, record):   *)
(* neither the cap on what is kept nor the sweep forgets one that counts.   *)
THEOREM LimitsKept == LimiterSpec => []LimitsHold
<1>1. LimiterInit => LimiterIInv
  BY LimiterStarts
<1>2. LimiterIInv /\ [LimiterNext]_limiter => LimiterIInv'
  BY LimiterSteps
<1>3. LimiterIInv => LimitsHold
  <2>. SUFFICES ASSUME LimiterIInv
       PROVE  WindowHolds
    BY DEF LimitsHold, LimiterIInv
  <2>. SUFFICES ASSUME NEW k \in Keys
       PROVE  Counted(k) =< Limit[k] /\ (AtLimit(k) => Counted(k) >= Limit[k])
    BY DEF WindowHolds
  <2>1. /\ k \in AllKeys /\ clock \in Nat /\ AttemptsOK(Of(windows, k), admitted[k], clock)
        /\ Limit[k] \in Nat
    BY LimiterNumbers DEF LimiterIInv, LimiterRows, Remembered, AllKeys
  <2>2. /\ Len(Prune(Of(windows, k), clock, Window)) \in Nat /\ Len(admitted[k]) \in Nat
        /\ Len(Prune(Of(windows, k), clock, Window)) =< Len(admitted[k])
    BY <2>1, AskedIs
  <2>3. AtLimit(k) => Counted(k) >= Limit[k]
    BY <2>1, <2>2 DEF AtLimit, Counted
  <2>. QED
    BY <2>3 DEF LimiterIInv, NoneTooMany
<1>. QED
  BY <1>1, <1>2, <1>3, PTL DEF LimiterSpec
=============================================================================
