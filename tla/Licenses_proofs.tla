--------------------------- MODULE Licenses_proofs ---------------------------
(* An order buys one key and a renewal extends it once, for any keys,       *)
(* orders, editions and calls, and without bounds on what operators do.     *)
EXTENDS Licenses, WellFoundedInduction, TLAPS

KeyRows == [status : {"none", "active", "revoked"}, edition : Editions \union {None},
            order : Orders \union {None}, own : Bounds]

Asked(m) == m.at = "issue" => m.order \in Orders /\ m.edition \in Editions
Merging(m) == m.at = "merge" => m.source \in Keys /\ key[m.source].status # "none"

(* A key that is not there is no order's, and an order has one key of each  *)
(* edition: the unique index.                                               *)
Unminted  == \A k \in Keys : Exists(k) \/ key[k] = NoKey
OneKey    == \A k, l \in Keys :
                (key[k].order \in Orders /\ key[k].order = key[l].order
                    /\ key[k].edition = key[l].edition) => k = l
Answered  == \A x \in answered :
                /\ x \in Orders \X Editions \X Keys
                /\ key[x[3]].order = x[1] /\ key[x[3]].edition = x[2]

IInv ==
    /\ now \in 0 .. Horizon
    /\ key \in [Keys -> KeyRows]
    /\ Unminted
    /\ OneKey
    /\ Answered
    /\ extended \in [Keys \X Orders -> Nat]
    /\ OneExtensionPerRenewal
    /\ \A c \in Calls : Asked(call[c]) /\ Merging(call[c])

LEMMA NoneFacts == None \notin Orders /\ None \notin Int
BY LicensesAssumption

LEMMA BoundFacts ==
    ASSUME now \in 0 .. Horizon
    PROVE  /\ Free \in Bounds
           /\ \A e \in Editions : Template(e) \in Bounds
<1>. DEFINE Values == (0 .. MaxUntil + Major) \union {None}
<1>1. now + Period \in 0 .. MaxUntil + Major /\ Major \in 0 .. MaxUntil + Major
  BY LicensesAssumption
<1>2. Free \in Bounds
  BY DEF Free, Bounds
<1>3. ASSUME NEW e \in Editions PROVE Template(e) \in Bounds
  <2>1. ASSUME NEW a \in Axes
        PROVE  (CASE a = "until" /\ Kind[e] = "time"    -> now + Period
                  [] a = "major" /\ Kind[e] = "version" -> Major
                  [] OTHER -> None) \in Values
    BY <1>1 DEF Axes
  <2>. QED
    BY <2>1 DEF Template, Bounds
<1>. QED
  BY <1>2, <1>3

LEMMA InitIInv == Init => IInv
<1>. SUFFICES ASSUME Init PROVE IInv
  OBVIOUS
<1>1. now \in 0 .. Horizon
  BY LicensesAssumption DEF Init
<1>2. NoKey \in KeyRows
  BY <1>1, BoundFacts DEF NoKey, KeyRows
<1>3. key \in [Keys -> KeyRows] /\ Unminted
  BY <1>2 DEF Init, Unminted
<1>4. OneKey
  <2>1. \A k \in Keys : key[k].order = None
    BY DEF Init, NoKey
  <2>. QED
    BY <2>1, NoneFacts DEF OneKey
<1>5. Answered /\ extended \in [Keys \X Orders -> Nat] /\ OneExtensionPerRenewal
  BY DEF Init, Answered, OneExtensionPerRenewal
<1>6. \A c \in Calls : Asked(call[c]) /\ Merging(call[c])
  BY DEF Init, Asked, Merging, Idle
<1>. QED
  BY <1>1, <1>3, <1>4, <1>5, <1>6 DEF IInv

-----------------------------------------------------------------------------
(* Most steps change no key's order or edition, and mint none.              *)
KeyKeeps ==
    /\ key' \in [Keys -> KeyRows]
    /\ \A k \in Keys : /\ key'[k].order = key[k].order
                       /\ key'[k].edition = key[k].edition
                       /\ key[k].status # "none" => key'[k].status # "none"
                       /\ key[k].status = "none" => key'[k] = key[k]

LEMMA KeysUnchanged ==
    ASSUME IInv, UNCHANGED key
    PROVE  KeyKeeps
BY DEF IInv, KeyKeeps

LEMMA Frame ==
    ASSUME IInv, KeyKeeps, now' \in 0 .. Horizon,
           \A x \in answered' :
              \/ x \in answered
              \/ /\ x \in Orders \X Editions \X Keys
                 /\ key[x[3]].order = x[1] /\ key[x[3]].edition = x[2],
           extended' \in [Keys \X Orders -> Nat], OneExtensionPerRenewal',
           \A c \in Calls : Asked(call'[c]) /\ Merging(call'[c])
    PROVE  IInv'
<1>1. Unminted'
  BY DEF IInv, KeyKeeps, Unminted, Exists
<1>2. OneKey'
  BY DEF IInv, KeyKeeps, OneKey
<1>3. Answered'
  BY DEF IInv, KeyKeeps, Answered
<1>4. \A c \in Calls : Asked(call[c])' /\ Merging(call[c])'
  BY DEF IInv, KeyKeeps, Asked, Merging
<1>. QED
  BY <1>1, <1>2, <1>3, <1>4 DEF IInv, KeyKeeps

LEMMA LedgerUnchanged ==
    ASSUME IInv, UNCHANGED <<ledger, extended>>
    PROVE  extended' \in [Keys \X Orders -> Nat] /\ OneExtensionPerRenewal'
BY DEF IInv, OneExtensionPerRenewal

LEMMA LedgerGrows ==
    ASSUME IInv, NEW k, NEW o, Recorded(k, o), UNCHANGED extended
    PROVE  extended' \in [Keys \X Orders -> Nat] /\ OneExtensionPerRenewal'
BY DEF IInv, OneExtensionPerRenewal, Recorded

LEMMA LedgerCounts ==
    ASSUME IInv, NEW k \in Keys, NEW o \in Orders \union {None},
           Fresh(k, o), Recorded(k, o), Counted(k, o)
    PROVE  extended' \in [Keys \X Orders -> Nat] /\ OneExtensionPerRenewal'
<1>1. CASE o = None
  BY <1>1 DEF IInv, OneExtensionPerRenewal, Recorded, Counted
<1>2. CASE o # None
  <2>1. <<k, o>> \in Keys \X Orders /\ <<k, o>> \notin ledger /\ <<k, o>> \in ledger'
    BY <1>2 DEF Fresh, Recorded
  <2>2. extended[<<k, o>>] = 0
    BY <2>1 DEF IInv, OneExtensionPerRenewal
  <2>3. extended' = [extended EXCEPT ![<<k, o>>] = extended[<<k, o>>] + 1] /\ ledger \subseteq ledger'
    BY <1>2 DEF Counted, Recorded
  <2>. QED
    BY <2>1, <2>2, <2>3 DEF IInv, OneExtensionPerRenewal
<1>. QED
  BY <1>1, <1>2

LEMMA CallMoves ==
    ASSUME IInv, NEW c \in Calls, NEW m, Asked(m), Merging(m), Goes(c, m)
    PROVE  \A d \in Calls : Asked(call'[d]) /\ Merging(call'[d])
<1>1. \A d \in Calls : call'[d] = m \/ call'[d] = call[d]
  BY DEF Goes
<1>. QED
  BY <1>1 DEF IInv

LEMMA CallsUnchanged ==
    ASSUME IInv, UNCHANGED call
    PROVE  \A d \in Calls : Asked(call'[d]) /\ Merging(call'[d])
BY DEF IInv

LEMMA CallsKept ==
    ASSUME IInv, \A k \in Keys : key[k].status # "none" => key'[k].status # "none",
           \A d \in Calls : Asked(call'[d]) /\ Merging(call'[d])
    PROVE  \A d \in Calls : Asked(call[d])' /\ Merging(call[d])'
BY DEF Asked, Merging

LEMMA IdleFacts == Asked(Idle) /\ Merging(Idle)
BY DEF Asked, Merging, Idle

-----------------------------------------------------------------------------
(* Minting: the index has let it pass, so no key is this order's.           *)
LEMMA MintOne ==
    ASSUME IInv, NEW k \in Keys, NEW e \in Editions, NEW o \in Orders \union {None},
           NEW account \in BOOLEAN,
           o # None => IdempotencyHit(o, e) = {},
           Minted(k, e, o, account)
    PROVE  /\ key' \in [Keys -> KeyRows] /\ Unminted' /\ OneKey'
           /\ key'[k].order = o /\ key'[k].edition = e
           /\ \A l \in Keys : key[l].order \in Orders =>
                 key'[l].order = key[l].order /\ key'[l].edition = key[l].edition
           /\ \A l \in Keys : key[l].status # "none" => key'[l].status # "none"
<1>. DEFINE row == [status |-> "active", edition |-> e, order |-> o,
                    own |-> IF account THEN Free ELSE Template(e)]
<1>1. key[k] = NoKey /\ key' = [key EXCEPT ![k] = row]
  BY DEF Minted
<1>2. row \in KeyRows /\ row.order = o /\ row.edition = e /\ row.status = "active"
  BY BoundFacts DEF IInv, KeyRows
<1>. HIDE DEF row
<1>3. key'[k] = row /\ \A l \in Keys \ {k} : key'[l] = key[l]
  BY <1>1 DEF IInv
<1>4. key' \in [Keys -> KeyRows]
  BY <1>1, <1>2 DEF IInv
<1>5. Unminted'
  BY <1>2, <1>3 DEF IInv, Unminted, Exists
<1>6. key[k].order \notin Orders
  BY <1>1, LicensesAssumption DEF NoKey
<1>7. \A l \in Keys : key[l].order = o /\ key[l].edition = e => o = None
  <2>. SUFFICES ASSUME NEW l \in Keys, key[l].order = o, key[l].edition = e, o # None PROVE FALSE
    OBVIOUS
  <2>1. Exists(l)
    BY LicensesAssumption DEF IInv, Unminted, NoKey
  <2>. QED
    BY <2>1 DEF IdempotencyHit
<1>8. OneKey'
  <2>. SUFFICES ASSUME NEW l \in Keys, NEW m \in Keys, key'[l].order \in Orders,
                       key'[l].order = key'[m].order, key'[l].edition = key'[m].edition
                PROVE  l = m
    BY DEF OneKey
  <2>1. CASE l # k /\ m # k
    BY <2>1, <1>3 DEF IInv, OneKey
  <2>2. CASE l = k /\ m # k
    BY <2>2, <1>2, <1>3, <1>7, NoneFacts
  <2>3. CASE l # k /\ m = k
    BY <2>3, <1>2, <1>3, <1>7, NoneFacts
  <2>. QED
    BY <2>1, <2>2, <2>3
<1>. QED
  BY <1>2, <1>3, <1>4, <1>5, <1>6, <1>8

LEMMA MintStep ==
    ASSUME IInv, NEW c \in Calls, NEW k \in Keys, Mint(c, k)
    PROVE  IInv'
<1>. DEFINE o == call[c].order
            e == call[c].edition
<1>1. o \in Orders /\ e \in Editions /\ o # None
  BY LicensesAssumption DEF IInv, Mint, Asked
<1>2. IdempotencyHit(o, e) = {} /\ Minted(k, e, o, call[c].account)
  BY DEF Mint
<1>3. /\ key' \in [Keys -> KeyRows] /\ Unminted' /\ OneKey'
      /\ key'[k].order = o /\ key'[k].edition = e
      /\ \A l \in Keys : key[l].order \in Orders =>
            key'[l].order = key[l].order /\ key'[l].edition = key[l].edition
      /\ \A l \in Keys : key[l].status # "none" => key'[l].status # "none"
  <2>1. \E account \in BOOLEAN : Minted(k, e, o, account)
    <3>1. Minted(k, e, o, call[c].account) => Minted(k, e, o, TRUE) \/ Minted(k, e, o, FALSE)
      BY DEF Minted, AttachSet
    <3>. QED
      BY <1>2, <3>1
  <2>. QED
    BY <2>1, <1>1, <1>2, MintOne
<1>4. Answered'
  BY <1>1, <1>3 DEF Mint, IInv, Answered
<1>5. \A d \in Calls : Asked(call[d])' /\ Merging(call[d])'
  BY <1>3, IdleFacts, CallMoves, CallsKept DEF Mint
<1>6. now' = now /\ UNCHANGED <<ledger, extended>>
  BY DEF Mint, shop
<1>. QED
  BY <1>3, <1>4, <1>5, <1>6, LedgerUnchanged DEF IInv

LEMMA IssueFromEditionStep ==
    ASSUME IInv, NEW k \in Keys, NEW e \in Editions, IssueFromEdition(k, e)
    PROVE  IInv'
<1>1. /\ key' \in [Keys -> KeyRows] /\ Unminted' /\ OneKey'
      /\ \A l \in Keys : key[l].order \in Orders =>
            key'[l].order = key[l].order /\ key'[l].edition = key[l].edition
      /\ \A l \in Keys : key[l].status # "none" => key'[l].status # "none"
  BY MintOne DEF IssueFromEdition
<1>2. UNCHANGED <<now, answered, call, ledger, extended>>
  BY DEF IssueFromEdition
<1>3. Answered'
  BY <1>1, <1>2 DEF IInv, Answered
<1>. QED
  BY <1>1, <1>2, <1>3, LedgerUnchanged, CallsUnchanged, CallsKept DEF IInv

LEMMA IssueLicenseStep ==
    ASSUME IInv, NEW k \in Keys, NEW chosen, IssueLicense(k, chosen)
    PROVE  IInv'
<1>. DEFINE row == [NoKey EXCEPT !.status = "active"]
<1>1. key[k] = NoKey /\ key' = [key EXCEPT ![k] = row]
  BY DEF IssueLicense
<1>2. row \in KeyRows /\ row.order = None /\ row.status = "active"
  BY BoundFacts DEF IInv, KeyRows, NoKey
<1>. HIDE DEF row
<1>3. UNCHANGED <<now, answered, call, ledger, extended>>
  BY DEF IssueLicense
<1>4. key' \in [Keys -> KeyRows] /\ key'[k] = row /\ \A l \in Keys \ {k} : key'[l] = key[l]
  BY <1>1, <1>2 DEF IInv
<1>5. key[k].order = None
  BY <1>1 DEF NoKey
<1>6. Unminted' /\ OneKey' /\ Answered'
  BY <1>2, <1>3, <1>4, <1>5, LicensesAssumption
     DEF IInv, Unminted, OneKey, Answered, Exists
<1>7. \A l \in Keys : key[l].status # "none" => key'[l].status # "none"
  BY <1>2, <1>4
<1>. QED
  BY <1>3, <1>4, <1>6, <1>7, LedgerUnchanged, CallsUnchanged, CallsKept DEF IInv

-----------------------------------------------------------------------------
(* Steps that rewrite a key's status or bound.                              *)
LEMMA StatusChanged ==
    ASSUME IInv, NEW k \in Keys, key[k].status # "none",
           key' = [key EXCEPT ![k].status = "revoked"]
    PROVE  KeyKeeps
<1>1. [key[k] EXCEPT !.status = "revoked"] \in KeyRows
  BY DEF IInv, KeyRows
<1>. QED
  BY <1>1 DEF IInv, KeyKeeps, KeyRows

LEMMA BoundChanged ==
    ASSUME IInv, NEW k \in Keys, key[k].status # "none", NEW b \in Bounds,
           key' = [key EXCEPT ![k].own = b]
    PROVE  KeyKeeps
<1>1. [key[k] EXCEPT !.own = b] \in KeyRows
  BY DEF IInv, KeyRows
<1>. QED
  BY <1>1 DEF IInv, KeyKeeps, KeyRows

LEMMA RenewStep ==
    ASSUME IInv, NEW k \in Keys, NEW o \in Orders \union {None}, RenewLicense(k, o)
    PROVE  IInv'
<1>. DEFINE b == [key[k].own EXCEPT !.until = Later(key[k].own.until)]
<1>1. key[k].own \in Bounds /\ now \in Nat
  BY LicensesAssumption DEF IInv, KeyRows
<1>2. Later(key[k].own.until) \in 0 .. MaxUntil + Major
  <2>1. key[k].own["until"] \in (0 .. MaxUntil + Major) \union {None}
    BY <1>1 DEF Bounds, Axes
  <2>2. Later(key[k].own.until) \in Nat
    BY <1>1, <2>1, LicensesAssumption DEF Later
  <2>. QED
    BY <2>2, LicensesAssumption DEF RenewLicense
<1>3. b \in Bounds
  BY <1>1, <1>2 DEF Bounds, Axes
<1>4. key' = [key EXCEPT ![k].own = b]
  BY DEF RenewLicense
<1>5. key[k].status # "none"
  BY DEF RenewLicense, Renewable, Active
<1>. HIDE DEF b
<1>6. KeyKeeps
  BY <1>3, <1>4, <1>5, BoundChanged
<1>7. UNCHANGED <<now, call, answered>> /\ Fresh(k, o) /\ Recorded(k, o) /\ Counted(k, o)
  BY DEF RenewLicense, shop
<1>. QED
  BY <1>6, <1>7, Frame, LedgerCounts, CallsUnchanged DEF IInv

LEMMA MergeStep ==
    ASSUME IInv, NEW c \in Calls, MergeCommit(c)
    PROVE  IInv'
<1>1. KeyKeeps
  BY StatusChanged DEF MergeCommit, IInv, Merging
<1>2. UNCHANGED <<now, answered, ledger, extended>>
  BY DEF MergeCommit, shop
<1>3. \A d \in Calls : Asked(call'[d]) /\ Merging(call'[d])
  BY IdleFacts, CallMoves DEF MergeCommit
<1>. QED
  BY <1>1, <1>2, <1>3, Frame, LedgerUnchanged DEF IInv

LEMMA NextIInv == IInv /\ [Next]_vars => IInv'
<1>. SUFFICES ASSUME IInv, [Next]_vars PROVE IInv'
  OBVIOUS
<1>. USE KeysUnchanged, LedgerUnchanged, CallsUnchanged, Frame
<1>1. ASSUME NEW o \in Orders, NEW e \in Editions, IssueReplayed(o, e) PROVE IInv'
  <2>1. PICK k \in Keys : key[k].order = o /\ key[k].edition = e /\ answered' = answered \union {<<o, e, k>>}
    BY <1>1 DEF IssueReplayed, IdempotencyHit
  <2>2. UNCHANGED <<key, now, call, ledger, extended>>
    BY <1>1 DEF IssueReplayed, shop
  <2>. QED
    BY <2>1, <2>2 DEF IInv
<1>2. ASSUME NEW c \in Calls, CallStep(c) PROVE IInv'
  <2>1. ASSUME NEW o \in Orders, NEW e \in Editions, NEW account \in BOOLEAN, IssueRequest(c, o, e, account)
        PROVE  IInv'
    <3>. DEFINE m == [at |-> "issue", edition |-> e, order |-> o, account |-> account]
    <3>1. Asked(m) /\ Merging(m)
      BY DEF Asked, Merging
    <3>2. Goes(c, m) /\ UNCHANGED <<key, now, answered, ledger, extended>>
      BY <2>1 DEF IssueRequest, shop
    <3>. HIDE DEF m
    <3>. QED
      BY <3>1, <3>2, CallMoves DEF IInv
  <2>2. CASE IssueRefused(c) \/ Drop(c)
    <3>1. Goes(c, Idle) /\ UNCHANGED <<key, now, answered, ledger, extended>>
      BY <2>2 DEF IssueRefused, Drop, shop
    <3>. QED
      BY <3>1, IdleFacts, CallMoves DEF IInv
  <2>3. CASE IssueResolved(c)
    <3>1. call[c].order \in Orders /\ call[c].edition \in Editions
      BY <2>3 DEF IssueResolved, IInv, Asked
    <3>2. PICK k \in Keys : /\ key[k].order = call[c].order /\ key[k].edition = call[c].edition
                            /\ answered' = answered \union {<<call[c].order, call[c].edition, k>>}
      BY <2>3 DEF IssueResolved, IdempotencyHit
    <3>3. Goes(c, Idle) /\ UNCHANGED <<key, now, ledger, extended>>
      BY <2>3 DEF IssueResolved, shop
    <3>. QED
      BY <3>1, <3>2, <3>3, IdleFacts, CallMoves DEF IInv
  <2>4. ASSUME NEW k \in Keys, NEW e \in Editions, PostEditions(c, k, e) PROVE IInv'
    <3>. DEFINE m == [at |-> "add", key |-> k, edition |-> e]
    <3>1. Asked(m) /\ Merging(m)
      BY DEF Asked, Merging
    <3>2. Goes(c, m) /\ UNCHANGED <<key, now, answered, ledger, extended>>
      BY <2>4 DEF PostEditions, AddCheck, shop
    <3>. HIDE DEF m
    <3>. QED
      BY <3>1, <3>2, CallMoves DEF IInv
  <2>5. CASE AddAttach(c)
    <3>1. Goes(c, Idle) /\ UNCHANGED <<key, now, answered, ledger, extended>>
      BY <2>5 DEF AddAttach, shop
    <3>. QED
      BY <3>1, IdleFacts, CallMoves DEF IInv
  <2>6. ASSUME NEW s \in Keys, NEW t \in Keys, MergeRead(c, s, t) PROVE IInv'
    <3>. DEFINE m == [at |-> "merge", source |-> s, target |-> t, copy |-> Materialized(s)]
    <3>1. Asked(m) /\ Merging(m)
      BY <2>6 DEF Asked, Merging, MergeRead, Active
    <3>2. Goes(c, m) /\ UNCHANGED <<key, now, answered, ledger, extended>>
      BY <2>6 DEF MergeRead, shop
    <3>. HIDE DEF m
    <3>. QED
      BY <3>1, <3>2, CallMoves DEF IInv
  <2>. QED
    BY <1>2, <2>1, <2>2, <2>3, <2>4, <2>5, <2>6, MintStep, MergeStep
       DEF CallStep, PostMerge, MergeForm
<1>3. ASSUME NEW k \in Keys, KeyStep(k) PROVE IInv'
  <2>1. ASSUME NEW e \in Editions, IssueEditionForm(k, e) \/ LicenseIssue(k, e) PROVE IInv'
    BY <2>1, IssueFromEditionStep DEF IssueEditionForm, LicenseIssue
  <2>2. ASSUME NEW chosen \in SUBSET Packages, LicenseForm(k, chosen) \/ LicenseCreate(k, chosen) PROVE IInv'
    BY <2>2, IssueLicenseStep DEF LicenseForm, LicenseCreate
  <2>3. ASSUME NEW e \in Editions, DeleteEdition(k, e) PROVE IInv'
    BY <2>3 DEF DeleteEdition, RemoveEdition, shop, IInv
  <2>4. ASSUME NEW o \in Orders \union {None}, PostRenew(k, o) PROVE IInv'
    <3>1. ASSUME RenewRefused(k, o, Renewable(k)) PROVE IInv'
      BY <3>1, LedgerGrows DEF RenewRefused, shop, IInv
    <3>. QED
      BY <2>4, <3>1, RenewStep DEF PostRenew
  <2>5. ASSUME NEW o \in Orders \union {None}, NEW e \in Editions, PostEditionRenew(k, e, o) PROVE IInv'
    <3>1. ASSUME RenewRefused(k, o, EdgeRenewable(k, e)) PROVE IInv'
      BY <3>1, LedgerGrows DEF RenewRefused, shop, IInv
    <3>2. ASSUME RenewEdition(k, e, o) PROVE IInv'
      BY <3>2, LedgerCounts DEF RenewEdition, shop, IInv
    <3>. QED
      BY <2>5, <3>1, <3>2 DEF PostEditionRenew
  <2>6. CASE DeleteLicense(k)
    <3>1. KeyKeeps
      BY <2>6, StatusChanged DEF DeleteLicense, Revoke, Active
    <3>. QED
      BY <2>6, <3>1 DEF DeleteLicense, Revoke, IInv
  <2>7. ASSUME NEW b \in OperatorBounds, LicenseBoundForm(k, b) PROVE IInv'
    <3>1. b \in Bounds
      BY LicensesAssumption
    <3>2. KeyKeeps
      BY <2>7, <3>1, BoundChanged DEF LicenseBoundForm, SetLicenseBound, Exists
    <3>. QED
      BY <2>7, <3>2 DEF LicenseBoundForm, SetLicenseBound, IInv
  <2>8. ASSUME NEW s \in Sets, EntitleSetForm(k, s) \/ RemoveSetForm(k, s) PROVE IInv'
    BY <2>8 DEF EntitleSetForm, EntitleSet, RemoveSetForm, RemoveSetEntitlement, IInv
  <2>. QED
    BY <1>3, <2>1, <2>2, <2>3, <2>4, <2>5, <2>6, <2>7, <2>8 DEF KeyStep
<1>4. CASE CatalogStep
  <2>1. UNCHANGED <<key, now, answered, call, ledger, extended>>
    BY <1>4 DEF CatalogStep, DeactivateForm, EditionDeactivate, SetEditionActive, AddMemberForm,
                AddSetMember, RemoveMemberForm, RemoveSetMember, DeleteSetForm, DeleteSet, ShutOut
  <2>. QED
    BY <2>1 DEF IInv
<1>5. CASE Tick
  <2>1. now' \in 0 .. Horizon
    BY <1>5, LicensesAssumption DEF Tick, IInv
  <2>. QED
    BY <1>5, <2>1 DEF Tick, IInv
<1>6. CASE UNCHANGED vars
  BY <1>6 DEF vars, shop, IInv
<1>. QED
  BY <1>1, <1>2, <1>3, <1>4, <1>5, <1>6 DEF Next

LEMMA Invariant == Spec => []IInv
BY InitIInv, NextIInv, PTL DEF Spec

-----------------------------------------------------------------------------
(* However often and however closely together a webhook delivers an order,  *)
(* each edition of it is one key, and every answer names that key.          *)
THEOREM OrderBuysOneKey == Spec => []OneLicensePerOrder
<1>1. IInv => OneLicensePerOrder
  BY DEF IInv, Answered, OneKey, OneLicensePerOrder
<1>. QED
  BY <1>1, Invariant, PTL

(* A renewal with an order extends its key once, asked of the key, of an    *)
(* edition or of both, and again after any merge, revocation or refusal.    *)
THEOREM RenewalCountsOnce == Spec => []OneExtensionPerRenewal
<1>1. IInv => OneExtensionPerRenewal
  BY DEF IInv
<1>. QED
  BY <1>1, Invariant, PTL

-----------------------------------------------------------------------------
(* Bounds are ordered axis by axis, and Joined is the least one above two.  *)
Values == (0 .. MaxUntil + Major) \union {None}

LEMMA CoversOrder ==
    ASSUME NEW x \in Values, NEW y \in Values, NEW z \in Values
    PROVE  /\ Covers(x, x)
           /\ Covers(x, y) \/ Covers(y, x)
           /\ Covers(x, y) /\ Covers(y, z) => Covers(x, z)
           /\ Covers(x, y) /\ Covers(y, x) => x = y
<1>1. None \notin Int
  BY LicensesAssumption
<1>2. \A v \in Values : v # None => v \in Int
  BY DEF Values
<1>. QED
  BY <1>1, <1>2 DEF Covers

LEMMA BoundValues ==
    ASSUME NEW b \in Bounds, NEW a \in Axes
    PROVE  b[a] \in Values
BY DEF Bounds, Values

LEMMA WiderOrder ==
    ASSUME NEW x \in Bounds, NEW y \in Bounds, NEW z \in Bounds
    PROVE  /\ Wider(x, x)
           /\ Wider(x, y) /\ Wider(y, z) => Wider(x, z)
           /\ Wider(x, y) /\ Wider(y, x) => x = y
<1>1. \A a \in Axes : x[a] \in Values /\ y[a] \in Values /\ z[a] \in Values
  BY BoundValues
<1>2. Wider(x, x)
  BY <1>1, CoversOrder DEF Wider
<1>3. Wider(x, y) /\ Wider(y, z) => Wider(x, z)
  BY <1>1, CoversOrder DEF Wider
<1>4. ASSUME Wider(x, y), Wider(y, x) PROVE x = y
  <2>1. \A a \in Axes : x[a] = y[a]
    BY <1>1, <1>4, CoversOrder DEF Wider
  <2>. QED
    BY <2>1 DEF Bounds
<1>. QED
  BY <1>2, <1>3, <1>4

LEMMA JoinedLeast ==
    ASSUME NEW x \in Bounds, NEW y \in Bounds
    PROVE  /\ Joined(x, y) \in Bounds
           /\ Wider(Joined(x, y), x) /\ Wider(Joined(x, y), y)
           /\ \A z : Wider(z, x) /\ Wider(z, y) => Wider(z, Joined(x, y))
<1>1. \A a \in Axes : x[a] \in Values /\ y[a] \in Values
  BY BoundValues
<1>2. \A a \in Axes : Joined(x, y)[a] \in {x[a], y[a]}
  BY DEF Joined
<1>3. Joined(x, y) \in Bounds
  BY <1>1 DEF Joined, Bounds, Values
<1>4. \A a \in Axes : Covers(Joined(x, y)[a], x[a]) /\ Covers(Joined(x, y)[a], y[a])
  BY <1>1, CoversOrder DEF Joined
<1>. QED
  BY <1>2, <1>3, <1>4 DEF Wider

LEMMA ResolvedBounds ==
    ASSUME NEW b \in Bounds, NEW own \in Bounds
    PROVE  /\ Resolved(b, own) \in Bounds
           /\ Resolved(b, Free) = b
           /\ \A wider \in Bounds : Wider(wider, own) => Wider(Resolved(b, wider), Resolved(b, own))
<1>1. \A a \in Axes : b[a] \in Values /\ own[a] \in Values
  BY BoundValues
<1>2. Resolved(b, own) \in Bounds
  BY <1>1 DEF Resolved, Bounds, Values
<1>3. Resolved(b, Free) = b
  BY DEF Resolved, Free, Bounds
<1>4. ASSUME NEW wider \in Bounds, Wider(wider, own)
      PROVE  Wider(Resolved(b, wider), Resolved(b, own))
  BY <1>1, <1>4, CoversOrder DEF Wider, Resolved
<1>. QED
  BY <1>2, <1>3, <1>4

(* A set of ceilings has a greatest one: the complements to their bound     *)
(* have a least, the numbers being well founded.                            *)
LEMMA Greatest ==
    ASSUME NEW S, S # {}, S \subseteq Values
    PROVE  \E x \in S : \A y \in S : Covers(x, y)
<1>. DEFINE n == MaxUntil + Major
<1>1. n \in Nat /\ S \subseteq (0 .. n) \union {None} /\ None \notin Int
  BY LicensesAssumption DEF Values
<1>. HIDE DEF n
<1>2. CASE None \in S
  BY <1>2 DEF Covers
<1>3. CASE None \notin S
  <2>. DEFINE T == {n - x : x \in S}
              R == OpToRel(<, Nat)
  <2>1. T \subseteq Nat /\ T # {}
    <3>1. ASSUME NEW x \in S PROVE n - x \in Nat
      <4>1. x \in 0 .. n
        BY <1>1, <1>3
      <4>. QED
        BY <1>1, <4>1
    <3>2. T # {}
      OBVIOUS
    <3>. QED
      BY <3>1, <3>2
  <2>2. PICK m \in T : \A y \in T : ~ (<<y, m>> \in R)
    <3>. HIDE DEF R, T
    <3>1. IsWellFoundedOn(R, Nat)
      BY NatLessThanWellFounded DEF R
    <3>. QED
      BY <2>1, <3>1, WFMin
  <2>3. ASSUME NEW y \in T PROVE m <= y
    <3>. HIDE DEF T
    <3>1. y \in Nat /\ m \in Nat
      BY <2>1, <2>2
    <3>2. ~ (<<y, m>> \in {ss \in Nat \X Nat : ss[1] < ss[2]})
      BY <2>2 DEF OpToRel
    <3>. QED
      BY <3>1, <3>2
  <2>4. PICK x \in S : m = n - x
    BY <2>2
  <2>5. ASSUME NEW y \in S PROVE Covers(x, y)
    <3>1. x \in 0 .. n /\ y \in 0 .. n
      BY <1>1, <1>3
    <3>2. n - y \in T
      OBVIOUS
    <3>3. n - x <= n - y
      BY <2>3, <2>4, <3>2
    <3>. QED
      BY <1>1, <3>1, <3>3 DEF Covers
  <2>. QED
    BY <2>5
<1>. QED
  BY <1>2, <1>3

-----------------------------------------------------------------------------
(* What edges f give together through the items D, and that it is the least *)
(* bound above each of theirs.                                              *)
Given(f, own, D, a) == {Resolved(f[i], own)[a] : i \in D}

Ceiling(f, own, D) ==
    [a \in Axes |-> CHOOSE x \in Given(f, own, D, a) :
                        \A y \in Given(f, own, D, a) : Covers(x, y)]

Bounded(f) == DOMAIN f \subseteq Items /\ \A i \in DOMAIN f : f[i] \in Bounds

LEMMA CeilingLeast ==
    ASSUME NEW f, Bounded(f), NEW own \in Bounds, NEW D \in SUBSET DOMAIN f, D # {}
    PROVE  /\ Ceiling(f, own, D) \in Bounds
           /\ \A i \in D : Wider(Ceiling(f, own, D), Resolved(f[i], own))
           /\ \A z : (\A i \in D : Wider(z, Resolved(f[i], own))) => Wider(z, Ceiling(f, own, D))
<1>. DEFINE C == Ceiling(f, own, D)
<1>1. ASSUME NEW a \in Axes
      PROVE  /\ Given(f, own, D, a) # {} /\ Given(f, own, D, a) \subseteq Values
             /\ C[a] \in Given(f, own, D, a)
             /\ \A y \in Given(f, own, D, a) : Covers(C[a], y)
  <2>. DEFINE S == Given(f, own, D, a)
  <2>1. S # {}
    BY DEF Given
  <2>2. ASSUME NEW i \in D PROVE Resolved(f[i], own)[a] \in Values
    <3>1. f[i] \in Bounds
      BY DEF Bounded
    <3>. QED
      BY <3>1, ResolvedBounds, BoundValues
  <2>3. S \subseteq Values
    BY <2>2 DEF Given
  <2>4. C[a] = CHOOSE x \in S : \A y \in S : Covers(x, y)
    BY DEF Ceiling
  <2>. HIDE DEF S, C
  <2>5. \E x \in S : \A y \in S : Covers(x, y)
    BY <2>1, <2>3, Greatest
  <2>6. C[a] \in S /\ \A y \in S : Covers(C[a], y)
    BY <2>4, <2>5
  <2>. QED
    BY <2>1, <2>3, <2>6 DEF S
<1>2. C = [a \in Axes |-> C[a]]
  BY DEF Ceiling
<1>. HIDE DEF C
<1>3. C \in Bounds
  BY <1>1, <1>2 DEF Bounds, Values
<1>4. ASSUME NEW i \in D PROVE Wider(C, Resolved(f[i], own))
  BY <1>1 DEF Wider, Given
<1>5. ASSUME NEW z, \A i \in D : Wider(z, Resolved(f[i], own)) PROVE Wider(z, C)
  <2>1. ASSUME NEW a \in Axes PROVE Covers(z[a], C[a])
    <3>1. PICK i \in D : C[a] = Resolved(f[i], own)[a]
      BY <1>1 DEF Given
    <3>. QED
      BY <1>5, <3>1 DEF Wider
  <2>. QED
    BY <2>1 DEF Wider
<1>. QED
  BY <1>3, <1>4, <1>5 DEF C

LEMMA UnionOfLeast ==
    ASSUME NEW f, Bounded(f), NEW g, Bounded(g)
    PROVE  /\ Bounded(UnionOf(f, g))
           /\ DOMAIN UnionOf(f, g) = DOMAIN f \union DOMAIN g
           /\ \A i \in DOMAIN f : Wider(UnionOf(f, g)[i], f[i])
           /\ \A i \in DOMAIN g : Wider(UnionOf(f, g)[i], g[i])
           /\ \A z : \A i \in DOMAIN f \union DOMAIN g :
                 (/\ i \in DOMAIN f => Wider(z, f[i])
                  /\ i \in DOMAIN g => Wider(z, g[i])) => Wider(z, UnionOf(f, g)[i])
<1>. DEFINE u == UnionOf(f, g)
<1>1. DOMAIN u = DOMAIN f \union DOMAIN g
  BY DEF UnionOf
<1>2. ASSUME NEW i \in DOMAIN f, i \notin DOMAIN g
      PROVE  u[i] = f[i] /\ f[i] \in Bounds /\ Wider(u[i], f[i])
  BY <1>2, WiderOrder DEF UnionOf, Bounded
<1>3. ASSUME NEW i \in DOMAIN g, i \notin DOMAIN f
      PROVE  u[i] = g[i] /\ g[i] \in Bounds /\ Wider(u[i], g[i])
  BY <1>3, WiderOrder DEF UnionOf, Bounded
<1>4. ASSUME NEW i \in DOMAIN f, i \in DOMAIN g
      PROVE  /\ u[i] \in Bounds /\ Wider(u[i], f[i]) /\ Wider(u[i], g[i])
             /\ \A z : Wider(z, f[i]) /\ Wider(z, g[i]) => Wider(z, u[i])
  <2>1. u[i] = Joined(f[i], g[i]) /\ f[i] \in Bounds /\ g[i] \in Bounds
    BY <1>4 DEF UnionOf, Bounded
  <2>. QED
    BY <2>1, JoinedLeast
<1>. HIDE DEF u
<1>5. Bounded(u)
  BY <1>1, <1>2, <1>3, <1>4 DEF Bounded
<1>. QED
  BY <1>1, <1>2, <1>3, <1>4, <1>5 DEF u

-----------------------------------------------------------------------------
(* What a buyer paid for stays behind its key: the key is active and has    *)
(* the edge still, with a bound no narrower.                                *)
Calling(m) ==
    /\ m.at = "add" => m.key \in Keys /\ m.edition \in Editions
    /\ m.at = "merge" => /\ m.source \in Keys /\ m.target \in Keys /\ m.source # m.target
                         /\ Bounded(m.copy)

Holding(g, row, f) ==
    \A i \in DOMAIN g : /\ row.status = "active" /\ i \in DOMAIN f
                        /\ Wider(Resolved(f[i], row.own), g[i])

EdgesOK == /\ DOMAIN edge = Keys /\ \A k \in Keys : Bounded(edge[k])
           /\ DOMAIN bought = Keys /\ \A k \in Keys : Bounded(bought[k])

HInv ==
    /\ members \in [Sets -> SUBSET Packages]
    /\ EdgesOK
    /\ \A c \in Calls : Calling(call[c])
    /\ \A k \in Keys \ spoiled : Holding(bought[k], key[k], edge[k])

LEMMA InitHInv == Init => HInv
<1>. SUFFICES ASSUME Init PROVE HInv
  OBVIOUS
<1>1. DOMAIN <<>> = {}
  OBVIOUS
<1>2. \A c \in Calls : Calling(call[c])
  BY DEF Init, Idle, Calling
<1>3. EdgesOK
  BY <1>1 DEF Init, EdgesOK, Bounded
<1>4. \A k \in Keys : Holding(bought[k], key[k], edge[k])
  BY <1>1 DEF Init, Holding
<1>. QED
  BY <1>2, <1>3, <1>4, LicensesAssumption DEF Init, HInv

(* Most steps rewrite at most one key's rows.                               *)
Elsewhere(k) ==
    /\ DOMAIN edge' = Keys /\ DOMAIN bought' = Keys
    /\ \A l \in Keys \ {k} : edge'[l] = edge[l] /\ bought'[l] = bought[l] /\ key'[l] = key[l]

LEMMA HoldsElsewhere ==
    ASSUME HInv, NEW k \in Keys, Elsewhere(k), Bounded(edge'[k]), Bounded(bought'[k]),
           spoiled \subseteq spoiled',
           k \notin spoiled' => Holding(bought'[k], key'[k], edge'[k]),
           members' \in [Sets -> SUBSET Packages], \A c \in Calls : Calling(call'[c])
    PROVE  HInv'
<1>1. \A l \in Keys : Bounded(edge'[l]) /\ Bounded(bought'[l])
  BY DEF HInv, EdgesOK, Elsewhere
<1>2. EdgesOK'
  BY <1>1 DEF Elsewhere, EdgesOK, Bounded
<1>3. \A l \in Keys \ spoiled' : Holding(bought'[l], key'[l], edge'[l])
  BY DEF HInv, Elsewhere
<1>4. \A c \in Calls : Calling(call[c])'
  BY DEF Calling, Bounded
<1>5. \A l \in Keys \ spoiled' : Holding(bought[l], key[l], edge[l])'
  BY <1>3 DEF Holding
<1>. QED
  BY <1>2, <1>4, <1>5 DEF HInv

LEMMA NothingRewritten ==
    ASSUME HInv, UNCHANGED <<key, edge, bought, spoiled>>,
           members' \in [Sets -> SUBSET Packages], \A c \in Calls : Calling(call'[c])
    PROVE  HInv'
<1>1. EdgesOK'
  BY DEF HInv, EdgesOK, Bounded
<1>2. \A c \in Calls : Calling(call[c])'
  BY DEF Calling, Bounded
<1>3. \A l \in Keys \ spoiled' : Holding(bought[l], key[l], edge[l])'
  BY DEF HInv, Holding
<1>. QED
  BY <1>1, <1>2, <1>3 DEF HInv

LEMMA CallingMoves ==
    ASSUME HInv, NEW c \in Calls, NEW m, Calling(m), Goes(c, m)
    PROVE  \A d \in Calls : Calling(call'[d])
<1>1. \A d \in Calls : call'[d] = m \/ call'[d] = call[d]
  BY DEF Goes
<1>. QED
  BY <1>1 DEF HInv

LEMMA CallingIdle == Calling(Idle)
BY DEF Calling, Idle

LEMMA CallingUnchanged ==
    ASSUME HInv, UNCHANGED call
    PROVE  \A d \in Calls : Calling(call'[d])
BY DEF HInv

LEMMA KeyBounds ==
    ASSUME IInv, NEW k \in Keys
    PROVE  key[k].own \in Bounds /\ DOMAIN key = Keys
BY DEF IInv, KeyRows

-----------------------------------------------------------------------------
(* A minted key gives exactly what its buyer is told.                       *)
LEMMA FreshHolds ==
    ASSUME IInv, HInv, NEW k \in Keys, NEW own \in Bounds, NEW f, Bounded(f), NEW row,
           row.status = "active", row.own = own,
           key' = [key EXCEPT ![k] = row], edge' = [edge EXCEPT ![k] = f],
           bought' = [bought EXCEPT ![k] = [i \in DOMAIN f |-> Resolved(f[i], own)]],
           UNCHANGED <<spoiled, members>>, \A c \in Calls : Calling(call'[c])
    PROVE  HInv'
<1>1. Elsewhere(k) /\ edge'[k] = f /\ key'[k] = row
      /\ bought'[k] = [i \in DOMAIN f |-> Resolved(f[i], own)]
  BY KeyBounds DEF HInv, EdgesOK, Elsewhere
<1>2. \A i \in DOMAIN f : f[i] \in Bounds /\ Resolved(f[i], own) \in Bounds
  BY ResolvedBounds DEF Bounded
<1>3. Bounded(bought'[k])
  BY <1>1, <1>2 DEF Bounded
<1>4. Holding(bought'[k], key'[k], edge'[k])
  BY <1>1, <1>2, WiderOrder DEF Holding
<1>. QED
  BY <1>1, <1>3, <1>4, HoldsElsewhere DEF HInv

LEMMA MintedHolds ==
    ASSUME IInv, HInv, NEW k \in Keys, NEW e \in Editions, NEW o, NEW account,
           Minted(k, e, o, account),
           UNCHANGED <<spoiled, members>>, \A c \in Calls : Calling(call'[c])
    PROVE  HInv'
<1>. DEFINE own == IF account THEN Free ELSE Template(e)
            f == AttachSet(e, account)
            row == [status |-> "active", edition |-> e, order |-> o, own |-> own]
<1>1. Free \in Bounds /\ Template(e) \in Bounds
  BY BoundFacts DEF IInv
<1>2. own \in Bounds
  BY <1>1
<1>3. Bounded(f)
  <2>1. Sells(e) \subseteq Items
    BY LicensesAssumption DEF Sells, HInv, Items
  <2>. QED
    BY <1>1, <2>1 DEF AttachSet, Bounded
<1>4. row.status = "active" /\ row.own = own
  OBVIOUS
<1>5. /\ key' = [key EXCEPT ![k] = row]
      /\ edge' = [edge EXCEPT ![k] = f]
      /\ bought' = [bought EXCEPT ![k] = [i \in DOMAIN f |-> Resolved(f[i], own)]]
  BY DEF Minted
<1>. HIDE DEF own, f, row
<1>. QED
  BY <1>2, <1>3, <1>4, <1>5, FreshHolds

LEMMA IssueLicenseHolds ==
    ASSUME IInv, HInv, NEW k \in Keys, NEW chosen \in SUBSET Packages, IssueLicense(k, chosen)
    PROVE  HInv'
<1>. DEFINE f == [p \in chosen |-> Free]
            row == [NoKey EXCEPT !.status = "active"]
<1>1. Free \in Bounds
  BY BoundFacts DEF IInv
<1>2. Bounded(f)
  BY <1>1 DEF Bounded, Items
<1>3. row.status = "active" /\ row.own = Free
  BY DEF NoKey
<1>4. [i \in DOMAIN f |-> Resolved(f[i], Free)] = f
  BY <1>1, ResolvedBounds
<1>5. /\ key' = [key EXCEPT ![k] = row]
      /\ edge' = [edge EXCEPT ![k] = f]
      /\ bought' = [bought EXCEPT ![k] = f]
      /\ UNCHANGED <<spoiled, members, call>>
  BY DEF IssueLicense
<1>. HIDE DEF f, row
<1>. QED
  BY <1>1, <1>2, <1>3, <1>4, <1>5, FreshHolds, CallingUnchanged

-----------------------------------------------------------------------------
(* Taking items away takes them from what was bought as well.               *)
LEMMA WithoutBounded ==
    ASSUME NEW f, Bounded(f), NEW S
    PROVE  /\ Bounded(Without(f, S)) /\ DOMAIN Without(f, S) = DOMAIN f \ S
           /\ \A i \in DOMAIN f \ S : Without(f, S)[i] = f[i]
BY DEF Bounded, Without

LEMMA WithoutHolds ==
    ASSUME NEW f, Bounded(f), NEW g, Bounded(g), NEW row, Holding(g, row, f), NEW S
    PROVE  Holding(Without(g, S), row, Without(f, S))
<1>1. DOMAIN Without(g, S) = DOMAIN g \ S /\ \A i \in DOMAIN g \ S : Without(g, S)[i] = g[i]
  BY DEF Without
<1>2. DOMAIN Without(f, S) = DOMAIN f \ S /\ \A i \in DOMAIN f \ S : Without(f, S)[i] = f[i]
  BY DEF Without
<1>. QED
  BY <1>1, <1>2 DEF Holding

LEMMA TakenHolds ==
    ASSUME IInv, HInv, NEW k \in Keys, NEW s,
           edge' = [edge EXCEPT ![k] = Without(@, {s})],
           bought' = [bought EXCEPT ![k] = Without(@, {s})],
           UNCHANGED <<key, call, members, spoiled>>
    PROVE  HInv'
<1>1. Elsewhere(k) /\ edge'[k] = Without(edge[k], {s}) /\ bought'[k] = Without(bought[k], {s})
  BY DEF HInv, EdgesOK, Elsewhere
<1>2. Bounded(edge[k]) /\ Bounded(bought[k])
  BY DEF HInv, EdgesOK
<1>3. Bounded(Without(edge[k], {s})) /\ Bounded(Without(bought[k], {s}))
  BY <1>2, WithoutBounded
<1>4. k \notin spoiled' => Holding(bought'[k], key'[k], edge'[k])
  BY <1>1, <1>2, WithoutHolds DEF HInv
<1>. QED
  BY <1>1, <1>3, <1>4, HoldsElsewhere, CallingUnchanged DEF HInv

LEMMA DeleteSetHolds ==
    ASSUME IInv, HInv, NEW s \in Sets, DeleteSet(s)
    PROVE  HInv'
<1>1. /\ edge' = [k \in Keys |-> Without(edge[k], {s})]
      /\ bought' = [k \in Keys |-> Without(bought[k], {s})]
      /\ UNCHANGED <<key, call, spoiled>>
  BY DEF DeleteSet
<1>2. members' \in [Sets -> SUBSET Packages]
  BY DEF DeleteSet, HInv
<1>3. \A k \in Keys : Bounded(edge[k]) /\ Bounded(bought[k])
  BY DEF HInv, EdgesOK
<1>4. \A k \in Keys : Bounded(edge'[k]) /\ Bounded(bought'[k])
  BY <1>1, <1>3, WithoutBounded
<1>5. EdgesOK'
  BY <1>1, <1>4 DEF EdgesOK, Bounded
<1>6. \A k \in Keys \ spoiled' : Holding(bought'[k], key'[k], edge'[k])
  BY <1>1, <1>3, WithoutHolds DEF HInv
<1>7. \A k \in Keys \ spoiled' : Holding(bought[k], key[k], edge[k])'
  BY <1>6 DEF Holding
<1>8. \A c \in Calls : Calling(call[c])'
  BY <1>1 DEF HInv, Calling, Bounded
<1>. QED
  BY <1>2, <1>5, <1>7, <1>8 DEF HInv

-----------------------------------------------------------------------------
(* An addition leaves the edges that are there, and tells the bound of the  *)
(* one it came for; on an unbounded key that is the bound it gives.         *)
LEMMA AttachedBounded ==
    ASSUME NEW f, Bounded(f), NEW s \in Sets, NEW b \in Bounds
    PROVE  LET g == Attached(f, [i \in {s} |-> b])
           IN  /\ Bounded(g) /\ s \in DOMAIN g
               /\ \A i \in DOMAIN f : i \in DOMAIN g /\ g[i] = f[i]
<1>. DEFINE h == [i \in {s} |-> b]
            g == Attached(f, h)
<1>1. DOMAIN h = {s} /\ h[s] = b
  OBVIOUS
<1>2. DOMAIN g = DOMAIN f \union {s}
  BY DEF Attached
<1>3. \A i \in DOMAIN g : g[i] = IF i \in DOMAIN f THEN f[i] ELSE h[i]
  BY DEF Attached
<1>. HIDE DEF g, h
<1>4. \A i \in DOMAIN g : i \in Items /\ g[i] \in Bounds
  BY <1>1, <1>2, <1>3 DEF Bounded, Items
<1>5. Bounded(g)
  BY <1>4 DEF Bounded
<1>. QED
  BY <1>2, <1>3, <1>5 DEF g, h

LEMMA AddAttachHolds ==
    ASSUME IInv, HInv, NEW c \in Calls, AddAttach(c)
    PROVE  HInv'
<1>. DEFINE k == call[c].key
            e == call[c].edition
            s == SetOf[e]
            g == Attached(edge[k], [i \in {s} |-> Template(e)])
<1>1. k \in Keys /\ e \in Editions /\ s \in Sets
  BY LicensesAssumption DEF AddAttach, HInv, Calling
<1>2. Bounded(edge[k]) /\ Bounded(bought[k]) /\ Template(e) \in Bounds
  BY <1>1, BoundFacts DEF HInv, EdgesOK, IInv
<1>3. edge' = [edge EXCEPT ![k] = g]
  BY DEF AddAttach
<1>4. /\ Bounded(g) /\ s \in DOMAIN g /\ g[s] \in Bounds
      /\ \A i \in DOMAIN edge[k] : i \in DOMAIN g /\ g[i] = edge[k][i]
  <2>1. /\ Bounded(g) /\ s \in DOMAIN g
        /\ \A i \in DOMAIN edge[k] : i \in DOMAIN g /\ g[i] = edge[k][i]
    BY <1>1, <1>2, AttachedBounded
  <2>. HIDE DEF g
  <2>. QED
    BY <2>1 DEF Bounded
<1>5. /\ spoiled' = spoiled \union {q \in {k} : ~ (Active(k) /\ Unbounded(k))}
      /\ Goes(c, Idle) /\ UNCHANGED <<members, key>>
  BY DEF AddAttach, shop
<1>6. edge'[k] = g
  BY <1>1, <1>3 DEF HInv, EdgesOK
<1>. DEFINE h == [i \in {s} |-> g[s]]
            u == UnionOf(bought[k], h)
<1>7. bought' = [bought EXCEPT ![k] = u]
  <2>1. bought' = [bought EXCEPT ![k] = UnionOf(bought[k], [i \in {s} |-> edge'[k][s]])]
    BY DEF AddAttach
  <2>. HIDE DEF g
  <2>. QED
    BY <2>1, <1>6
<1>. HIDE DEF g
<1>8. Bounded(h) /\ DOMAIN h = {s} /\ h[s] = g[s]
  BY <1>1, <1>4 DEF Bounded, Items
<1>. HIDE DEF h, k, e, s
<1>9. /\ Bounded(u) /\ DOMAIN u = DOMAIN bought[k] \union {s}
      /\ \A i \in DOMAIN u : \A z :
            (/\ i \in DOMAIN bought[k] => Wider(z, bought[k][i])
             /\ i \in DOMAIN h => Wider(z, h[i])) => Wider(z, u[i])
  BY <1>2, <1>8, UnionOfLeast
<1>. HIDE DEF u
<1>10. Elsewhere(k) /\ bought'[k] = u
  BY <1>1, <1>3, <1>5, <1>7 DEF HInv, EdgesOK, Elsewhere
<1>11. ASSUME k \notin spoiled' PROVE Holding(u, key[k], g)
  <2>1. Active(k) /\ key[k].own = Free /\ k \notin spoiled
    BY <1>5, <1>11 DEF Unbounded
  <2>2. Holding(bought[k], key[k], edge[k])
    BY <1>1, <2>1 DEF HInv
  <2>3. ASSUME NEW i \in DOMAIN u PROVE i \in DOMAIN g /\ Wider(g[i], u[i])
    <3>1. i \in DOMAIN g /\ g[i] \in Bounds
      BY <1>4, <1>9, <2>2 DEF Bounded, Holding
    <3>2. i \in DOMAIN bought[k] => Wider(g[i], bought[k][i])
      <4>1. SUFFICES ASSUME i \in DOMAIN bought[k] PROVE Wider(g[i], bought[k][i])
        OBVIOUS
      <4>2. i \in DOMAIN edge[k] /\ Wider(Resolved(edge[k][i], Free), bought[k][i])
        BY <4>1, <2>1, <2>2 DEF Holding
      <4>. QED
        BY <4>2, <1>4, <3>1, ResolvedBounds
    <3>3. i \in DOMAIN h => Wider(g[i], h[i])
      BY <1>8, <3>1, WiderOrder
    <3>. QED
      BY <1>9, <3>1, <3>2, <3>3
  <2>4. \A i \in DOMAIN u : Resolved(g[i], Free) = g[i]
    <3>1. \A i \in DOMAIN u : g[i] \in Bounds
      BY <2>3, <1>4 DEF Bounded
    <3>2. Free \in Bounds
      BY BoundFacts DEF IInv
    <3>. QED
      BY <3>1, <3>2, ResolvedBounds
  <2>. QED
    BY <2>1, <2>3, <2>4 DEF Holding, Active
<1>12. \A d \in Calls : Calling(call'[d])
  BY <1>5, CallingIdle, CallingMoves
<1>13. key'[k] = key[k] /\ members' \in [Sets -> SUBSET Packages] /\ spoiled \subseteq spoiled'
  BY <1>5 DEF HInv
<1>14. Bounded(edge'[k]) /\ Bounded(bought'[k])
  BY <1>4, <1>6, <1>9, <1>10
<1>15. k \notin spoiled' => Holding(bought'[k], key'[k], edge'[k])
  BY <1>6, <1>10, <1>11, <1>13
<1>. QED
  BY <1>1, <1>10, <1>12, <1>13, <1>14, <1>15, HoldsElsewhere

LEMMA EntitleSetHolds ==
    ASSUME IInv, HInv, NEW k \in Keys, NEW s \in Sets, EntitleSet(k, s)
    PROVE  HInv'
<1>. DEFINE g == Attached(edge[k], [i \in {s} |-> Free])
<1>1. Free \in Bounds /\ Bounded(edge[k]) /\ Bounded(bought[k])
  BY BoundFacts DEF IInv, HInv, EdgesOK
<1>2. /\ edge' = [edge EXCEPT ![k] = g]
      /\ UNCHANGED <<members, key, call, bought, spoiled>>
  BY DEF EntitleSet
<1>3. Bounded(g) /\ \A i \in DOMAIN edge[k] : i \in DOMAIN g /\ g[i] = edge[k][i]
  BY <1>1, AttachedBounded
<1>. HIDE DEF g
<1>4. Elsewhere(k) /\ edge'[k] = g
  BY <1>2 DEF HInv, EdgesOK, Elsewhere
<1>5. k \notin spoiled => Holding(bought[k], key[k], g)
  BY <1>3 DEF HInv, Holding
<1>. QED
  BY <1>1, <1>2, <1>3, <1>4, <1>5, HoldsElsewhere, CallingUnchanged DEF HInv

-----------------------------------------------------------------------------
(* A merge that nothing overtook gives the target the join of both.         *)
MaterializedOf(f, own) == [i \in DOMAIN f |-> Resolved(f[i], own)]

LEMMA MaterializedBounded ==
    ASSUME NEW f, Bounded(f), NEW own \in Bounds
    PROVE  Bounded(MaterializedOf(f, own))
BY ResolvedBounds DEF Bounded, MaterializedOf

LEMMA MergeHolds ==
    ASSUME IInv, HInv, NEW c \in Calls, MergeCommit(c)
    PROVE  HInv'
<1>. DEFINE s == call[c].source
            t == call[c].target
            copy == call[c].copy
            u == UnionOf(edge[t], copy)
            v == UnionOf(bought[t], bought[s])
<1>1. s \in Keys /\ t \in Keys /\ s # t /\ Bounded(copy)
  BY DEF MergeCommit, HInv, Calling
<1>2. /\ edge' = [edge EXCEPT ![t] = u]
      /\ key' = [key EXCEPT ![s].status = "revoked"]
      /\ bought' = [bought EXCEPT ![t] = v, ![s] = <<>>]
      /\ Goes(c, Idle) /\ UNCHANGED members
      /\ spoiled \subseteq spoiled'
  BY DEF MergeCommit, shop
<1>3. t \notin spoiled' => /\ Active(s) /\ copy = Materialized(s)
                           /\ Active(t) /\ Unbounded(t)
                           /\ t \notin spoiled /\ s \notin spoiled
  BY DEF MergeCommit
<1>4. Bounded(edge[t]) /\ Bounded(edge[s]) /\ Bounded(bought[t]) /\ Bounded(bought[s])
  BY <1>1 DEF HInv, EdgesOK
<1>. HIDE DEF s, t, copy
<1>5. /\ Bounded(u) /\ DOMAIN u = DOMAIN edge[t] \union DOMAIN copy
      /\ \A i \in DOMAIN edge[t] : Wider(u[i], edge[t][i])
      /\ \A i \in DOMAIN copy : Wider(u[i], copy[i])
  BY <1>1, <1>4, UnionOfLeast
<1>6. /\ Bounded(v) /\ DOMAIN v = DOMAIN bought[t] \union DOMAIN bought[s]
      /\ \A i \in DOMAIN v : \A z :
            (/\ i \in DOMAIN bought[t] => Wider(z, bought[t][i])
             /\ i \in DOMAIN bought[s] => Wider(z, bought[s][i])) => Wider(z, v[i])
  BY <1>4, UnionOfLeast
<1>. HIDE DEF u, v
<1>7. /\ edge'[t] = u /\ bought'[t] = v /\ bought'[s] = <<>> /\ key'[t] = key[t]
      /\ DOMAIN edge' = Keys /\ DOMAIN bought' = Keys
      /\ \A k \in Keys \ {t} : edge'[k] = edge[k]
      /\ \A k \in Keys \ {s, t} : bought'[k] = bought[k] /\ key'[k] = key[k]
  BY <1>1, <1>2, KeyBounds DEF HInv, EdgesOK
<1>8. DOMAIN <<>> = {}
  OBVIOUS
<1>9. \A k \in Keys : Bounded(edge'[k]) /\ Bounded(bought'[k])
  <2>1. Bounded(bought'[s])
    BY <1>7, <1>8 DEF Bounded
  <2>. QED
    BY <1>5, <1>6, <1>7, <2>1 DEF HInv, EdgesOK
<1>10. EdgesOK'
  BY <1>7, <1>9 DEF EdgesOK, Bounded
<1>11. ASSUME t \notin spoiled' PROVE Holding(v, key[t], u)
  <2>1. key[t].status = "active" /\ key[t].own = Free /\ copy = MaterializedOf(edge[s], key[s].own)
    BY <1>3, <1>11 DEF Active, Unbounded, Materialized, MaterializedOf
  <2>2. Holding(bought[t], key[t], edge[t]) /\ Holding(bought[s], key[s], edge[s])
    BY <1>1, <1>3, <1>11 DEF HInv
  <2>3. DOMAIN copy = DOMAIN edge[s] /\ \A i \in DOMAIN copy : copy[i] = Resolved(edge[s][i], key[s].own)
    BY <2>1 DEF MaterializedOf
  <2>4. Free \in Bounds
    BY BoundFacts DEF IInv
  <2>5. ASSUME NEW i \in DOMAIN v PROVE i \in DOMAIN u /\ Wider(u[i], v[i])
    <3>1. i \in DOMAIN u /\ u[i] \in Bounds
      BY <1>5, <1>6, <2>2, <2>3 DEF Bounded, Holding
    <3>2. ASSUME i \in DOMAIN bought[t] PROVE Wider(u[i], bought[t][i])
      <4>1. i \in DOMAIN edge[t] /\ Wider(Resolved(edge[t][i], Free), bought[t][i])
        BY <3>2, <2>1, <2>2 DEF Holding
      <4>2. edge[t][i] \in Bounds /\ bought[t][i] \in Bounds
        BY <1>4, <3>2, <4>1 DEF Bounded
      <4>3. Wider(edge[t][i], bought[t][i])
        BY <2>4, <4>1, <4>2, ResolvedBounds
      <4>4. Wider(u[i], edge[t][i])
        BY <1>5, <4>1
      <4>. QED
        BY <3>1, <4>2, <4>3, <4>4, WiderOrder
    <3>3. ASSUME i \in DOMAIN bought[s] PROVE Wider(u[i], bought[s][i])
      <4>1. i \in DOMAIN copy /\ Wider(copy[i], bought[s][i])
        BY <3>3, <2>2, <2>3 DEF Holding
      <4>2. copy[i] \in Bounds /\ bought[s][i] \in Bounds
        BY <1>1, <1>4, <3>3, <4>1 DEF Bounded
      <4>3. Wider(u[i], copy[i])
        BY <1>5, <4>1
      <4>. QED
        BY <3>1, <4>1, <4>2, <4>3, WiderOrder
    <3>. QED
      BY <1>6, <3>1, <3>2, <3>3
  <2>6. \A i \in DOMAIN v : Resolved(u[i], Free) = u[i]
    <3>1. \A i \in DOMAIN v : u[i] \in Bounds
      BY <2>5, <1>5 DEF Bounded
    <3>. QED
      BY <3>1, <2>4, ResolvedBounds
  <2>. QED
    BY <2>1, <2>5, <2>6 DEF Holding
<1>12. \A k \in Keys \ spoiled' : Holding(bought'[k], key'[k], edge'[k])
  <2>1. Holding(bought'[s], key'[s], edge'[s])
    BY <1>7, <1>8 DEF Holding
  <2>2. t \notin spoiled' => Holding(bought'[t], key'[t], edge'[t])
    BY <1>7, <1>11
  <2>3. \A k \in Keys \ {s, t} : k \notin spoiled' => Holding(bought'[k], key'[k], edge'[k])
    BY <1>2, <1>7 DEF HInv
  <2>. QED
    BY <2>1, <2>2, <2>3
<1>13. \A k \in Keys \ spoiled' : Holding(bought[k], key[k], edge[k])'
  BY <1>12 DEF Holding
<1>14. \A d \in Calls : Calling(call'[d])
  BY <1>2, CallingIdle, CallingMoves
<1>15. \A d \in Calls : Calling(call[d])'
  BY <1>14 DEF Calling, Bounded
<1>. QED
  BY <1>2, <1>10, <1>13, <1>15 DEF HInv

-----------------------------------------------------------------------------
(* A renewal reaches no less far than before, where there was a bound.      *)
Extended(b) == [b EXCEPT !.until = Later(@)]

LEMMA ExtendedWider ==
    ASSUME now \in 0 .. Horizon, NEW b \in Bounds, Later(b.until) <= MaxUntil
    PROVE  /\ Extended(b) \in Bounds
           /\ b.until # None => /\ Wider(Extended(b), b)
                                /\ \A a \in Axes : Extended(b)[a] = None <=> b[a] = None
<1>1. b["until"] \in Values /\ b["major"] \in Values /\ now \in Nat
  BY LicensesAssumption DEF Bounds, Axes, Values
<1>2. None \notin Int /\ \A v \in Values : v # None => v \in Nat
  BY LicensesAssumption DEF Values
<1>3. Later(b.until) \in Nat /\ (b.until # None => Later(b.until) >= b.until)
  BY <1>1, <1>2, LicensesAssumption DEF Later
<1>4. Later(b.until) \in Values
  BY <1>3, LicensesAssumption DEF Values
<1>5. /\ DOMAIN Extended(b) = Axes /\ Extended(b) = [a \in Axes |-> Extended(b)[a]]
      /\ Extended(b)["until"] = Later(b.until) /\ Extended(b)["major"] = b["major"]
  BY DEF Extended, Bounds, Axes
<1>6. \A a \in Axes : Extended(b)[a] \in Values
  BY <1>1, <1>4, <1>5 DEF Axes
<1>7. Extended(b) \in Bounds
  BY <1>5, <1>6 DEF Bounds, Values
<1>8. ASSUME b.until # None PROVE Wider(Extended(b), b)
  <2>1. Covers(Extended(b)["until"], b["until"])
    BY <1>3, <1>5, <1>8 DEF Covers
  <2>2. Covers(Extended(b)["major"], b["major"])
    BY <1>1, <1>5, CoversOrder
  <2>. QED
    BY <2>1, <2>2 DEF Wider, Axes
<1>9. ASSUME b.until # None PROVE \A a \in Axes : Extended(b)[a] = None <=> b[a] = None
  <2>1. Extended(b)["until"] # None /\ b["until"] # None
    BY <1>2, <1>3, <1>5, <1>9
  <2>. QED
    BY <1>5, <2>1 DEF Axes
<1>. QED
  BY <1>7, <1>8, <1>9

LEMMA RenewLicenseHolds ==
    ASSUME IInv, HInv, NEW k \in Keys, NEW o, RenewLicense(k, o)
    PROVE  HInv'
<1>. DEFINE own == Extended(key[k].own)
            g == [i \in DOMAIN bought[k] |->
                     IF i \in DOMAIN edge[k] /\ key[k].own.until # None
                     THEN Joined(bought[k][i], Resolved(edge[k][i], own)) ELSE bought[k][i]]
<1>1. key[k].own \in Bounds /\ now \in 0 .. Horizon /\ Bounded(edge[k]) /\ Bounded(bought[k])
  BY KeyBounds DEF IInv, HInv, EdgesOK
<1>2. own \in Bounds /\ (key[k].own.until # None => Wider(own, key[k].own))
  BY <1>1, ExtendedWider DEF RenewLicense
<1>3. /\ key' = [key EXCEPT ![k].own = own]
      /\ UNCHANGED <<edge, call, members>>
      /\ spoiled' = spoiled \union {q \in {k} : key[k].own.until = None}
  BY DEF RenewLicense, shop, Extended
<1>. HIDE DEF own
<1>4. key'[k].own = own /\ key'[k].status = key[k].status
  BY <1>3 DEF IInv, KeyRows
<1>5. bought' = [bought EXCEPT ![k] = g]
  <2>1. bought' = [bought EXCEPT ![k] = [i \in DOMAIN bought[k] |->
                     IF i \in DOMAIN edge[k] /\ key[k].own.until # None
                     THEN Joined(bought[k][i], Resolved(edge[k][i], key'[k].own))
                     ELSE bought[k][i]]]
    BY DEF RenewLicense
  <2>. QED
    BY <2>1, <1>4
<1>6. DOMAIN g = DOMAIN bought[k]
  OBVIOUS
<1>7. \A i \in DOMAIN bought[k] : g[i] =
         IF i \in DOMAIN edge[k] /\ key[k].own.until # None
         THEN Joined(bought[k][i], Resolved(edge[k][i], own)) ELSE bought[k][i]
  OBVIOUS
<1>. HIDE DEF g
<1>8. \A i \in DOMAIN bought[k] : g[i] \in Bounds
  <2>1. \A i \in DOMAIN bought[k] : i \in DOMAIN edge[k] => Resolved(edge[k][i], own) \in Bounds
    BY <1>1, <1>2, ResolvedBounds DEF Bounded
  <2>. QED
    BY <1>1, <1>7, <2>1, JoinedLeast DEF Bounded
<1>9. Bounded(g)
  BY <1>1, <1>6, <1>8 DEF Bounded
<1>10. Elsewhere(k) /\ bought'[k] = g /\ edge'[k] = edge[k]
  BY <1>3, <1>5, KeyBounds DEF HInv, EdgesOK, Elsewhere
<1>11. ASSUME k \notin spoiled' PROVE Holding(g, key'[k], edge[k])
  <2>1. key[k].own.until # None /\ Holding(bought[k], key[k], edge[k])
    BY <1>3, <1>11 DEF HInv
  <2>2. ASSUME NEW i \in DOMAIN g
        PROVE  /\ key[k].status = "active" /\ i \in DOMAIN edge[k]
               /\ Wider(Resolved(edge[k][i], own), g[i])
    <3>1. /\ key[k].status = "active" /\ i \in DOMAIN edge[k] /\ edge[k][i] \in Bounds
          /\ bought[k][i] \in Bounds /\ Wider(Resolved(edge[k][i], key[k].own), bought[k][i])
      BY <1>1, <1>6, <2>1 DEF Holding, Bounded
    <3>2. /\ Resolved(edge[k][i], own) \in Bounds /\ Resolved(edge[k][i], key[k].own) \in Bounds
          /\ Wider(Resolved(edge[k][i], own), Resolved(edge[k][i], key[k].own))
      BY <1>1, <1>2, <2>1, <3>1, ResolvedBounds
    <3>3. Wider(Resolved(edge[k][i], own), bought[k][i])
      BY <3>1, <3>2, WiderOrder
    <3>4. g[i] = Joined(bought[k][i], Resolved(edge[k][i], own))
      BY <1>6, <1>7, <2>1, <3>1
    <3>5. Wider(Resolved(edge[k][i], own), Resolved(edge[k][i], own))
      BY <3>2, WiderOrder
    <3>. QED
      BY <3>1, <3>2, <3>3, <3>4, <3>5, JoinedLeast
  <2>. QED
    BY <1>4, <2>2 DEF Holding
<1>12. members' \in [Sets -> SUBSET Packages] /\ spoiled \subseteq spoiled'
  BY <1>3 DEF HInv
<1>. QED
  BY <1>1, <1>3, <1>9, <1>10, <1>11, <1>12, HoldsElsewhere, CallingUnchanged

LEMMA RenewEditionHolds ==
    ASSUME IInv, HInv, NEW k \in Keys, NEW e \in Editions, NEW o, RenewEdition(k, e, o)
    PROVE  HInv'
<1>. DEFINE s == SetOf[e]
            own == key[k].own
            b == Extended(edge[k][s])
            f == [edge[k] EXCEPT ![s] = b]
            g == [i \in DOMAIN bought[k] |->
                     IF i = s THEN Joined(bought[k][i], Resolved(b, own)) ELSE bought[k][i]]
<1>1. own \in Bounds /\ now \in 0 .. Horizon /\ Bounded(edge[k]) /\ Bounded(bought[k])
  BY KeyBounds DEF IInv, HInv, EdgesOK
<1>2. s \in DOMAIN edge[k] /\ edge[k][s] \in Bounds /\ edge[k][s].until # None
  BY <1>1 DEF RenewEdition, EdgeRenewable, Bounded
<1>3. /\ b \in Bounds /\ Wider(b, edge[k][s])
      /\ \A a \in Axes : b[a] = None <=> edge[k][s][a] = None
  BY <1>1, <1>2, ExtendedWider DEF RenewEdition
<1>4. /\ edge' = [edge EXCEPT ![k] = f]
      /\ UNCHANGED <<key, call, members, spoiled>>
  BY DEF RenewEdition, shop, Extended
<1>5. /\ DOMAIN f = DOMAIN edge[k] /\ f[s] = b
      /\ \A i \in DOMAIN edge[k] \ {s} : f[i] = edge[k][i]
  BY <1>2
<1>6. edge'[k] = f
  BY <1>4 DEF HInv, EdgesOK
<1>7. bought' = [bought EXCEPT ![k] = g]
  <2>1. edge'[k][s] = b
    BY <1>5, <1>6
  <2>2. bought' = [bought EXCEPT ![k] = [i \in DOMAIN bought[k] |->
                     IF i = s THEN Joined(bought[k][i], Resolved(edge'[k][s], own))
                     ELSE bought[k][i]]]
    BY DEF RenewEdition
  <2>. HIDE DEF b, own, f, s
  <2>. QED
    BY <2>1, <2>2
<1>8. /\ DOMAIN g = DOMAIN bought[k]
      /\ \A i \in DOMAIN bought[k] : g[i] =
            IF i = s THEN Joined(bought[k][i], Resolved(b, own)) ELSE bought[k][i]
  OBVIOUS
<1>. HIDE DEF b, f, g, own, s
<1>9. Bounded(f)
  BY <1>1, <1>3, <1>5 DEF Bounded
<1>10. \A i \in DOMAIN bought[k] : g[i] \in Bounds
  <2>1. Resolved(b, own) \in Bounds
    BY <1>1, <1>3, ResolvedBounds
  <2>. QED
    BY <1>1, <1>8, <2>1, JoinedLeast DEF Bounded
<1>11. Bounded(g)
  BY <1>1, <1>8, <1>10 DEF Bounded
<1>12. Elsewhere(k) /\ bought'[k] = g
  BY <1>4, <1>7 DEF HInv, EdgesOK, Elsewhere
<1>13. ASSUME k \notin spoiled PROVE Holding(g, key[k], f)
  <2>1. Holding(bought[k], key[k], edge[k])
    BY <1>13 DEF HInv
  <2>2. ASSUME NEW i \in DOMAIN g
        PROVE  /\ key[k].status = "active" /\ i \in DOMAIN f
               /\ Wider(Resolved(f[i], own), g[i])
    <3>1. /\ key[k].status = "active" /\ i \in DOMAIN edge[k] /\ edge[k][i] \in Bounds
          /\ bought[k][i] \in Bounds /\ Wider(Resolved(edge[k][i], own), bought[k][i])
      BY <1>1, <1>8, <2>1 DEF Holding, Bounded, own
    <3>2. CASE i # s
      BY <3>1, <3>2, <1>5, <1>8
    <3>3. CASE i = s
      <4>1. /\ Resolved(b, own) \in Bounds /\ Resolved(edge[k][i], own) \in Bounds
        BY <1>1, <1>3, <3>1, ResolvedBounds
      <4>2. Wider(Resolved(b, own), Resolved(edge[k][i], own))
        <5>1. \A a \in Axes : /\ Covers(b[a], edge[k][s][a]) /\ b[a] \in Values
                              /\ edge[k][s][a] \in Values /\ own[a] \in Values
          BY <1>1, <1>2, <1>3, BoundValues DEF Wider
        <5>2. ASSUME NEW a \in Axes
              PROVE  Covers(Resolved(b, own)[a], Resolved(edge[k][s], own)[a])
          <6>1. b[a] = None <=> edge[k][s][a] = None
            BY <1>3
          <6>2. CASE edge[k][s][a] # None /\ b[a] # None
            BY <5>1, <6>2 DEF Resolved
          <6>3. CASE edge[k][s][a] = None /\ b[a] = None
            BY <5>1, <6>3, CoversOrder DEF Resolved
          <6>. QED
            BY <6>1, <6>2, <6>3
        <5>. QED
          BY <3>3, <5>2 DEF Wider
      <4>3. Wider(Resolved(b, own), bought[k][i])
        BY <3>1, <4>1, <4>2, WiderOrder
      <4>4. g[i] = Joined(bought[k][i], Resolved(b, own)) /\ f[i] = b
        BY <1>5, <1>8, <3>3
      <4>5. Wider(Resolved(b, own), Resolved(b, own))
        BY <4>1, WiderOrder
      <4>. QED
        BY <1>5, <3>1, <4>1, <4>3, <4>4, <4>5, JoinedLeast
    <3>. QED
      BY <3>2, <3>3
  <2>. QED
    BY <2>2 DEF Holding, own
<1>14. key'[k] = key[k] /\ members' \in [Sets -> SUBSET Packages] /\ spoiled' = spoiled
  BY <1>4 DEF HInv
<1>. QED
  BY <1>4, <1>6, <1>9, <1>11, <1>12, <1>13, <1>14, HoldsElsewhere, CallingUnchanged

-----------------------------------------------------------------------------
(* What an administrator takes away, or sets, is what is left.              *)
LEMMA RevokeHolds ==
    ASSUME IInv, HInv, NEW k \in Keys, Revoke(k)
    PROVE  HInv'
<1>1. /\ bought' = [bought EXCEPT ![k] = <<>>]
      /\ key' = [key EXCEPT ![k].status = "revoked"]
      /\ UNCHANGED <<members, edge, call, spoiled>>
  BY DEF Revoke
<1>2. Elsewhere(k) /\ bought'[k] = <<>> /\ edge'[k] = edge[k]
  BY <1>1, KeyBounds DEF HInv, EdgesOK, Elsewhere
<1>3. DOMAIN <<>> = {}
  OBVIOUS
<1>4. Bounded(bought'[k]) /\ Holding(bought'[k], key'[k], edge'[k])
  BY <1>2, <1>3 DEF Bounded, Holding
<1>. QED
  BY <1>1, <1>2, <1>4, HoldsElsewhere, CallingUnchanged DEF HInv, EdgesOK

LEMMA SetBoundHolds ==
    ASSUME IInv, HInv, NEW k \in Keys, NEW b \in Bounds, SetLicenseBound(k, b)
    PROVE  HInv'
<1>. DEFINE g == [i \in DOMAIN bought[k] \intersect DOMAIN edge[k] |-> Resolved(edge[k][i], b)]
<1>1. /\ bought' = [bought EXCEPT ![k] = g]
      /\ key' = [key EXCEPT ![k].own = b]
      /\ UNCHANGED <<members, edge, call, spoiled>>
  BY DEF SetLicenseBound
<1>2. /\ DOMAIN g = DOMAIN bought[k] \intersect DOMAIN edge[k]
      /\ \A i \in DOMAIN g : g[i] = Resolved(edge[k][i], b)
  OBVIOUS
<1>. HIDE DEF g
<1>3. Elsewhere(k) /\ bought'[k] = g /\ edge'[k] = edge[k]
  BY <1>1, KeyBounds DEF HInv, EdgesOK, Elsewhere
<1>4. key'[k].own = b /\ key'[k].status = key[k].status
  BY <1>1 DEF IInv, KeyRows
<1>5. Bounded(edge[k])
  BY DEF HInv, EdgesOK
<1>6. \A i \in DOMAIN g : i \in Items /\ g[i] \in Bounds /\ Wider(Resolved(edge[k][i], b), g[i])
  <2>1. \A i \in DOMAIN g : i \in Items /\ Resolved(edge[k][i], b) \in Bounds
    BY <1>2, <1>5, ResolvedBounds DEF Bounded
  <2>. QED
    BY <2>1, <1>2, WiderOrder
<1>7. Bounded(g)
  BY <1>6 DEF Bounded
<1>8. k \notin spoiled => Holding(g, key'[k], edge[k])
  BY <1>2, <1>4, <1>6 DEF HInv, Holding
<1>. QED
  BY <1>1, <1>3, <1>5, <1>7, <1>8, HoldsElsewhere, CallingUnchanged DEF HInv

LEMMA NextHInv == IInv /\ HInv /\ [Next]_vars => HInv'
<1>. SUFFICES ASSUME IInv, HInv, [Next]_vars PROVE HInv'
  OBVIOUS
<1>0. members \in [Sets -> SUBSET Packages]
  BY DEF HInv
<1>. USE NothingRewritten, CallingUnchanged
<1>1. ASSUME NEW o \in Orders, NEW e \in Editions, IssueReplayed(o, e) PROVE HInv'
  BY <1>0, <1>1 DEF IssueReplayed, shop
<1>2. ASSUME NEW c \in Calls, CallStep(c) PROVE HInv'
  <2>1. ASSUME NEW o \in Orders, NEW e \in Editions, NEW account \in BOOLEAN, IssueRequest(c, o, e, account)
        PROVE  HInv'
    <3>. DEFINE m == [at |-> "issue", edition |-> e, order |-> o, account |-> account]
    <3>1. Calling(m)
      BY DEF Calling
    <3>2. Goes(c, m) /\ UNCHANGED <<key, edge, bought, spoiled, members>>
      BY <2>1 DEF IssueRequest, shop
    <3>. HIDE DEF m
    <3>. QED
      BY <1>0, <3>1, <3>2, CallingMoves
  <2>2. CASE IssueRefused(c) \/ Drop(c) \/ IssueResolved(c)
    <3>1. Goes(c, Idle) /\ UNCHANGED <<key, edge, bought, spoiled, members>>
      BY <2>2 DEF IssueRefused, IssueResolved, Drop, shop
    <3>. QED
      BY <1>0, <3>1, CallingIdle, CallingMoves
  <2>3. ASSUME NEW k \in Keys, Mint(c, k) PROVE HInv'
    <3>1. call[c].edition \in Editions
      BY <2>3 DEF Mint, IInv, Asked
    <3>2. /\ Minted(k, call[c].edition, call[c].order, call[c].account)
          /\ Goes(c, Idle) /\ UNCHANGED <<spoiled, members>>
      BY <2>3 DEF Mint, shop
    <3>. QED
      BY <3>1, <3>2, MintedHolds, CallingIdle, CallingMoves
  <2>4. ASSUME NEW k \in Keys, NEW e \in Editions, PostEditions(c, k, e) PROVE HInv'
    <3>. DEFINE m == [at |-> "add", key |-> k, edition |-> e]
    <3>1. Calling(m)
      BY DEF Calling
    <3>2. Goes(c, m) /\ UNCHANGED <<key, edge, bought, spoiled, members>>
      BY <2>4 DEF PostEditions, AddCheck, shop
    <3>. HIDE DEF m
    <3>. QED
      BY <1>0, <3>1, <3>2, CallingMoves
  <2>5. ASSUME NEW s \in Keys, NEW t \in Keys, MergeRead(c, s, t) PROVE HInv'
    <3>. DEFINE m == [at |-> "merge", source |-> s, target |-> t, copy |-> Materialized(s)]
    <3>1. Bounded(Materialized(s))
      <4>1. Bounded(MaterializedOf(edge[s], key[s].own))
        BY MaterializedBounded, KeyBounds DEF HInv, EdgesOK
      <4>. QED
        BY <4>1 DEF Materialized, MaterializedOf
    <3>2. Calling(m)
      BY <2>5, <3>1 DEF Calling, MergeRead
    <3>3. Goes(c, m) /\ UNCHANGED <<key, edge, bought, spoiled, members>>
      BY <2>5 DEF MergeRead, shop
    <3>. HIDE DEF m
    <3>. QED
      BY <1>0, <3>2, <3>3, CallingMoves
  <2>. QED
    BY <1>2, <2>1, <2>2, <2>3, <2>4, <2>5, AddAttachHolds, MergeHolds
       DEF CallStep, PostMerge, MergeForm
<1>3. ASSUME NEW k \in Keys, KeyStep(k) PROVE HInv'
  <2>1. ASSUME NEW e \in Editions, IssueFromEdition(k, e) PROVE HInv'
    <3>1. Minted(k, e, None, FALSE) /\ UNCHANGED <<spoiled, members, call>>
      BY <2>1 DEF IssueFromEdition
    <3>. QED
      BY <3>1, MintedHolds
  <2>2. ASSUME NEW e \in Editions, DeleteEdition(k, e) PROVE HInv'
    BY <2>2, TakenHolds DEF DeleteEdition, RemoveEdition, shop
  <2>3. ASSUME NEW o \in Orders \union {None}, PostRenew(k, o) PROVE HInv'
    <3>1. ASSUME RenewRefused(k, o, Renewable(k)) PROVE HInv'
      BY <1>0, <3>1 DEF RenewRefused, shop
    <3>. QED
      BY <2>3, <3>1, RenewLicenseHolds DEF PostRenew
  <2>4. ASSUME NEW o \in Orders \union {None}, NEW e \in Editions, PostEditionRenew(k, e, o) PROVE HInv'
    <3>1. ASSUME RenewRefused(k, o, EdgeRenewable(k, e)) PROVE HInv'
      BY <1>0, <3>1 DEF RenewRefused, shop
    <3>. QED
      BY <2>4, <3>1, RenewEditionHolds DEF PostEditionRenew
  <2>5. ASSUME NEW b \in OperatorBounds, LicenseBoundForm(k, b) PROVE HInv'
    <3>1. b \in Bounds
      BY LicensesAssumption
    <3>. QED
      BY <2>5, <3>1, SetBoundHolds DEF LicenseBoundForm
  <2>6. ASSUME NEW s \in Sets, RemoveSetForm(k, s) PROVE HInv'
    BY <2>6, TakenHolds DEF RemoveSetForm, RemoveSetEntitlement
  <2>. QED
    BY <1>3, <2>1, <2>2, <2>3, <2>4, <2>5, <2>6, IssueLicenseHolds, RevokeHolds, EntitleSetHolds
       DEF KeyStep, IssueEditionForm, LicenseIssue, LicenseForm, LicenseCreate, DeleteLicense,
           EntitleSetForm
<1>4. CASE CatalogStep
  <2>1. ASSUME NEW e \in Editions, DeactivateForm(e) \/ EditionDeactivate(e) PROVE HInv'
    BY <1>0, <2>1 DEF DeactivateForm, EditionDeactivate, SetEditionActive
  <2>2. ASSUME NEW s \in Sets, NEW p \in Packages, AddMemberForm(s, p) PROVE HInv'
    <3>1. members' \in [Sets -> SUBSET Packages] /\ UNCHANGED <<key, edge, bought, spoiled, call>>
      BY <1>0, <2>2 DEF AddMemberForm, AddSetMember
    <3>. QED
      BY <3>1
  <2>3. ASSUME NEW s \in Sets, NEW p \in Packages, RemoveMemberForm(s, p) PROVE HInv'
    <3>1. members' \in [Sets -> SUBSET Packages] /\ UNCHANGED <<key, edge, bought, spoiled, call>>
      BY <1>0, <2>3 DEF RemoveMemberForm, RemoveSetMember
    <3>. QED
      BY <3>1
  <2>4. ASSUME NEW who, ShutOut(who) PROVE HInv'
    BY <1>0, <2>4 DEF ShutOut
  <2>. QED
    BY <1>4, <2>1, <2>2, <2>3, <2>4, DeleteSetHolds DEF CatalogStep, DeleteSetForm
<1>5. CASE Tick
  BY <1>0, <1>5 DEF Tick
<1>6. CASE UNCHANGED vars
  BY <1>0, <1>6 DEF vars, shop
<1>. QED
  BY <1>1, <1>2, <1>3, <1>4, <1>5, <1>6 DEF Next

LEMMA HoldsAlways == Spec => [](IInv /\ HInv)
<1>1. Spec => []HInv
  BY InitHInv, NextHInv, Invariant, PTL DEF Spec
<1>. QED
  BY <1>1, Invariant, PTL

-----------------------------------------------------------------------------
(* The effective bound of a package is the ceiling of the edges to it.      *)
LEMMA EdgesStand ==
    ASSUME IInv, HInv, NEW k \in Keys, NEW p \in Packages
    PROVE  /\ EdgesTo(k, p) = {i \in DOMAIN edge[k] : p \in Stands(i)}
           /\ p \in Unlocks(k) <=> EdgesTo(k, p) # {}
           /\ Effective(k, p) = Ceiling(edge[k], key[k].own, EdgesTo(k, p))
           /\ Bounded(edge[k]) /\ key[k].own \in Bounds
<1>1. Effective(k, p) = Ceiling(edge[k], key[k].own, EdgesTo(k, p))
  BY DEF Effective, Ceiling, Given
<1>. QED
  BY <1>1, KeyBounds DEF EdgesTo, Unlocks, HInv, EdgesOK

(* A buyer keeps what was paid for: what the key was said to hold it opens, *)
(* to at least that bound, however its orders, additions, renewals, merges  *)
(* and its sets' members interleave, unless a call wrote on what another    *)
(* had changed since it looked or an unbounded key was renewed whole.       *)
THEOREM BuyersKeep == Spec => []LossNeedsRace
<1>1. IInv /\ HInv => LossNeedsRace
  <2>. SUFFICES ASSUME IInv, HInv, NEW k \in Keys \ spoiled, NEW i \in DOMAIN bought[k],
                       NEW p \in Stands(i)
                PROVE  Serves(k, p, bought[k][i])
    BY DEF LossNeedsRace
  <2>1. /\ Active(k) /\ i \in DOMAIN edge[k]
        /\ Wider(Resolved(edge[k][i], key[k].own), bought[k][i])
        /\ Bounded(edge[k]) /\ Bounded(bought[k])
    BY DEF HInv, EdgesOK, Holding, Active
  <2>2. p \in Packages
    BY <2>1 DEF Stands, Bounded, Items, HInv
  <2>3. i \in EdgesTo(k, p) /\ p \in Unlocks(k)
    BY <2>1, <2>2 DEF EdgesTo, Unlocks
  <2>. DEFINE C == Ceiling(edge[k], key[k].own, EdgesTo(k, p))
  <2>4. Effective(k, p) = C /\ key[k].own \in Bounds /\ EdgesTo(k, p) \subseteq DOMAIN edge[k]
    BY <2>2, EdgesStand
  <2>5. C \in Bounds /\ Wider(C, Resolved(edge[k][i], key[k].own))
    BY <2>1, <2>3, <2>4, CeilingLeast
  <2>. HIDE DEF C
  <2>6. Resolved(edge[k][i], key[k].own) \in Bounds /\ bought[k][i] \in Bounds
    BY <2>1, <2>4, ResolvedBounds DEF Bounded
  <2>7. Wider(C, bought[k][i])
    BY <2>1, <2>5, <2>6, WiderOrder
  <2>. QED
    BY <2>1, <2>3, <2>4, <2>7 DEF Serves
<1>. QED
  BY <1>1, HoldsAlways, PTL

(* Merging as the source's bounds are copied: the target's new ceiling is   *)
(* the least bound above what either key gave, since both it and the join   *)
(* are.                                                                     *)
LEMMA CeilingOfUnion ==
    ASSUME NEW f, Bounded(f), NEW g, Bounded(g), NEW own \in Bounds,
           NEW D \in SUBSET DOMAIN f, NEW E \in SUBSET DOMAIN g,
           \A i \in DOMAIN f : i \in E => i \in D, \A i \in DOMAIN g : i \in D => i \in E
    PROVE  LET u == UnionOf(f, MaterializedOf(g, own))
               C == Ceiling(u, Free, D \union E)
           IN  /\ D # {} /\ E = {} => C = Ceiling(f, Free, D)
               /\ D = {} /\ E # {} => C = Ceiling(g, own, E)
               /\ D # {} /\ E # {} => C = Joined(Ceiling(g, own, E), Ceiling(f, Free, D))
<1>. DEFINE h == MaterializedOf(g, own)
            u == UnionOf(f, h)
            C == Ceiling(u, Free, D \union E)
            F == Ceiling(f, Free, D)
            G == Ceiling(g, own, E)
<1>1. Bounded(h)
  BY MaterializedBounded
<1>2. DOMAIN h = DOMAIN g /\ \A i \in DOMAIN g : h[i] = Resolved(g[i], own)
  BY DEF MaterializedOf
<1>. HIDE DEF h
<1>3. /\ Bounded(u) /\ DOMAIN u = DOMAIN f \union DOMAIN h
      /\ \A i \in DOMAIN f : Wider(u[i], f[i])
      /\ \A i \in DOMAIN h : Wider(u[i], h[i])
      /\ \A z : \A i \in DOMAIN f \union DOMAIN h :
            (/\ i \in DOMAIN f => Wider(z, f[i])
             /\ i \in DOMAIN h => Wider(z, h[i])) => Wider(z, u[i])
  BY <1>1, UnionOfLeast
<1>. HIDE DEF u
<1>4. Free \in Bounds
  BY DEF Free, Bounds
<1>5. /\ \A i \in DOMAIN f : f[i] \in Bounds /\ Resolved(f[i], Free) = f[i]
      /\ \A i \in DOMAIN u : u[i] \in Bounds /\ Resolved(u[i], Free) = u[i]
      /\ \A i \in DOMAIN h : h[i] \in Bounds
  BY <1>1, <1>3, <1>4, ResolvedBounds DEF Bounded
<1>6. ASSUME D # {}
      PROVE  /\ F \in Bounds /\ \A i \in D : Wider(F, f[i])
             /\ \A z : (\A i \in D : Wider(z, f[i])) => Wider(z, F)
  BY <1>4, <1>5, <1>6, CeilingLeast
<1>7. ASSUME E # {}
      PROVE  /\ G \in Bounds /\ \A i \in E : Wider(G, h[i])
             /\ \A z : (\A i \in E : Wider(z, h[i])) => Wider(z, G)
  BY <1>2, <1>7, CeilingLeast
<1>8. D \union E \in SUBSET DOMAIN u
  BY <1>2, <1>3
<1>9. ASSUME D \union E # {}
      PROVE  /\ C \in Bounds /\ \A i \in D \union E : Wider(C, u[i])
             /\ \A z : (\A i \in D \union E : Wider(z, u[i])) => Wider(z, C)
  BY <1>3, <1>4, <1>5, <1>8, <1>9, CeilingLeast
<1>. HIDE DEF C, F, G
<1>10. ASSUME D # {} PROVE Wider(C, F)
  <2>1. ASSUME NEW i \in D PROVE Wider(C, f[i])
    <3>1. Wider(C, u[i]) /\ Wider(u[i], f[i])
      BY <1>3, <1>9, <2>1
    <3>. QED
      BY <1>3, <1>5, <1>9, <2>1, <3>1, WiderOrder
  <2>. QED
    BY <1>6, <1>10, <2>1
<1>11. ASSUME E # {} PROVE Wider(C, G)
  <2>1. ASSUME NEW i \in E PROVE Wider(C, h[i])
    <3>1. Wider(C, u[i]) /\ Wider(u[i], h[i])
      BY <1>2, <1>3, <1>9, <2>1
    <3>. QED
      BY <1>2, <1>3, <1>5, <1>9, <2>1, <3>1, WiderOrder
  <2>. QED
    BY <1>7, <1>11, <2>1
<1>12. ASSUME NEW z \in Bounds, D \union E # {},
              D # {} => Wider(z, F), E # {} => Wider(z, G)
       PROVE  Wider(z, C)
  <2>1. ASSUME NEW i \in D \union E PROVE Wider(z, u[i])
    <3>1. ASSUME i \in DOMAIN f PROVE Wider(z, f[i])
      <4>1. i \in D /\ Wider(F, f[i]) /\ F \in Bounds /\ f[i] \in Bounds
        BY <1>5, <1>6, <2>1, <3>1
      <4>. QED
        BY <1>12, <4>1, WiderOrder
    <3>2. ASSUME i \in DOMAIN h PROVE Wider(z, h[i])
      <4>1. i \in E /\ Wider(G, h[i]) /\ G \in Bounds /\ h[i] \in Bounds
        BY <1>2, <1>5, <1>7, <2>1, <3>2
      <4>. QED
        BY <1>12, <4>1, WiderOrder
    <3>. QED
      BY <1>2, <1>3, <2>1, <3>1, <3>2
  <2>. QED
    BY <1>9, <1>12, <2>1
<1>13. ASSUME D # {}, E = {} PROVE C = F
  BY <1>6, <1>9, <1>10, <1>12, <1>13, WiderOrder
<1>14. ASSUME D = {}, E # {} PROVE C = G
  BY <1>7, <1>9, <1>11, <1>12, <1>14, WiderOrder
<1>15. ASSUME D # {}, E # {} PROVE C = Joined(G, F)
  <2>1. F \in Bounds /\ G \in Bounds /\ C \in Bounds
    BY <1>6, <1>7, <1>9, <1>15
  <2>. DEFINE J == Joined(G, F)
  <2>2. /\ J \in Bounds /\ Wider(J, G) /\ Wider(J, F)
        /\ \A z : Wider(z, G) /\ Wider(z, F) => Wider(z, J)
    BY <2>1, JoinedLeast
  <2>. HIDE DEF J
  <2>3. Wider(J, C) /\ Wider(C, J)
    BY <1>10, <1>11, <1>12, <1>15, <2>2
  <2>. QED
    BY <2>1, <2>2, <2>3, WiderOrder DEF J
<1>. QED
  BY <1>13, <1>14, <1>15 DEF C, F, G, h, u

LEMMA MergeJoinsStep ==
    ASSUME IInv, HInv, NEW c \in Calls, NEW s \in Keys, NEW t \in Keys,
           call[c].at = "merge", call[c].source = s, call[c].target = t,
           {s, t} \intersect spoiled' = {}, MergeCommit(c)
    PROVE  /\ Unlocks(t)' = Unlocks(s) \union Unlocks(t)
           /\ \A p \in Unlocks(s) \union Unlocks(t) :
                 Effective(t, p)' =
                    CASE p \notin Unlocks(s) -> Effective(t, p)
                      [] p \notin Unlocks(t) -> Effective(s, p)
                      [] OTHER -> Joined(Effective(s, p), Effective(t, p))
<1>. DEFINE own == key[s].own
            copy == MaterializedOf(edge[s], own)
            u == UnionOf(edge[t], copy)
<1>1. /\ Active(t) /\ Unbounded(t) /\ call[c].copy = Materialized(s) /\ s # t
      /\ UNCHANGED members
  BY DEF MergeCommit, shop, HInv, Calling
<1>2. edge'[t] = u
  BY <1>1 DEF MergeCommit, Materialized, MaterializedOf, HInv, EdgesOK
<1>3. key'[t].own = Free /\ key[t].own = Free
  BY <1>1 DEF MergeCommit, Unbounded, IInv
<1>4. DOMAIN u = DOMAIN edge[t] \union DOMAIN edge[s]
  BY DEF UnionOf, MaterializedOf
<1>. HIDE DEF u
<1>5. \A i : Stands(i)' = Stands(i)
  BY <1>1 DEF Stands
<1>6. ASSUME NEW p \in Packages PROVE EdgesTo(t, p)' = EdgesTo(t, p) \union EdgesTo(s, p)
  <2>1. EdgesTo(t, p)' = {i \in DOMAIN edge'[t] : p \in Stands(i)'}
    BY DEF EdgesTo
  <2>. QED
    BY <1>2, <1>4, <1>5, <2>1 DEF EdgesTo
<1>7. Unlocks(t)' = Unlocks(s) \union Unlocks(t)
  BY <1>6 DEF Unlocks
<1>8. ASSUME NEW p \in Unlocks(s) \union Unlocks(t)
      PROVE  Effective(t, p)' =
                    CASE p \notin Unlocks(s) -> Effective(t, p)
                      [] p \notin Unlocks(t) -> Effective(s, p)
                      [] OTHER -> Joined(Effective(s, p), Effective(t, p))
  <2>. DEFINE D == EdgesTo(t, p)
              E == EdgesTo(s, p)
  <2>0. p \in Packages
    BY DEF Unlocks
  <2>1. Effective(t, p)' = Ceiling(edge'[t], key'[t].own, EdgesTo(t, p)')
    BY DEF Effective, Ceiling, Given
  <2>2. Effective(t, p)' = Ceiling(u, Free, D \union E)
    BY <1>2, <1>3, <1>6, <2>0, <2>1
  <2>3. /\ D = {i \in DOMAIN edge[t] : p \in Stands(i)}
        /\ E = {i \in DOMAIN edge[s] : p \in Stands(i)}
        /\ p \in Unlocks(t) <=> D # {}
        /\ p \in Unlocks(s) <=> E # {}
        /\ Effective(t, p) = Ceiling(edge[t], Free, D)
        /\ Effective(s, p) = Ceiling(edge[s], own, E)
        /\ Bounded(edge[t]) /\ Bounded(edge[s]) /\ own \in Bounds
    BY <1>3, <2>0, EdgesStand
  <2>. HIDE DEF D, E, own
  <2>4. /\ D # {} /\ E = {} => Ceiling(u, Free, D \union E) = Ceiling(edge[t], Free, D)
        /\ D = {} /\ E # {} => Ceiling(u, Free, D \union E) = Ceiling(edge[s], own, E)
        /\ D # {} /\ E # {} => Ceiling(u, Free, D \union E)
                 = Joined(Ceiling(edge[s], own, E), Ceiling(edge[t], Free, D))
    BY <2>3, CeilingOfUnion DEF u
  <2>5. CASE p \notin Unlocks(s)
    BY <2>2, <2>3, <2>4, <2>5
  <2>6. CASE p \in Unlocks(s) /\ p \notin Unlocks(t)
    BY <2>2, <2>3, <2>4, <2>6
  <2>7. CASE p \in Unlocks(s) /\ p \in Unlocks(t)
    BY <2>2, <2>3, <2>4, <2>7
  <2>. QED
    BY <2>5, <2>6, <2>7
<1>. QED
  BY <1>7, <1>8

(* A merge that nothing overtook loses nothing and invents nothing: the     *)
(* target opens what either key opened, a package both opened to the more   *)
(* permissive of their bounds, inherited ones included.                     *)
THEOREM MergesJoin == Spec => MergeJoins
<1>. DEFINE Step ==
        \A c \in Calls, s, t \in Keys :
          (/\ call[c].at = "merge" /\ call[c].source = s /\ call[c].target = t
           /\ {s, t} \intersect spoiled' = {} /\ MergeCommit(c)) =>
              /\ Unlocks(t)' = Unlocks(s) \union Unlocks(t)
              /\ \A p \in Unlocks(s) \union Unlocks(t) :
                    Effective(t, p)' =
                       CASE p \notin Unlocks(s) -> Effective(t, p)
                         [] p \notin Unlocks(t) -> Effective(s, p)
                         [] OTHER -> Joined(Effective(s, p), Effective(t, p))
<1>1. IInv /\ HInv => Step
  BY MergeJoinsStep
<1>2. IInv /\ HInv /\ [Next]_vars => [Step]_vars
  BY <1>1
<1>3. MergeJoins <=> [][Step]_vars
  BY DEF MergeJoins
<1>. HIDE DEF Step
<1>. QED
  BY <1>2, <1>3, HoldsAlways, PTL DEF Spec

-----------------------------------------------------------------------------
(* What the two invariants leave of the types.  A key once minted stays, so *)
(* the ledger's rows have their keys.                                       *)
Shape(m) == m = Idle \/ m \in IssueCalls \/ m \in AddCalls \/ m.at = "merge"

RestOK ==
    /\ acts \in 0 .. MaxActs
    /\ admits \subseteq {"token", "admin"}
    /\ onSale \subseteq Editions
    /\ \A x \in ledger : x \in Keys \X Orders /\ Exists(x[1])
    /\ \A c \in Calls : Shape(call[c])
    /\ spoiled \subseteq Keys

LEMMA KeyStays ==
    ASSUME IInv, NEW k \in Keys, NEW row, row.status # "none", key' = [key EXCEPT ![k] = row]
    PROVE  \A l \in Keys : Exists(l) => Exists(l)'
BY DEF IInv, Exists

LEMMA StatusStays == IInv /\ HInv /\ [Next]_vars => \A l \in Keys : Exists(l) => Exists(l)'
<1>. SUFFICES ASSUME IInv, HInv, [Next]_vars PROVE \A l \in Keys : Exists(l) => Exists(l)'
  OBVIOUS
<1>1. CASE UNCHANGED key
  BY <1>1 DEF Exists
<1>2. ASSUME NEW k \in Keys, NEW e, NEW o, NEW account, Minted(k, e, o, account)
      PROVE  \A l \in Keys : Exists(l) => Exists(l)'
  <2>. DEFINE row == [status |-> "active", edition |-> e, order |-> o,
                      own |-> IF account THEN Free ELSE Template(e)]
  <2>1. key' = [key EXCEPT ![k] = row] /\ row.status # "none"
    BY <1>2 DEF Minted
  <2>. HIDE DEF row
  <2>. QED
    BY <2>1, KeyStays
<1>3. ASSUME NEW k \in Keys, NEW chosen, IssueLicense(k, chosen)
      PROVE  \A l \in Keys : Exists(l) => Exists(l)'
  <2>1. [NoKey EXCEPT !.status = "active"].status # "none"
    BY DEF NoKey
  <2>2. \E row : row.status # "none" /\ key' = [key EXCEPT ![k] = row]
    BY <1>3, <2>1 DEF IssueLicense
  <2>. QED
    BY <2>2, KeyStays
<1>4. ASSUME NEW k \in Keys, key' = [key EXCEPT ![k].status = "revoked"]
      PROVE  \A l \in Keys : Exists(l) => Exists(l)'
  <2>1. [key[k] EXCEPT !.status = "revoked"].status # "none"
    BY DEF IInv, KeyRows
  <2>2. \E row : row.status # "none" /\ key' = [key EXCEPT ![k] = row]
    BY <1>4, <2>1 DEF IInv
  <2>. QED
    BY <2>2, KeyStays
<1>5. ASSUME NEW k \in Keys, Exists(k), NEW b, key' = [key EXCEPT ![k].own = b]
      PROVE  \A l \in Keys : Exists(l) => Exists(l)'
  <2>1. [key[k] EXCEPT !.own = b].status # "none"
    BY <1>5 DEF IInv, KeyRows, Exists
  <2>2. \E row : row.status # "none" /\ key' = [key EXCEPT ![k] = row]
    BY <1>5, <2>1 DEF IInv
  <2>. QED
    BY <2>2, KeyStays
<1>6. ASSUME NEW c \in Calls, CallStep(c) PROVE \A l \in Keys : Exists(l) => Exists(l)'
  <2>1. CASE MergeCommit(c)
    BY <1>4, <2>1 DEF MergeCommit, HInv, Calling
  <2>2. CASE ~ MergeCommit(c) /\ \A k \in Keys : ~ Mint(c, k)
    <3>1. UNCHANGED key
      BY <1>6, <2>2 DEF CallStep, IssueRequest, IssueRefused, IssueResolved, PostEditions, AddCheck,
         AddAttach, PostMerge, MergeForm, MergeRead, Drop
    <3>. QED
      BY <1>1, <3>1
  <2>. QED
    BY <1>2, <2>1, <2>2 DEF Mint
<1>7. ASSUME NEW k \in Keys, KeyStep(k) PROVE \A l \in Keys : Exists(l) => Exists(l)'
  <2>1. ASSUME NEW o, RenewLicense(k, o) PROVE \A l \in Keys : Exists(l) => Exists(l)'
    <3>1. \E b : key' = [key EXCEPT ![k].own = b]
      <4>1. key' = [key EXCEPT ![k].own = [key[k].own EXCEPT !.until = Later(key[k].own.until)]]
        BY <2>1 DEF RenewLicense
      <4>. QED
        BY <4>1
    <3>2. Exists(k)
      BY <2>1 DEF RenewLicense, Renewable, Active, Exists
    <3>. QED
      BY <1>5, <3>1, <3>2
  <2>2. ASSUME NEW o, NEW e, RenewEdition(k, e, o) \/ RenewRefused(k, o, Renewable(k))
                              \/ RenewRefused(k, o, EdgeRenewable(k, e))
        PROVE  UNCHANGED key
    BY <2>2 DEF RenewEdition, RenewRefused
  <2>3. ASSUME NEW e, NEW s, RemoveEdition(k, e) \/ EntitleSet(k, s) \/ RemoveSetEntitlement(k, s)
        PROVE  UNCHANGED key
    BY <2>3 DEF RemoveEdition, EntitleSet, RemoveSetEntitlement
  <2>4. CASE \E o \in Orders \union {None} : PostRenew(k, o)
    BY <1>1, <2>1, <2>2, <2>4 DEF PostRenew
  <2>5. CASE \E o \in Orders \union {None}, e \in Editions : PostEditionRenew(k, e, o)
    BY <1>1, <2>2, <2>5 DEF PostEditionRenew
  <2>6. CASE \E e \in Editions : IssueFromEdition(k, e)
    BY <1>2, <2>6 DEF IssueFromEdition
  <2>7. CASE Revoke(k)
    BY <1>4, <2>7 DEF Revoke
  <2>8. CASE \E b \in OperatorBounds : SetLicenseBound(k, b)
    BY <1>5, <2>8 DEF SetLicenseBound
  <2>. QED
    BY <1>1, <1>3, <1>7, <2>3, <2>4, <2>5, <2>6, <2>7, <2>8
       DEF KeyStep, IssueEditionForm, LicenseIssue, LicenseForm, LicenseCreate, DeleteEdition,
           DeleteLicense, LicenseBoundForm, EntitleSetForm, RemoveSetForm
<1>8. CASE CatalogStep \/ Tick \/ \E o \in Orders, e \in Editions : IssueReplayed(o, e)
  <2>1. UNCHANGED key
    BY <1>8 DEF CatalogStep, Tick, IssueReplayed, DeactivateForm, EditionDeactivate, SetEditionActive,
       AddMemberForm, AddSetMember, RemoveMemberForm, RemoveSetMember, DeleteSetForm, DeleteSet, ShutOut
  <2>. QED
    BY <1>1, <2>1
<1>9. CASE UNCHANGED vars
  BY <1>1, <1>9 DEF vars
<1>. QED
  BY <1>6, <1>7, <1>8, <1>9 DEF Next

(* A call writes its number of months, its roles and its orders, and what   *)
(* it goes on to is a call again.                                           *)
LEMMA ShapeMoves ==
    ASSUME RestOK, NEW c \in Calls, NEW m, Shape(m), Goes(c, m)
    PROVE  \A d \in Calls : Shape(call'[d])
<1>1. \A d \in Calls : call'[d] = m \/ call'[d] = call[d]
  BY DEF Goes
<1>. QED
  BY <1>1 DEF RestOK

LEMMA RestFrame ==
    ASSUME RestOK, \A l \in Keys : Exists(l) => Exists(l)',
           acts' \in 0 .. MaxActs, admits' \subseteq admits, onSale' \subseteq Editions,
           \A x \in ledger' : x \in ledger \/ (x \in Keys \X Orders /\ Exists(x[1])),
           \A c \in Calls : Shape(call'[c]), spoiled' \subseteq Keys
    PROVE  RestOK'
<1>1. \A x \in ledger' : x \in Keys \X Orders /\ Exists(x[1])'
  <2>. SUFFICES ASSUME NEW x \in ledger' PROVE x \in Keys \X Orders /\ Exists(x[1])'
    OBVIOUS
  <2>1. x \in Keys \X Orders /\ Exists(x[1])
    BY DEF RestOK
  <2>. QED
    BY <2>1
<1>2. admits' \subseteq {"token", "admin"}
  BY DEF RestOK
<1>3. \A c \in Calls : Shape(call[c])'
  BY DEF Shape, IssueCalls, AddCalls
<1>. QED
  BY <1>1, <1>2, <1>3 DEF RestOK

LEMMA NextRestOK == IInv /\ HInv /\ RestOK /\ [Next]_vars => RestOK'
<1>. SUFFICES ASSUME IInv, HInv, RestOK, [Next]_vars PROVE RestOK'
  OBVIOUS
<1>0. /\ \A l \in Keys : Exists(l) => Exists(l)'
      /\ acts \in 0 .. MaxActs /\ onSale \subseteq Editions /\ spoiled \subseteq Keys
      /\ \A c \in Calls : Shape(call[c])
      /\ Operator => acts' \in 0 .. MaxActs
  BY StatusStays, LicensesAssumption DEF RestOK, Operator
<1>. USE <1>0, RestFrame
<1>1. ASSUME UNCHANGED <<acts, admits, onSale, ledger>>, spoiled' \subseteq Keys,
             \A c \in Calls : Shape(call'[c])
      PROVE  RestOK'
  BY <1>1
<1>2. ASSUME Operator, UNCHANGED <<ledger, call, spoiled>>, admits' \subseteq admits,
             onSale' \subseteq Editions
      PROVE  RestOK'
  BY <1>2
<1>3. ASSUME NEW k \in Keys, Exists(k), NEW o \in Orders \union {None}, Recorded(k, o),
             UNCHANGED <<acts, admits, onSale, call>>, spoiled' \subseteq Keys
      PROVE  RestOK'
  <2>1. \A x \in ledger' : x \in ledger \/ (x \in Keys \X Orders /\ Exists(x[1]))
    BY <1>3 DEF Recorded
  <2>. QED
    BY <1>3, <2>1
<1>4. ASSUME NEW c \in Calls, CallStep(c) PROVE RestOK'
  <2>1. ASSUME NEW m, Shape(m), Goes(c, m) PROVE \A d \in Calls : Shape(call'[d])
    BY <2>1, ShapeMoves
  <2>2. Shape(Idle)
    BY DEF Shape
  <2>3. ASSUME NEW o \in Orders, NEW e \in Editions, NEW account \in BOOLEAN, IssueRequest(c, o, e, account)
        PROVE  RestOK'
    <3>. DEFINE m == [at |-> "issue", edition |-> e, order |-> o, account |-> account]
    <3>1. Shape(m)
      BY DEF Shape, IssueCalls
    <3>2. Goes(c, m) /\ UNCHANGED <<acts, admits, onSale, ledger, spoiled>>
      BY <2>3 DEF IssueRequest, shop
    <3>. HIDE DEF m
    <3>. QED
      BY <1>1, <2>1, <3>1, <3>2
  <2>4. CASE IssueRefused(c) \/ IssueResolved(c) \/ Drop(c) \/ \E k \in Keys : Mint(c, k)
    BY <1>1, <2>1, <2>2, <2>4 DEF IssueRefused, IssueResolved, Drop, Mint, shop
  <2>5. ASSUME NEW k \in Keys, NEW e \in Editions, PostEditions(c, k, e) PROVE RestOK'
    <3>. DEFINE m == [at |-> "add", key |-> k, edition |-> e]
    <3>1. Shape(m)
      BY DEF Shape, AddCalls
    <3>2. Goes(c, m) /\ UNCHANGED <<acts, admits, onSale, ledger, spoiled>>
      BY <2>5 DEF PostEditions, AddCheck, shop
    <3>. HIDE DEF m
    <3>. QED
      BY <1>1, <2>1, <3>1, <3>2
  <2>6. CASE AddAttach(c)
    <3>1. call[c].key \in Keys
      BY <2>6 DEF AddAttach, HInv, Calling
    <3>2. spoiled' \subseteq Keys /\ UNCHANGED <<acts, admits, onSale, ledger>> /\ Goes(c, Idle)
      BY <2>6, <3>1 DEF AddAttach, shop
    <3>. QED
      BY <1>1, <2>1, <2>2, <3>2
  <2>7. ASSUME NEW s \in Keys, NEW t \in Keys, MergeRead(c, s, t) PROVE RestOK'
    <3>. DEFINE m == [at |-> "merge", source |-> s, target |-> t, copy |-> Materialized(s)]
    <3>1. Shape(m)
      BY DEF Shape
    <3>2. Goes(c, m) /\ UNCHANGED <<acts, admits, onSale, ledger, spoiled>>
      BY <2>7 DEF MergeRead, shop
    <3>. HIDE DEF m
    <3>. QED
      BY <1>1, <2>1, <3>1, <3>2
  <2>8. CASE MergeCommit(c)
    <3>1. call[c].target \in Keys
      BY <2>8 DEF MergeCommit, HInv, Calling
    <3>2. spoiled' \subseteq Keys /\ UNCHANGED <<acts, admits, onSale, ledger>> /\ Goes(c, Idle)
      BY <2>8, <3>1 DEF MergeCommit, shop
    <3>. QED
      BY <1>1, <2>1, <2>2, <3>2
  <2>. QED
    BY <1>4, <2>3, <2>4, <2>5, <2>6, <2>7, <2>8 DEF CallStep, PostMerge, MergeForm
<1>5. ASSUME NEW k \in Keys, KeyStep(k) PROVE RestOK'
  <2>1. ASSUME NEW o \in Orders \union {None}, RenewLicense(k, o) PROVE RestOK'
    BY <1>3, <2>1 DEF RenewLicense, Renewable, Active, Exists, shop
  <2>2. ASSUME NEW o \in Orders \union {None}, NEW e, RenewEdition(k, e, o) PROVE RestOK'
    <3>1. Exists(k) /\ Recorded(k, o) /\ UNCHANGED <<acts, admits, onSale, call, spoiled>>
      BY <2>2 DEF RenewEdition, EdgeRenewable, Active, Exists, shop
    <3>. QED
      BY <1>3, <3>1
  <2>3. ASSUME NEW o \in Orders \union {None}, NEW renewable, RenewRefused(k, o, renewable) PROVE RestOK'
    BY <1>3, <2>3 DEF RenewRefused, shop
  <2>4. CASE \E o \in Orders \union {None} : PostRenew(k, o)
    BY <2>1, <2>3, <2>4 DEF PostRenew
  <2>5. CASE \E o \in Orders \union {None}, e \in Editions : PostEditionRenew(k, e, o)
    BY <2>2, <2>3, <2>5 DEF PostEditionRenew
  <2>6. ASSUME NEW e, RemoveEdition(k, e) PROVE RestOK'
    BY <1>1, <2>6 DEF RemoveEdition, shop
  <2>7. ASSUME NEW x, \/ IssueFromEdition(k, x) \/ IssueLicense(k, x) \/ Revoke(k)
                      \/ SetLicenseBound(k, x) \/ EntitleSet(k, x) \/ RemoveSetEntitlement(k, x)
        PROVE  RestOK'
    BY <1>2, <2>7 DEF IssueFromEdition, IssueLicense, Revoke, SetLicenseBound, EntitleSet,
       RemoveSetEntitlement
  <2>. QED
    BY <1>5, <2>4, <2>5, <2>6, <2>7
       DEF KeyStep, IssueEditionForm, LicenseIssue, LicenseForm, LicenseCreate, DeleteEdition,
           DeleteLicense, LicenseBoundForm, EntitleSetForm, RemoveSetForm
<1>6. CASE CatalogStep
  BY <1>2, <1>6 DEF CatalogStep, DeactivateForm, EditionDeactivate, SetEditionActive, AddMemberForm,
     AddSetMember, RemoveMemberForm, RemoveSetMember, DeleteSetForm, DeleteSet, ShutOut
<1>7. CASE Tick
  BY <1>2, <1>7 DEF Tick
<1>8. CASE (\E o \in Orders, e \in Editions : IssueReplayed(o, e)) \/ UNCHANGED vars
  BY <1>1, <1>8 DEF IssueReplayed, vars, shop
<1>. QED
  BY <1>4, <1>5, <1>6, <1>7, <1>8 DEF Next

(* Every table and every call keeps its type: an edge is to a set or a      *)
(* package and has a bound, a row of license_renewals its key, and a merge  *)
(* in flight copies edges only.                                             *)
THEOREM TypeCorrect == Spec => []TypeOK
<1>1. Init => RestOK
  BY LicensesAssumption DEF Init, RestOK, Shape
<1>2. IInv /\ HInv /\ RestOK => TypeOK
  <2>. SUFFICES ASSUME IInv, HInv, RestOK PROVE TypeOK
    OBVIOUS
  <2>1. \A c \in Calls :
           \/ call[c] \in {Idle} \union IssueCalls \union AddCalls
           \/ /\ call[c].at = "merge"
              /\ {call[c].source, call[c].target} \subseteq Keys
              /\ \A i \in DOMAIN call[c].copy : i \in Items /\ call[c].copy[i] \in Bounds
    BY DEF RestOK, Shape, HInv, Calling, Bounded
  <2>2. ledger \subseteq {k \in Keys : Exists(k)} \X Orders
    BY DEF RestOK
  <2>3. /\ \A k \in Keys : DOMAIN edge[k] \subseteq Items /\ \A i \in DOMAIN edge[k] : edge[k][i] \in Bounds
        /\ \A k \in Keys : DOMAIN bought[k] \subseteq Items /\ \A i \in DOMAIN bought[k] : bought[k][i] \in Bounds
    BY DEF HInv, EdgesOK, Bounded
  <2>. QED
    BY <2>1, <2>2, <2>3 DEF IInv, HInv, RestOK, KeyRows, Answered, TypeOK
<1>3. IInv /\ HInv /\ RestOK /\ [Next]_vars => RestOK'
  BY NextRestOK
<1>. QED
  BY <1>1, <1>2, <1>3, HoldsAlways, PTL DEF Spec
=============================================================================
