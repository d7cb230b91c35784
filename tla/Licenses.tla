------------------------------- MODULE Licenses -------------------------------
(***************************************************************************)
(* License keys: issuing them against editions, accumulating editions on   *)
(* one key, renewing, merging and revoking, by the shop's calls of the     *)
(* management API and by administrators, and the update bound a key gives  *)
(* each package.                                                           *)
(*                                                                         *)
(* Calls that are one statement, or hold the row they change, are one      *)
(* action; issuing, adding and merging read first and write later, in READ *)
(* COMMITTED transactions that lock nothing they only read.                *)
(***************************************************************************)
EXTENDS Integers, FiniteSets

CONSTANTS
    Keys,       \* license keys, all that are ever minted
    Orders,     \* Idempotency-Key headers: the shop's order ids
    Calls,      \* calls in flight that take several steps
    Editions,
    Kind,       \* bound_kind of each edition
    SetOf,      \* the package set each edition sells
    Frozen,     \* the editions with snapshot_at_issue
    Sets, Packages,
    Sold,       \* the packages each set starts with
    Period,     \* bound_period_months of the time editions
    Major,      \* bound_major of the version editions
    Horizon,    \* bound: the last month
    OperatorBounds, \* the bounds administrators set
    MaxUntil,   \* bound: no renewal goes past it
    MaxActs,    \* bound: how often the operator steps in or a month passes
    None        \* SQL's null

Items   == Sets \union Packages
Axes    == {"until", "major"}
Bounds  == [Axes -> (0 .. MaxUntil + Major) \union {None}]
Free    == [a \in Axes |-> None]

ASSUME LicensesAssumption ==
    /\ Period \in Nat \ {0} /\ Major \in Nat /\ Horizon \in Nat
    /\ MaxActs \in Nat /\ MaxUntil \in Nat /\ Horizon + Period <= MaxUntil
    /\ Kind \in [Editions -> {"perpetual", "time", "version"}]
    /\ SetOf \in [Editions -> Sets]
    /\ Frozen \subseteq Editions
    /\ Sold \in [Sets -> SUBSET Packages]
    /\ Sets \intersect Packages = {}
    /\ OperatorBounds \subseteq Bounds
    /\ None \notin Int \union Editions \union Orders \union Keys

VARIABLES
    now,        \* the month
    acts,       \* how often that was, for the bound
    admits,     \* who is let in: the shop's service token, an administrator
    onSale,     \* the active editions
    members,    \* what each set resolves to
    key,        \* license_keys: status, edition, order and the key's own bound
    edge,       \* what each key is entitled to, sets and packages, each with
                \* a bound whose null axes stand for the key's own
    ledger,     \* license_renewals: renewals already asked for
    call,       \* where each call in flight is and what it has read
    answered,   \* history: the key each order for an edition was answered with
    extended,   \* history: how often a key's renewal by an order extended it
    bought,     \* history: what each key's buyer paid for, with its bound
    spoiled     \* history: keys written on what another call had changed,
                \* and unbounded keys renewed as if they had a bound

vars == <<now, acts, admits, onSale, members, key, edge, ledger, call, answered, extended,
          bought, spoiled>>
shop == <<now, acts, admits, onSale, members>>

NoKey == [status |-> "none", edition |-> None, order |-> None, own |-> Free]
Idle  == [at |-> "idle"]

-----------------------------------------------------------------------------
(* Bounds.  Null is unbounded, on each axis.                                *)
Covers(x, y) == x = None \/ (y # None /\ x >= y)
Wider(x, y)  == \A a \in Axes : Covers(x[a], y[a])

(* A null axis of an edge stands for the key's.                             *)
Resolved(b, own) == [a \in Axes |-> IF b[a] = None THEN own[a] ELSE b[a]]

(* The more permissive of two on each axis.                                 *)
Joined(x, y) == [a \in Axes |-> IF Covers(x[a], y[a]) THEN x[a] ELSE y[a]]

(* The edges of both, the more permissive bound where they meet.            *)
UnionOf(f, g) ==
    [i \in DOMAIN f \union DOMAIN g |->
        IF i \notin DOMAIN g THEN f[i]
        ELSE IF i \notin DOMAIN f THEN g[i] ELSE Joined(f[i], g[i])]

(* Mutant of Attached: on conflict do update.                               *)
Attached_Replaces(f, g) ==
    [i \in DOMAIN f \union DOMAIN g |-> IF i \in DOMAIN g THEN g[i] ELSE f[i]]

(* "on conflict do nothing": what is there stays.                           *)
Attached(f, g) == [i \in DOMAIN f \union DOMAIN g |-> IF i \in DOMAIN f THEN f[i] ELSE g[i]]

Without(f, S)  == [i \in DOMAIN f \ S |-> f[i]]

(* The bound an edition's template gives today.                             *)
Template(e) == [a \in Axes |-> CASE a = "until" /\ Kind[e] = "time"    -> now + Period
                                 [] a = "major" /\ Kind[e] = "version" -> Major
                                 [] OTHER -> None]

(* The packages an item stands for, and the effective bounds of a package:  *)
(* those its edges give, an edge's null axes resolved against the key.      *)
Stands(i)    == IF i \in Sets THEN members[i] ELSE {i}
EdgesTo(k, p) == {i \in DOMAIN edge[k] : p \in Stands(i)}
Unlocks(k)   == {p \in Packages : EdgesTo(k, p) # {}}

(* A ceiling on an axis: null if some edge is unbounded, else the greatest. *)
Effective(k, p) ==
    LET given(a) == {Resolved(edge[k][i], key[k].own)[a] : i \in EdgesTo(k, p)}
    IN  [a \in Axes |-> CHOOSE x \in given(a) : \A y \in given(a) : Covers(x, y)]

Exists(k) == key[k].status # "none"
Active(k) == key[k].status = "active"
Unbounded(k) == key[k].own = Free

(* What a license opens when it is served: active keys only.                *)
Serves(k, p, b) == Active(k) /\ p \in Unlocks(k) /\ Wider(Effective(k, p), b)

-----------------------------------------------------------------------------
IssueCalls == [at : {"issue"}, edition : Editions, order : Orders, account : BOOLEAN]
AddCalls   == [at : {"add"}, key : Keys, edition : Editions]

TypeOK ==
    /\ now \in 0 .. Horizon /\ acts \in 0 .. MaxActs
    /\ admits \subseteq {"token", "admin"}
    /\ onSale \subseteq Editions
    /\ members \in [Sets -> SUBSET Packages]
    /\ key \in [Keys -> [status : {"none", "active", "revoked"},
                         edition : Editions \union {None},
                         order : Orders \union {None}, own : Bounds]]
    /\ \A k \in Keys : DOMAIN edge[k] \subseteq Items /\ \A i \in DOMAIN edge[k] : edge[k][i] \in Bounds
    /\ ledger \subseteq {k \in Keys : Exists(k)} \X Orders
    /\ \A c \in Calls :
          \/ call[c] \in {Idle} \union IssueCalls \union AddCalls
          \/ /\ call[c].at = "merge"
             /\ {call[c].source, call[c].target} \subseteq Keys
             /\ \A i \in DOMAIN call[c].copy : i \in Items /\ call[c].copy[i] \in Bounds
    /\ answered \subseteq Orders \X Editions \X Keys
    /\ extended \in [Keys \X Orders -> Nat]
    /\ \A k \in Keys : DOMAIN bought[k] \subseteq Items /\ \A i \in DOMAIN bought[k] : bought[k][i] \in Bounds
    /\ spoiled \subseteq Keys

Init ==
    /\ now = 0 /\ acts = 0
    /\ admits = {"token", "admin"}
    /\ onSale = Editions
    /\ members = Sold
    /\ key = [k \in Keys |-> NoKey]
    /\ edge = [k \in Keys |-> <<>>]
    /\ ledger = {}
    /\ call = [c \in Calls |-> Idle]
    /\ answered = {}
    /\ extended = [x \in Keys \X Orders |-> 0]
    /\ bought = [k \in Keys |-> <<>>]
    /\ spoiled = {}

Goes(c, to) == call' = [call EXCEPT ![c] = to]

Operator == acts < MaxActs /\ acts' = acts + 1

-----------------------------------------------------------------------------
(* Issuing.                                                                 *)

(* The bound goes on the edges of an account key, on the key of any other;  *)
(* a snapshot edition's set is attached package by package.                 *)
Sells(e) == IF e \in Frozen THEN members[SetOf[e]] ELSE {SetOf[e]}
AttachSet(e, onEdge) == [i \in Sells(e) |-> IF onEdge THEN Template(e) ELSE Free]

Minted(k, e, o, account) ==
    LET own == IF account THEN Free ELSE Template(e)
        attached == AttachSet(e, account)
    IN  /\ key[k] = NoKey
        /\ key' = [key EXCEPT ![k] = [status |-> "active", edition |-> e, order |-> o, own |-> own]]
        /\ edge' = [edge EXCEPT ![k] = attached]
        /\ bought' = [bought EXCEPT ![k] = [i \in DOMAIN attached |-> Resolved(attached[i], own)]]

(* license_id_for_idempotency: the key already issued for this order.       *)
IdempotencyHit(o, e) == {k \in Keys : Exists(k) /\ key[k].order = o /\ key[k].edition = e}

(* POST license-keys: a replay is answered with the key issued before,      *)
(* whatever became of it ...                                                *)
IssueReplayed(o, e) ==
    "token" \in admits /\ \E k \in IdempotencyHit(o, e) :
        /\ answered' = answered \union {<<o, e, k>>}
        /\ UNCHANGED <<shop, key, edge, ledger, call, extended, bought, spoiled>>

(* ... anything else goes on to mint one ...                                *)
IssueRequest(c, o, e, account) ==
    /\ call[c] = Idle /\ "token" \in admits
    /\ IdempotencyHit(o, e) = {}
    /\ Goes(c, [at |-> "issue", edition |-> e, order |-> o, account |-> account])
    /\ UNCHANGED <<shop, key, edge, ledger, answered, extended, bought, spoiled>>

(* ... unless the edition is inactive by now ...                            *)
IssueRefused(c) ==
    /\ call[c].at = "issue"
    /\ call[c].edition \notin onSale
    /\ Goes(c, Idle)
    /\ UNCHANGED <<shop, key, edge, ledger, answered, extended, bought, spoiled>>

(* ... or the unique index on (repo, edition, idempotency_key) says that    *)
(* another call was faster: the transaction rolls back and its key is the   *)
(* answer ...                                                               *)
IssueResolved(c) ==
    /\ call[c].at = "issue"
    /\ call[c].edition \in onSale
    /\ \E k \in IdempotencyHit(call[c].order, call[c].edition) :
          answered' = answered \union {<<call[c].order, call[c].edition, k>>}
    /\ Goes(c, Idle)
    /\ UNCHANGED <<shop, key, edge, ledger, extended, bought, spoiled>>

(* Mutant of Mint: no unique index.                                         *)
Mint_NoIndex(c, k) ==
    /\ call[c].at = "issue"
    /\ call[c].edition \in onSale
    /\ Minted(k, call[c].edition, call[c].order, call[c].account)
    /\ answered' = answered \union {<<call[c].order, call[c].edition, k>>}
    /\ Goes(c, Idle)
    /\ UNCHANGED <<shop, ledger, extended, spoiled>>

(* ... else the key is minted and the edition's set attached.               *)
Mint(c, k) ==
    /\ call[c].at = "issue"
    /\ call[c].edition \in onSale
    /\ IdempotencyHit(call[c].order, call[c].edition) = {}
    /\ Minted(k, call[c].edition, call[c].order, call[c].account)
    /\ answered' = answered \union {<<call[c].order, call[c].edition, k>>}
    /\ Goes(c, Idle)
    /\ UNCHANGED <<shop, ledger, extended, spoiled>>

(* issue_from_edition without an order: never an account key.               *)
IssueFromEdition(k, e) ==
    /\ Operator
    /\ e \in onSale
    /\ Minted(k, e, None, FALSE)
    /\ UNCHANGED <<now, admits, onSale, members, ledger, call, answered, extended, spoiled>>

(* issue_license: chosen packages, unbounded, of no   *)
(* edition; all of them or none.                                            *)
IssueLicense(k, chosen) ==
    /\ Operator
    /\ key[k] = NoKey
    /\ key' = [key EXCEPT ![k] = [NoKey EXCEPT !.status = "active"]]
    /\ edge' = [edge EXCEPT ![k] = [p \in chosen |-> Free]]
    /\ bought' = [bought EXCEPT ![k] = [p \in chosen |-> Free]]
    /\ UNCHANGED <<now, admits, onSale, members, ledger, call, answered, extended, spoiled>>

-----------------------------------------------------------------------------
(* Accumulating: add_edition_to_license takes an active, unbounded key and  *)
(* an active edition that is no snapshot ...                                *)
AddCheck(c, k, e) ==
    /\ call[c] = Idle
    /\ Active(k) /\ Unbounded(k)
    /\ e \in onSale \ Frozen
    /\ Goes(c, [at |-> "add", key |-> k, edition |-> e])
    /\ UNCHANGED <<shop, key, edge, ledger, answered, extended, bought, spoiled>>

(* ... and attaches its set; an edge that is there already stays as it is,  *)
(* and the answer tells its bound.                                          *)
AddAttach(c) ==
    LET k == call[c].key
        e == call[c].edition
        s == SetOf[e]
    IN  /\ call[c].at = "add"
        /\ edge' = [edge EXCEPT ![k] = Attached(@, [i \in {s} |-> Template(e)])]
        /\ bought' = [bought EXCEPT ![k] = UnionOf(@, [i \in {s} |-> edge'[k][s]])]
        /\ spoiled' = spoiled \union {q \in {k} : ~ (Active(k) /\ Unbounded(k))}
        /\ Goes(c, Idle)
        /\ UNCHANGED <<shop, key, ledger, answered, extended>>

(* DELETE editions/{edition}: a refund; the key stays active, and what a    *)
(* snapshot edition froze stays on it.                                      *)
RemoveEdition(k, e) ==
    /\ Exists(k)
    /\ SetOf[e] \in DOMAIN edge[k]
    /\ edge' = [edge EXCEPT ![k] = Without(@, {SetOf[e]})]
    /\ bought' = [bought EXCEPT ![k] = Without(@, {SetOf[e]})]
    /\ UNCHANGED <<shop, key, ledger, call, answered, extended, spoiled>>

-----------------------------------------------------------------------------
(* Mutant of Materialized: the edges are copied as they are.                *)
Materialized_Verbatim(k) == edge[k]

(* The edges of a key with the bounds they inherit from it.                 *)
Materialized(k) == [i \in DOMAIN edge[k] |-> Resolved(edge[k][i], key[k].own)]

(* Merging: the source is active, the target another active, unbounded key, *)
(* and the source's edges are read with the bounds they inherit (a          *)
(* statement after the checks; a change between them changes nothing that   *)
(* one before or after both does not) ...                                   *)
MergeRead(c, source, target) ==
    /\ call[c] = Idle
    /\ source # target
    /\ Active(source)
    /\ Active(target) /\ Unbounded(target)
    /\ Goes(c, [at |-> "merge", source |-> source, target |-> target,
                copy |-> Materialized(source)])
    /\ UNCHANGED <<shop, key, edge, ledger, answered, extended, bought, spoiled>>

(* ... joined with the target's, rows that stay locked from the copy to the *)
(* end, and the source is revoked, whatever either has become.              *)
MergeCommit(c) ==
    LET s == call[c].source
        t == call[c].target
        asChecked == /\ Active(s) /\ call[c].copy = Materialized(s)
                     /\ Active(t) /\ Unbounded(t)
    IN  /\ call[c].at = "merge"
        /\ edge' = [edge EXCEPT ![t] = UnionOf(@, call[c].copy)]
        /\ key' = [key EXCEPT ![s].status = "revoked"]
        /\ bought' = [bought EXCEPT ![t] = UnionOf(@, bought[s]), ![s] = <<>>]
        /\ spoiled' = spoiled \union {k \in {t} : ~ asChecked \/ s \in spoiled}
        /\ Goes(c, Idle)
        /\ UNCHANGED <<shop, ledger, answered, extended>>

-----------------------------------------------------------------------------
(* Renewing.  A renewal with an order goes into the ledger first; one that  *)
(* is there already changes nothing more.                                   *)
Fresh(k, o) == o = None \/ <<k, o>> \notin ledger

Recorded(k, o) == ledger' = ledger \union {x \in {<<k, o>>} : o # None}

Counted(k, o) == extended' = IF o = None THEN extended
                             ELSE [extended EXCEPT ![<<k, o>>] = @ + 1]

(* greatest(update_until, now()) + period, and PostgreSQL's greatest skips  *)
(* nulls.                                                                   *)
Later(until) == (IF until # None /\ until > now THEN until ELSE now) + Period

Renewable(k) == Active(k) /\ key[k].edition # None /\ Kind[key[k].edition] = "time"

(* Mutant of RenewLicense: the ledger is not asked.                         *)
RenewLicense_Unrecorded(k, o) ==
    /\ Renewable(k)
    /\ Later(key[k].own.until) <= MaxUntil
    /\ Recorded(k, o) /\ Counted(k, o)
    /\ key' = [key EXCEPT ![k].own.until = Later(@)]
    /\ bought' = bought
    /\ spoiled' = spoiled \union {q \in {k} : key[k].own.until = None}
    /\ UNCHANGED <<shop, edge, call, answered>>

(* POST renew: the key's own bound is extended by the period of the edition *)
(* it was issued from: from nothing, too, which bounds an account key.      *)
RenewLicense(k, o) ==
    /\ Fresh(k, o) /\ Renewable(k)
    /\ Later(key[k].own.until) <= MaxUntil
    /\ Recorded(k, o) /\ Counted(k, o)
    /\ key' = [key EXCEPT ![k].own.until = Later(@)]
    /\ bought' = [bought EXCEPT ![k] = [i \in DOMAIN @ |->
                     IF i \in DOMAIN edge[k] /\ key[k].own.until # None
                     THEN Joined(@[i], Resolved(edge[k][i], key'[k].own)) ELSE @[i]]]
    /\ spoiled' = spoiled \union {q \in {k} : key[k].own.until = None}
    /\ UNCHANGED <<shop, edge, call, answered>>

(* POST editions/{edition}/renew: an edge with a bound of its own, of a     *)
(* time edition, whichever edition put it there.                            *)
EdgeRenewable(k, e) ==
    /\ Active(k) /\ Kind[e] = "time"
    /\ SetOf[e] \in DOMAIN edge[k] /\ edge[k][SetOf[e]].until # None

RenewEdition(k, e, o) ==
    LET s == SetOf[e] IN
    /\ Fresh(k, o) /\ EdgeRenewable(k, e)
    /\ Later(edge[k][s].until) <= MaxUntil
    /\ Recorded(k, o) /\ Counted(k, o)
    /\ edge' = [edge EXCEPT ![k][s].until = Later(@)]
    /\ bought' = [bought EXCEPT ![k] = [i \in DOMAIN @ |->
                     IF i = s THEN Joined(@[i], Resolved(edge'[k][s], key[k].own)) ELSE @[i]]]
    /\ UNCHANGED <<shop, key, call, answered, spoiled>>

(* Either renewal of what cannot be renewed is refused, but its order stays *)
(* in the ledger.                                                           *)
RenewRefused(k, o, renewable) ==
    /\ Exists(k) /\ Fresh(k, o) /\ o # None
    /\ ~ renewable
    /\ Recorded(k, o)
    /\ UNCHANGED <<shop, key, edge, call, answered, extended, bought, spoiled>>

-----------------------------------------------------------------------------
(* What the operator may do to a key at any time; the buyer keeps what is   *)
(* left.                                                                    *)
Revoke(k) ==
    /\ Operator
    /\ Active(k)
    /\ key' = [key EXCEPT ![k].status = "revoked"]
    /\ bought' = [bought EXCEPT ![k] = <<>>]
    /\ UNCHANGED <<now, admits, onSale, members, edge, ledger, call, answered, extended, spoiled>>

(* The bound form: any key of the repository, whatever its status.          *)
SetLicenseBound(k, b) ==
    /\ Operator
    /\ Exists(k)
    /\ key' = [key EXCEPT ![k].own = b]
    /\ bought' = [bought EXCEPT ![k] = [i \in DOMAIN @ \intersect DOMAIN edge[k] |->
                                           Resolved(edge[k][i], b)]]
    /\ UNCHANGED <<now, admits, onSale, members, edge, ledger, call, answered, extended, spoiled>>

(* The set form: by reference and without a bound.                          *)
EntitleSet(k, s) ==
    /\ Operator
    /\ Exists(k)
    /\ edge' = [edge EXCEPT ![k] = Attached(@, [i \in {s} |-> Free])]
    /\ UNCHANGED <<now, admits, onSale, members, key, ledger, call, answered, extended, bought, spoiled>>

RemoveSetEntitlement(k, s) ==
    /\ Operator
    /\ s \in DOMAIN edge[k]
    /\ edge' = [edge EXCEPT ![k] = Without(@, {s})]
    /\ bought' = [bought EXCEPT ![k] = Without(@, {s})]
    /\ UNCHANGED <<now, admits, onSale, members, key, ledger, call, answered, extended, spoiled>>

-----------------------------------------------------------------------------
(* The editions and sets.                                                   *)
SetEditionActive(e, active) ==
    /\ Operator
    /\ onSale' = IF active THEN onSale \union {e} ELSE onSale \ {e}
    /\ UNCHANGED <<now, admits, members, key, edge, ledger, call, answered, extended, bought, spoiled>>

(* An explicit member, or the packages a rule matches, come and go.         *)
AddSetMember(s, p) ==
    /\ Operator
    /\ members' = [members EXCEPT ![s] = @ \union {p}]
    /\ UNCHANGED <<now, admits, onSale, key, edge, ledger, call, answered, extended, bought, spoiled>>

RemoveSetMember(s, p) ==
    /\ Operator
    /\ members' = [members EXCEPT ![s] = @ \ {p}]
    /\ UNCHANGED <<now, admits, onSale, key, edge, ledger, call, answered, extended, bought, spoiled>>

(* Deleting a set takes the edges to it along; an edition's set stays.      *)
DeleteSet(s) ==
    /\ Operator
    /\ \A e \in Editions : SetOf[e] # s
    /\ members' = [members EXCEPT ![s] = {}]
    /\ edge' = [k \in Keys |-> Without(edge[k], {s})]
    /\ bought' = [k \in Keys |-> Without(bought[k], {s})]
    /\ UNCHANGED <<now, admits, onSale, key, ledger, call, answered, extended, spoiled>>

Tick ==
    /\ Operator
    /\ now < Horizon
    /\ now' = now + 1
    /\ UNCHANGED <<admits, onSale, members, key, edge, ledger, call, answered, extended, bought, spoiled>>

(* A call dies, or finds that a foreign key is gone: nothing is written.    *)
Drop(c) ==
    /\ call[c] # Idle
    /\ Goes(c, Idle)
    /\ UNCHANGED <<shop, key, edge, ledger, answered, extended, bought, spoiled>>

-----------------------------------------------------------------------------
(* The handlers: those of the management API ask the service token before   *)
(* anything else, those of the console that the user administers the        *)
(* repository; the command line asks nobody.                                *)
Api   == "token" \in admits
Admin == "admin" \in admits

PostEditions(c, k, e)      == Api /\ AddCheck(c, k, e)
DeleteEdition(k, e)        == Api /\ RemoveEdition(k, e)
PostRenew(k, o)            == Api /\ (RenewLicense(k, o) \/ RenewRefused(k, o, Renewable(k)))
PostEditionRenew(k, e, o)  == Api /\ (RenewEdition(k, e, o) \/ RenewRefused(k, o, EdgeRenewable(k, e)))
PostMerge(c, s, t)         == Api /\ MergeRead(c, s, t)
DeleteLicense(k)           == Api /\ Revoke(k)

LicenseForm(k, chosen)     == Admin /\ IssueLicense(k, chosen)
LicenseCreate(k, chosen)   == IssueLicense(k, chosen)
IssueEditionForm(k, e)     == Admin /\ IssueFromEdition(k, e)
LicenseIssue(k, e)         == IssueFromEdition(k, e)
LicenseBoundForm(k, b)     == Admin /\ SetLicenseBound(k, b)
EntitleSetForm(k, s)       == Admin /\ EntitleSet(k, s)
RemoveSetForm(k, s)        == Admin /\ RemoveSetEntitlement(k, s)
MergeForm(c, s, t)         == Admin /\ MergeRead(c, s, t)
DeactivateForm(e)          == Admin /\ SetEditionActive(e, FALSE)
EditionDeactivate(e)       == SetEditionActive(e, FALSE)
AddMemberForm(s, p)        == Admin /\ AddSetMember(s, p)
RemoveMemberForm(s, p)     == Admin /\ RemoveSetMember(s, p)
DeleteSetForm(s)           == Admin /\ DeleteSet(s)

(* A service token is revoked or expires, an administrator's role ends:     *)
(* calls that were let in go on.                                            *)
ShutOut(who) ==
    /\ Operator
    /\ admits' = admits \ {who}
    /\ UNCHANGED <<now, onSale, members, key, edge, ledger, call, answered, extended, bought, spoiled>>

-----------------------------------------------------------------------------
CallStep(c) ==
    \/ \E o \in Orders, e \in Editions, account \in BOOLEAN : IssueRequest(c, o, e, account)
    \/ \E k \in Keys : Mint(c, k)
    \/ IssueRefused(c)
    \/ IssueResolved(c)
    \/ \E k \in Keys, e \in Editions : PostEditions(c, k, e)
    \/ AddAttach(c)
    \/ \E s, t \in Keys : PostMerge(c, s, t)
    \/ \E s, t \in Keys : MergeForm(c, s, t)
    \/ MergeCommit(c)
    \/ Drop(c)

KeyStep(k) ==
    \/ \E e \in Editions : IssueEditionForm(k, e)
    \/ \E e \in Editions : LicenseIssue(k, e)
    \/ \E chosen \in SUBSET Packages : LicenseForm(k, chosen)
    \/ \E chosen \in SUBSET Packages : LicenseCreate(k, chosen)
    \/ \E e \in Editions : DeleteEdition(k, e)
    \/ \E o \in Orders \union {None} : PostRenew(k, o)
    \/ \E o \in Orders \union {None}, e \in Editions : PostEditionRenew(k, e, o)
    \/ DeleteLicense(k)
    \/ \E b \in OperatorBounds : LicenseBoundForm(k, b)
    \/ \E s \in Sets : EntitleSetForm(k, s)
    \/ \E s \in Sets : RemoveSetForm(k, s)

CatalogStep ==
    \/ \E e \in Editions : DeactivateForm(e)
    \/ \E e \in Editions : EditionDeactivate(e)
    \/ \E s \in Sets, p \in Packages : AddMemberForm(s, p)
    \/ \E s \in Sets, p \in Packages : RemoveMemberForm(s, p)
    \/ \E s \in Sets : DeleteSetForm(s)
    \/ \E who \in {"token", "admin"} : ShutOut(who)

Next ==
    \/ \E o \in Orders, e \in Editions : IssueReplayed(o, e)
    \/ \E c \in Calls : CallStep(c)
    \/ \E k \in Keys : KeyStep(k)
    \/ CatalogStep
    \/ Tick

Spec == Init /\ [][Next]_vars

-----------------------------------------------------------------------------
(* A commerce webhook is delivered more than once, and two deliveries may   *)
(* overlap: an order buys each of its editions one key, every answer names  *)
(* it, and it is that edition's.                                            *)
OneLicensePerOrder ==
    /\ \A x, y \in answered : x[1] = y[1] /\ x[2] = y[2] => x[3] = y[3]
    /\ \A x \in answered : key[x[3]].order = x[1] /\ key[x[3]].edition = x[2]

(* One paid renewal extends a key once, whether it is asked of the key, of  *)
(* one of its editions or of both, and however often it is delivered.       *)
OneExtensionPerRenewal ==
    \A x \in Keys \X Orders : extended[x] <= 1 /\ (extended[x] = 1 => x \in ledger)

(* What a buyer was told a key holds, the key opens to at least that bound, *)
(* through every addition, renewal, merge and change of the sets, as long   *)
(* as the operator takes nothing away; unless a call wrote on what another  *)
(* had changed since it looked, or an unbounded key was renewed whole.      *)
LossNeedsRace ==
    \A k \in Keys \ spoiled : \A i \in DOMAIN bought[k] : \A p \in Stands(i) :
        Serves(k, p, bought[k][i])

(* A merge that nothing overtook leaves the target opening what either key  *)
(* opened, each package to the more permissive bound, and no further: an    *)
(* inherited bound is not lost on the way to an unbounded key.              *)
MergeJoins ==
    [][\A c \in Calls, s, t \in Keys :
          (/\ call[c].at = "merge" /\ call[c].source = s /\ call[c].target = t
           /\ {s, t} \intersect spoiled' = {} /\ MergeCommit(c)) =>
              /\ Unlocks(t)' = Unlocks(s) \union Unlocks(t)
              /\ \A p \in Unlocks(s) \union Unlocks(t) :
                    Effective(t, p)' =
                       CASE p \notin Unlocks(s) -> Effective(t, p)
                         [] p \notin Unlocks(t) -> Effective(s, p)
                         [] OTHER -> Joined(Effective(s, p), Effective(t, p))]_vars

(* "extend the time bound by the edition's period" (api.rs:272): a renewal  *)
(* never takes anything away.                                               *)
RenewalOnlyExtends ==
    [][\A k \in Keys, o \in Orders \union {None} : RenewLicense(k, o) =>
          \A p \in Unlocks(k) : Wider(Effective(k, p)', Effective(k, p))]_vars
=============================================================================
