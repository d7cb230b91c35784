-------------------------------- MODULE Editions --------------------------------
(***************************************************************************)
(* What an organisation may sell: its plan (org_entitlements), its package *)
(* sets, and the editions counted against max_skus.  An edition is created *)
(* or switched on in a transaction that takes the organisation's advisory  *)
(* lock, reads the cap on a second connection of the same pool, counts and *)
(* writes.  The pool has so many connections; who gets none in time fails. *)
(***************************************************************************)
EXTENDS Integers, FiniteSets

CONSTANTS
    Skus,           \* bound: editions that can be created
    Products,       \* packages of the organisation; each may name a set
    SetNames,       \* names of package sets, the products among them
    Caps,           \* values of max_skus a plan may have
    Sellers,        \* requests in flight
    PoolSizes,      \* connections a server's pool may have
    MaxSales,       \* bound: requests served
    NoCap

ASSUME EditionsAssumption ==
    /\ PoolSizes \subseteq Nat \ {0} /\ MaxSales \in Nat
    /\ Caps \subseteq Nat /\ NoCap \notin Caps /\ NoCap \notin Sellers
    /\ IsFiniteSet(Skus) /\ "new" \notin Skus
    /\ Products \subseteq SetNames

VARIABLES
    plan,       \* org_entitlements: max_skus and whether agency grants are allowed
    skus,       \* editions
    sets,       \* package_sets by name: members, and whether there is a rule
    pool,       \* connections of the pool
    lockedBy,   \* holder of pg_advisory_xact_lock
    sale, sales,
    edited,     \* history: requests during which their set was changed
    odd         \* history: single-product editions made with more in the set

editions == <<plan, skus, sets, pool, lockedBy, sale, sales, edited, odd>>

Fits(n, cap) == IF cap = NoCap THEN TRUE ELSE n =< cap

Unlimited == [explicit |-> FALSE, cap |-> NoCap, features |-> {"agency", "sso", "scim"}]
NoSet     == [exists |-> FALSE, members |-> {}, rule |-> FALSE]
Off       == [at |-> "off"]

-----------------------------------------------------------------------------
(* Queries.                                                                 *)

Entitlements == plan

ActiveEditions        == {e \in skus : e.active}
CountActiveEditions   == Cardinality(ActiveEditions)
ListPackageSets       == {n \in SetNames : sets[n].exists}
SetMembers(n)         == sets[n].members
SetRules(n)           == sets[n].rule

IsSingleton(n, p) == ~ sets[n].rule /\ sets[n].members \subseteq {p}

(* Who holds a connection, and whether a query can have one.                *)
InUse     == {c \in Sellers : sale[c].at \in {"begun", "locked", "capped", "write"}}
Connection == Cardinality(InUse) < pool

-----------------------------------------------------------------------------
EditionsInit ==
    /\ plan \in {Unlimited} \union {[explicit |-> TRUE, cap |-> n, features |-> {}] : n \in Caps}
    /\ \E on \in SUBSET Skus :
        /\ Cardinality(on) =< 1 /\ Fits(Cardinality(on), plan.cap)
        /\ \E n \in SetNames, active \in BOOLEAN :
            /\ skus = {[id |-> i, set |-> n, active |-> active] : i \in on}
            /\ sets = [m \in SetNames |->
                        IF m = n THEN [exists |-> TRUE, members |-> {}, rule |-> FALSE] ELSE NoSet]
    /\ pool \in PoolSizes /\ lockedBy = NoCap
    /\ sale = [c \in Sellers |-> Off] /\ sales = 0
    /\ edited = {} /\ odd = {}

Opens(c, r) ==
    /\ sale[c] = Off /\ sales < MaxSales
    /\ sales' = sales + 1
    /\ sale'  = [sale EXCEPT ![c] = r]

Moves(c, r) == sale' = [sale EXCEPT ![c] = r] /\ UNCHANGED sales
Ends(c)     == Moves(c, Off)

Catalogue == <<plan, skus, sets, edited, odd>>

(* Requests about the set that was changed.                                 *)
Edits(n) ==
    edited' = (edited \intersect {c \in Sellers : sale[c] # Off})
                \union {c \in Sellers : sale[c].at \notin {"off", "switch"} /\ sale[c].set = n}

-----------------------------------------------------------------------------
(* The target of a new edition: a chosen set, or the set of one product,    *)
(* found or made in three statements.                                       *)

ChooseSet(c) ==
    \E n \in ListPackageSets :
        /\ Opens(c, [at |-> "target", set |-> n, only |-> {}])
        /\ UNCHANGED <<Catalogue, lockedBy>>

SingletonFind(c) ==
    \E p \in Products :
        /\ sets[p].exists => IsSingleton(p, p)
        /\ Opens(c, [at |-> IF sets[p].exists THEN "member" ELSE "make", set |-> p, only |-> {p}])
        /\ edited' = edited \ {c}
        /\ UNCHANGED <<plan, skus, sets, odd, lockedBy>>

(* The name is unique: whoever comes second fails.                          *)
SingletonMake(c) ==
    /\ sale[c].at = "make"
    /\ IF sets[sale[c].set].exists
       THEN Ends(c) /\ UNCHANGED Catalogue
       ELSE /\ sets' = [sets EXCEPT ![sale[c].set] = [NoSet EXCEPT !.exists = TRUE]]
            /\ Moves(c, [sale[c] EXCEPT !.at = "member"])
            /\ UNCHANGED <<plan, skus, edited, odd>>
    /\ UNCHANGED lockedBy

SingletonMember(c) ==
    /\ sale[c].at = "member"
    /\ IF ~ sets[sale[c].set].exists
       THEN Ends(c) /\ UNCHANGED sets
       ELSE /\ sets' = [sets EXCEPT ![sale[c].set].members = @ \union sale[c].only]
            /\ Moves(c, [sale[c] EXCEPT !.at = "target"])
    /\ UNCHANGED <<plan, skus, edited, odd, lockedBy>>

-----------------------------------------------------------------------------
(* The transaction that makes one more edition active.                      *)

ReactivateOpen(c) ==
    \E e \in skus :
        /\ Opens(c, [at |-> "switch", sku |-> e.id])
        /\ UNCHANGED <<Catalogue, lockedBy>>

Begin(c) ==
    /\ sale[c].at \in {"target", "switch"} /\ Connection
    /\ Moves(c, IF sale[c].at = "target"
                THEN [at |-> "begun", sku |-> "new", set |-> sale[c].set, only |-> sale[c].only]
                ELSE [at |-> "begun", sku |-> sale[c].sku, set |-> "none", only |-> {}])
    /\ UNCHANGED <<Catalogue, lockedBy>>

TakeLock(c) ==
    /\ sale[c].at = "begun" /\ lockedBy = NoCap
    /\ lockedBy' = c
    /\ Moves(c, [sale[c] EXCEPT !.at = "locked"])
    /\ UNCHANGED Catalogue

(* A commit or a rollback gives back the lock and the connection.           *)
Unlock(c) == lockedBy' = IF lockedBy = c THEN NoCap ELSE lockedBy

(* The plan is read on a connection of its own.                             *)
ReadCap(c) ==
    /\ sale[c].at = "locked" /\ Connection
    /\ LET w == sale[c] IN
        Moves(c, [at |-> "capped", sku |-> w.sku, set |-> w.set, only |-> w.only,
                  cap |-> Entitlements.cap])
    /\ UNCHANGED <<Catalogue, lockedBy>>

Counts(id) == Cardinality({e \in ActiveEditions : e.id # id})

(* Mutant of Refuse: the refused transaction is left open.                  *)
Refuse_Leaks(c) ==
    /\ sale[c].at = "capped"
    /\ ~ Fits(Counts(sale[c].sku) + 1, sale[c].cap)
    /\ Ends(c)
    /\ UNCHANGED <<Catalogue, lockedBy>>

Refuse(c) ==
    /\ sale[c].at = "capped"
    /\ ~ Fits(Counts(sale[c].sku) + 1, sale[c].cap)
    /\ Unlock(c) /\ Ends(c)
    /\ UNCHANGED Catalogue

(* Mutant of RequireSkuCapacity: the one that is added is not counted.      *)
RequireSkuCapacity_OffByOne(c) ==
    /\ sale[c].at = "capped"
    /\ Fits(Counts(sale[c].sku), sale[c].cap)
    /\ Moves(c, [sale[c] EXCEPT !.at = "write"])
    /\ UNCHANGED <<Catalogue, lockedBy>>

RequireSkuCapacity(c) ==
    /\ sale[c].at = "capped"
    /\ Fits(Counts(sale[c].sku) + 1, sale[c].cap)
    /\ Moves(c, [sale[c] EXCEPT !.at = "write"])
    /\ UNCHANGED <<Catalogue, lockedBy>>

(* The set must still be there.                                             *)
CreateEdition(c) ==
    /\ sale[c].at = "write" /\ sale[c].sku = "new"
    /\ LET w == sale[c] IN
        IF ~ sets[w.set].exists THEN UNCHANGED <<skus, odd>>
        ELSE \E i \in Skus \ {e.id : e \in skus} :
                /\ skus' = skus \union {[id |-> i, set |-> w.set, active |-> TRUE]}
                /\ odd'  = IF w.only # {} /\ ~ IsSingleton(w.set, CHOOSE p \in w.only : TRUE)
                              /\ c \notin edited
                           THEN odd \union {i} ELSE odd
    /\ Unlock(c) /\ Ends(c)
    /\ UNCHANGED <<plan, sets, edited>>

ReactivateEdition(c) ==
    /\ sale[c].at = "write" /\ sale[c].sku # "new"
    /\ skus' = {IF e.id = sale[c].sku THEN [e EXCEPT !.active = TRUE] ELSE e : e \in skus}
    /\ Unlock(c) /\ Ends(c)
    /\ UNCHANGED <<plan, sets, edited, odd>>

(* No connection in time, waiting for the first or for the second.          *)
PoolTimedOut(c) ==
    /\ sale[c].at \in {"target", "switch", "locked"} /\ ~ Connection
    /\ Unlock(c) /\ Ends(c)
    /\ UNCHANGED Catalogue

-----------------------------------------------------------------------------
(* What takes no lock.                                                      *)

DeactivateEdition(c) ==
    \E e \in skus :
        /\ Opens(c, Off)
        /\ skus' = (skus \ {e}) \union {[e EXCEPT !.active = FALSE]}
        /\ UNCHANGED <<plan, sets, lockedBy, edited, odd>>

DeleteEdition(c) ==
    \E e \in skus :
        /\ Opens(c, Off)
        /\ skus' = skus \ {e}
        /\ UNCHANGED <<plan, sets, lockedBy, edited, odd>>

SetOrgEntitlements(c) ==
    \E n \in Caps \union {NoCap} :
        /\ Opens(c, Off)
        /\ plan' = [explicit |-> TRUE, cap |-> n, features |-> {}]
        /\ UNCHANGED <<skus, sets, lockedBy, edited, odd>>

ClearOrgEntitlements(c) ==
    /\ Opens(c, Off)
    /\ plan' = Unlimited
    /\ UNCHANGED <<skus, sets, lockedBy, edited, odd>>

CreatePackageSet(c) ==
    \E n \in SetNames :
        /\ ~ sets[n].exists
        /\ Opens(c, Off)
        /\ sets' = [sets EXCEPT ![n] = [NoSet EXCEPT !.exists = TRUE]]
        /\ Edits(n)
        /\ UNCHANGED <<plan, skus, lockedBy, odd>>

(* Refused while an edition sells it.                                       *)
DeletePackageSet(c) ==
    \E n \in ListPackageSets :
        /\ \A e \in skus : e.set # n
        /\ Opens(c, Off)
        /\ sets' = [sets EXCEPT ![n] = NoSet]
        /\ Edits(n)
        /\ UNCHANGED <<plan, skus, lockedBy, odd>>

AddSetMember(c) ==
    \E n \in ListPackageSets, p \in Products :
        /\ Opens(c, Off)
        /\ sets' = [sets EXCEPT ![n].members = @ \union {p}]
        /\ Edits(n)
        /\ UNCHANGED <<plan, skus, lockedBy, odd>>

RemoveSetMember(c) ==
    \E n \in ListPackageSets : \E p \in SetMembers(n) :
        /\ Opens(c, Off)
        /\ sets' = [sets EXCEPT ![n].members = @ \ {p}]
        /\ Edits(n)
        /\ UNCHANGED <<plan, skus, lockedBy, odd>>

AddSetRule(c) ==
    \E n \in ListPackageSets :
        /\ Opens(c, Off)
        /\ sets' = [sets EXCEPT ![n].rule = TRUE]
        /\ Edits(n)
        /\ UNCHANGED <<plan, skus, lockedBy, odd>>

RemoveSetRule(c) ==
    \E n \in ListPackageSets :
        /\ SetRules(n)
        /\ Opens(c, Off)
        /\ sets' = [sets EXCEPT ![n].rule = FALSE]
        /\ Edits(n)
        /\ UNCHANGED <<plan, skus, lockedBy, odd>>

-----------------------------------------------------------------------------
(* Commands and forms, step by step.                                        *)
SingletonSet(c)         == SingletonFind(c) \/ SingletonMake(c) \/ SingletonMember(c)
RequireSkuCapacityTx(c) == TakeLock(c) \/ ReadCap(c) \/ Refuse(c) \/ RequireSkuCapacity(c)

EditionTarget(c)        == ChooseSet(c) \/ SingletonSet(c)
EditionTransaction(c)   ==
    Begin(c) \/ RequireSkuCapacityTx(c) \/ CreateEdition(c) \/ PoolTimedOut(c)
EditionCreate(c)        == EditionTarget(c) \/ EditionTransaction(c)

SetEditionActive(c)    == ReactivateOpen(c) \/ ReactivateEdition(c) \/ DeactivateEdition(c)
EntitlementsCommand(c) == SetOrgEntitlements(c) \/ ClearOrgEntitlements(c)

EditSets(c) ==
    \/ CreatePackageSet(c) \/ DeletePackageSet(c)
    \/ AddSetMember(c) \/ RemoveSetMember(c) \/ AddSetRule(c) \/ RemoveSetRule(c)

EditionsNext ==
    /\ \E c \in Sellers :
        \/ EditionCreate(c) \/ SetEditionActive(c) \/ DeleteEdition(c)
        \/ EntitlementsCommand(c) \/ EditSets(c)
    /\ UNCHANGED pool

EditionsSpec == EditionsInit /\ [][EditionsNext]_editions

-----------------------------------------------------------------------------
(* No more connections than there are, the lock with a transaction that     *)
(* asked for it, and editions that sell sets there are.                     *)
EditionsTypes ==
    /\ pool \in PoolSizes /\ Cardinality(InUse) =< pool
    /\ lockedBy # NoCap => sale[lockedBy].at \in {"locked", "capped", "write"}
    /\ \A e \in skus : e.id \in Skus /\ sets[e.set].exists
    /\ \A d, e \in skus : d.id = e.id => d = e
    /\ plan.cap \in Caps \union {NoCap}

(* Every edition that becomes active finds room under the cap its           *)
(* transaction read, however many are created and switched on at once       *)
(* (require_sku_capacity_tx).                                               *)
CapHolds ==
    [][CountActiveEditions' > CountActiveEditions =>
        \E c \in Sellers :
            /\ sale[c].at = "write"
            /\ sale'[c] = Off
            /\ Fits(CountActiveEditions', sale[c].cap)]_editions

(* Requests wait for one another for good only when transactions waiting    *)
(* for the lock hold every connection and its holder needs one more to read *)
(* the cap: then it is the pool's timeout that frees them.                  *)
StallNeedsFullPool ==
    LET waiting == {c \in Sellers : sale[c] # Off}
        stuck   == {c \in waiting : \/ sale[c].at \in {"target", "switch", "locked"} /\ ~ Connection
                                    \/ sale[c].at = "begun" /\ lockedBy # NoCap}
    IN  waiting # {} /\ stuck = waiting => ~ Connection /\ lockedBy \in InUse

(* An edition made for one product has a set of that product alone, unless  *)
(* somebody changed the set in the meantime (singleton_set).                *)
OneProductSold == odd = {}

(* What creating and switching on editions keeps besides the cap.           *)
SalesHold == StallNeedsFullPool /\ OneProductSold
=============================================================================
