---------------------------- MODULE VersionStore ----------------------------
(***************************************************************************)
(* What publishing promises its clients, whatever happens in the server:   *)
(* a version is given bytes once and keeps them as long as its repository  *)
(* exists, and whoever gets an answer could have got it from a server that *)
(* handles one request at a time, at the moment of its decision.           *)
(***************************************************************************)
CONSTANTS
    Clients,    \* requests being handled at once
    Targets,    \* what is published: versions, and channels
    Versions,   \* the targets that take one content only
    Contents,   \* what a target may be given
    Refused,    \* what an upload that is no package amounts to
    Nobody      \* the target of a client that has asked for nothing

VARIABLES
    given,      \* the contents each target has been given
    wish,       \* what each client has asked to publish
    told,       \* what each client has been answered
    open        \* the repository exists

storeVars == <<given, wish, told, open>>

Wishes == [target : Targets, content : Contents \union {Refused}]
NoWish == [target |-> Nobody, content |-> Refused]

StoreInit ==
    /\ given = [t \in Targets |-> {}]
    /\ wish = [q \in Clients |-> NoWish]
    /\ told = [q \in Clients |-> "none"]
    /\ open = TRUE

(* A client asks.                                                           *)
Ask(q) ==
    /\ wish[q] = NoWish
    /\ UNCHANGED <<given, told, open>>
    /\ \E w \in Wishes : wish' = [wish EXCEPT ![q] = w]

(* What it asked for is new, and is stored.                                 *)
Create(q) ==
    LET t == wish[q].target IN
    /\ told[q] = "none"
    /\ open
    /\ wish[q].content \in Contents
    /\ t \in Versions => given[t] = {}
    /\ given' = [given EXCEPT ![t] = @ \union {wish[q].content}]
    /\ told' = [told EXCEPT ![q] = "created"]
    /\ UNCHANGED <<wish, open>>

(* The version has these very bytes.                                        *)
Confirm(q) ==
    /\ told[q] = "none"
    /\ wish[q].target \in Versions
    /\ wish[q].content \in given[wish[q].target]
    /\ told' = [told EXCEPT ![q] = "exists"]
    /\ UNCHANGED <<given, wish, open>>

(* The version has other bytes, or the repository is going.                 *)
Decline(q) ==
    /\ told[q] = "none"
    /\ wish[q].target \in Versions
    /\ wish[q].content \notin given[wish[q].target]
    /\ open => given[wish[q].target] # {}
    /\ told' = [told EXCEPT ![q] = "conflict"]
    /\ UNCHANGED <<given, wish, open>>

(* The client has its answer, or its request ended without one.             *)
Leave(q) ==
    /\ wish' = [wish EXCEPT ![q] = NoWish]
    /\ told' = [told EXCEPT ![q] = "none"]
    /\ UNCHANGED <<given, open>>

(* The repository is deleted, and all it was given with it.                 *)
Close ==
    /\ open
    /\ open' = FALSE
    /\ given' = [t \in Targets |-> {}]
    /\ UNCHANGED <<wish, told>>

StoreNext ==
    \/ \E q \in Clients : Ask(q) \/ Create(q) \/ Confirm(q) \/ Decline(q) \/ Leave(q)
    \/ Close

StoreSpec == StoreInit /\ [][StoreNext]_storeVars
=============================================================================
