------------------------------- MODULE Members -------------------------------
(***************************************************************************)
(* Repositories made of member repositories: set_repo_members, the check   *)
(* upsert_package makes of them, and which member serves a name.           *)
(*                                                                         *)
(* set_repo_members runs in a READ COMMITTED transaction: each of its      *)
(* statements sees what is committed when it starts, its own writes are    *)
(* seen by nobody until it commits, and no row it only read is locked.     *)
(***************************************************************************)
EXTENDS Integers, Sequences, FiniteSets

CONSTANTS
    Repositories, \* repositories, all that are ever created
    OrgOf,      \* the organization of each, which never changes
    MemberNames,  \* package names
    Lists,      \* the member lists that are asked for
    Admins,     \* set_repo_members calls in flight
    Writers,    \* upsert_package calls in flight
    NoRepo, Unnamed

ASSUME MembersAssumption ==
    /\ Lists \subseteq Seq(Repositories)
    /\ \A list \in Lists : \A i, j \in DOMAIN list : list[i] = list[j] => i = j
    /\ NoRepo \notin Repositories

VARIABLES
    live,       \* repositories that exist
    owns,       \* packages: the names each repository owns
    rows,       \* repository_members: <<position, member>> of each repository
    admin,      \* where each set_repo_members is and what it has read
    writer,     \* where each upsert_package is
    raced       \* history: repositories changed between a check of them and
                \* the write that relied on it

membersVars == <<live, owns, rows, admin, writer, raced>>

MemberRow(i, list)  == <<i, list[i]>>
RowsFor(list) == {MemberRow(i, list) : i \in DOMAIN list}
AllRows       == UNION {RowsFor(list) : list \in Lists}
MembersOf(r)  == {row[2] : row \in rows[r]}

AdminPlaces  == {"idle", "nesting", "owning", "deleting", "inserting"}
IdleAdmin    == [at |-> "idle", repo |-> NoRepo, list |-> <<>>, seen |-> {}]
IdleWriter   == [at |-> "idle", repo |-> NoRepo, name |-> Unnamed]

(* Types, and the foreign keys.                                             *)
MembersTypes ==
    /\ live \subseteq Repositories
    /\ owns \in [Repositories -> SUBSET MemberNames]
    /\ rows \in [Repositories -> SUBSET AllRows]
    /\ admin \in [Admins -> [at : AdminPlaces, repo : Repositories \union {NoRepo},
                             list : Lists \union {<<>>}, seen : SUBSET AllRows]]
    /\ writer \in [Writers -> [at : {"idle", "admitted"}, repo : Repositories \union {NoRepo},
                               name : MemberNames \union {Unnamed}]]
    /\ raced \subseteq Repositories
    /\ \A r \in Repositories : rows[r] # {} => {r} \union MembersOf(r) \subseteq live
    /\ \A r \in Repositories \ live : owns[r] = {}

MembersInit ==
    /\ live = Repositories
    /\ owns = [r \in Repositories |-> {}]
    /\ rows = [r \in Repositories |-> {}]
    /\ admin = [a \in Admins |-> IdleAdmin]
    /\ writer = [w \in Writers |-> IdleWriter]
    /\ raced = {}

Listed(list) == {list[i] : i \in DOMAIN list}

-----------------------------------------------------------------------------
(* set_repo_members: an empty list is checked for nothing; any other names  *)
(* existing repositories of the same organization, not the one itself ...   *)
SetMembers(a, r, list) ==
    /\ admin[a] = IdleAdmin
    /\ list # <<>> =>
          r \notin Listed(list) /\ \A m \in Listed(list) : m \in live /\ OrgOf[m] = OrgOf[r]
    /\ admin' = [admin EXCEPT ![a] = [at |-> IF list = <<>> THEN "deleting" ELSE "nesting",
                                      repo |-> r, list |-> list, seen |-> {}]]
    /\ UNCHANGED <<live, owns, rows, writer, raced>>

(* Mutant of CheckNested: only the members are looked at, not the           *)
(* repository that is given them.                                           *)
CheckNested_MembersOnly(a) ==
    /\ admin[a].at = "nesting"
    /\ \A m \in Listed(admin[a].list) : rows[m] = {}
    /\ admin' = [admin EXCEPT ![a].at = "owning"]
    /\ UNCHANGED <<live, owns, rows, writer, raced>>

(* ... no member has members and the repository is no member ...            *)
CheckNested(a) ==
    /\ admin[a].at = "nesting"
    /\ \A m \in Listed(admin[a].list) : rows[m] = {}
    /\ \A r \in Repositories : admin[a].repo \notin MembersOf(r)
    /\ admin' = [admin EXCEPT ![a].at = "owning"]
    /\ UNCHANGED <<live, owns, rows, writer, raced>>

(* ... the repository owns no packages ...                                  *)
CheckOwns(a) ==
    /\ admin[a].at = "owning"
    /\ owns[admin[a].repo] = {}
    /\ admin' = [admin EXCEPT ![a].at = "deleting"]
    /\ UNCHANGED <<live, owns, rows, writer, raced>>

(* ... the rows it has when the DELETE starts are to go.  (The DELETE waits *)
(* for a rival that deletes the same rows; which of two rivals is first to  *)
(* commit is free either way.) ...                                          *)
DeleteMembers(a) ==
    /\ admin[a].at = "deleting"
    /\ admin' = [admin EXCEPT ![a].at = "inserting", ![a].seen = rows[admin[a].repo]]
    /\ UNCHANGED <<live, owns, rows, writer, raced>>

Remaining(a) == rows[admin[a].repo] \ admin[a].seen

(* The new rows meet the table's constraints: no row with the same position *)
(* or member, and every repository still exists.                            *)
Insertable(a) ==
    /\ \A i \in DOMAIN admin[a].list :
          ~ \E row \in Remaining(a) : row[1] = i \/ row[2] = admin[a].list[i]
    /\ admin[a].list # <<>> => {admin[a].repo} \union Listed(admin[a].list) \subseteq live

(* What commits while it was relied on: others checked that the repository  *)
(* has no members, or that a member of their list has none.                 *)
Disturbs(a) ==
    LET r == admin[a].repo
        listed == Listed(admin[a].list)
        rivals == {b \in Admins \ {a} :
                      /\ admin[b].at \in {"owning", "deleting", "inserting"}
                      /\ r \in Listed(admin[b].list) \/ admin[b].repo \in listed}
    IN  {admin[b].repo : b \in rivals} \union
        {q \in {r} : rivals # {} \/
                        \E w \in Writers : writer[w].at = "admitted" /\ writer[w].repo = r}

(* A rival that had seen the rows now replaced finds them gone: the new     *)
(* ones, equal or not, are other rows.                                      *)
Committed(a) ==
    [b \in Admins |->
        IF b = a THEN IdleAdmin
        ELSE IF admin[b].repo # admin[a].repo THEN admin[b]
        ELSE [admin[b] EXCEPT !.seen = @ \intersect Remaining(a)]]

(* ... and the new rows are inserted and all of it commits.  A rival that   *)
(* committed since the DELETE started keeps its rows: they refuse any list  *)
(* but the empty one, which then clears nothing.                            *)
CommitMembers(a) ==
    LET r == admin[a].repo IN
    /\ admin[a].at = "inserting"
    /\ Insertable(a)
    /\ rows' = [rows EXCEPT ![r] = Remaining(a) \union RowsFor(admin[a].list)]
    /\ raced' = raced \union Disturbs(a)
    /\ admin' = Committed(a)
    /\ UNCHANGED <<live, owns, writer>>

(* A check or a constraint refuses, or the call dies: nothing is written.   *)
RefuseMembers(a) ==
    /\ admin[a] # IdleAdmin
    /\ admin' = [admin EXCEPT ![a] = IdleAdmin]
    /\ UNCHANGED <<live, owns, rows, writer, raced>>

-----------------------------------------------------------------------------
(* Mutant of AdmitPackage: members are not asked about.                     *)
AdmitPackage_Any(w, r, n) ==
    /\ writer[w] = IdleWriter
    /\ r \in live
    /\ writer' = [writer EXCEPT ![w] = [at |-> "admitted", repo |-> r, name |-> n]]
    /\ UNCHANGED <<live, owns, rows, admin, raced>>

(* upsert_package, of a publish or a sync: the repository has no members    *)
(* (what it decides of the visibility is module Packages) ...               *)
AdmitPackage(w, r, n) ==
    /\ writer[w] = IdleWriter
    /\ r \in live
    /\ rows[r] = {}
    /\ writer' = [writer EXCEPT ![w] = [at |-> "admitted", repo |-> r, name |-> n]]
    /\ UNCHANGED <<live, owns, rows, admin, raced>>

(* ... and then the row is inserted, by a statement of its own.             *)
InsertPackage(w) ==
    LET r == writer[w].repo IN
    /\ writer[w].at = "admitted"
    /\ r \in live
    /\ owns' = [owns EXCEPT ![r] = @ \union {writer[w].name}]
    /\ raced' = raced \union
          {q \in {r} : \E a \in Admins : /\ admin[a].at \in {"deleting", "inserting"}
                                       /\ admin[a].repo = r /\ admin[a].list # <<>>}
    /\ writer' = [writer EXCEPT ![w] = IdleWriter]
    /\ UNCHANGED <<live, rows, admin>>

DropPackage(w) ==
    /\ writer[w].at = "admitted"
    /\ writer' = [writer EXCEPT ![w] = IdleWriter]
    /\ UNCHANGED <<live, owns, rows, admin, raced>>

(* delete_repo: its packages, its members and its memberships cascade.      *)
DeleteRepo(r) ==
    /\ r \in live
    /\ live' = live \ {r}
    /\ owns' = [owns EXCEPT ![r] = {}]
    /\ rows' = [q \in Repositories |-> IF q = r THEN {} ELSE {row \in rows[q] : row[2] # r}]
    /\ UNCHANGED <<admin, writer, raced>>

-----------------------------------------------------------------------------
MembersNext ==
    \/ \E a \in Admins :
          \/ \E r \in live, list \in Lists : SetMembers(a, r, list)
          \/ CheckNested(a)
          \/ CheckOwns(a)
          \/ DeleteMembers(a)
          \/ CommitMembers(a)
          \/ RefuseMembers(a)
    \/ \E w \in Writers :
          \/ \E r \in live, n \in MemberNames : AdmitPackage(w, r, n)
          \/ InsertPackage(w)
          \/ DropPackage(w)
    \/ \E r \in Repositories : DeleteRepo(r)

MembersSpec == MembersInit /\ [][MembersNext]_membersVars

-----------------------------------------------------------------------------
(* MEMBER_EXISTS: the repositories whose rows r serves under a name are its *)
(* own and the first member's that owns it.                                 *)
Sources(r, n) ==
    LET offers == {row \in rows[r] : n \in owns[row[2]]}
    IN  {q \in {r} : n \in owns[q]} \union
        {row[2] : row \in {row \in offers : \A other \in offers : row[1] <= other[1]}}

(* "so one package's versions never mix two sources" (migration 0060:8)     *)
(* fails only when a package was inserted, or members committed, between    *)
(* the other's check and its write.                                         *)
MixingNeedsRace ==
    \A r \in Repositories, n \in MemberNames : Cardinality(Sources(r, n)) > 1 => r \in raced

(* "One level only" (migration 0060:9, main.rs:485) fails only when two      *)
(* set_repo_members overlapped, one committing what the other had checked.  *)
NestingNeedsRace ==
    \A r \in Repositories : \A m \in MembersOf(r) : rows[m] # {} => r \in raced /\ m \in raced
=============================================================================
