-------------------------- MODULE Repositories_proofs --------------------------
(* Repositories: the visibility of their packages, their members, a request *)
(* served while the catalog changes, and a cache in front of such requests. *)
(* The safety properties of these, for any number of packages, publishes,   *)
(* syncs, declarations, lists, clients and changes.                         *)
EXTENDS Packages, Members, ReadCache, Serving, FiniteSetTheorems, TLAPS

-----------------------------------------------------------------------------
(* Packages and settings.                                                   *)

TablesOK ==
    /\ package \in [Names -> PackageRow]
    /\ settings \in Settings
    /\ said \in [Names -> Visibilities \union {"none"}]
    /\ allowed \in BOOLEAN
    /\ settings["privatePackages"] => allowed
    /\ \A n \in Names : package[n].declared <=> said[n] # "none"
    /\ DeclaredStands
    /\ PublicOnlyHolds

(* A call past its check of the settings may write private.  Past that of   *)
(* upsert_package it may also carry a private that the insert will not      *)
(* write, because the row is declared; no row is ever undeclared.           *)
CallOK(k) ==
    /\ k.at \notin {"idle", "saving"} => k.name \in Names
    /\ k.at \notin {"idle", "saving", "defaulting"} => k.visibility \in Visibilities
    /\ k.at = "inserting" /\ k.visibility = "private" => allowed \/ package[k.name].declared
    /\ k.at = "declaring" /\ k.visibility = "private" => allowed

PackagesIInv ==
    /\ TablesOK
    /\ call \in [Calls -> CallState]
    /\ \A c \in Calls : CallOK(call[c])

LEMMA IdleOK == Idle \in CallState /\ CallOK(Idle) /\ CallOK(Idle)'
BY DEF Idle, CallState, Places, Settings, Flags, CallOK

LEMMA RowType ==
    ASSUME NEW row \in PackageRow, NEW visibility \in Visibilities
    PROVE  [row EXCEPT !.visibility = visibility] \in PackageRow
<1>1. CASE row = Absent
  <2>1. [Absent EXCEPT !.visibility = visibility]
           \in [visibility : Visibilities, declared : BOOLEAN]
    BY DEF Absent
  <2>. QED
    BY <1>1, <2>1 DEF PackageRow
<1>2. CASE row \in [visibility : Visibilities, declared : BOOLEAN]
  BY <1>2 DEF PackageRow
<1>. QED
  BY <1>1, <1>2 DEF PackageRow

LEMMA PackagesInitIInv == Init => PackagesIInv
<1>. SUFFICES ASSUME Init PROVE PackagesIInv
  OBVIOUS
<1>1. TablesOK
  BY DEF Init, TablesOK, DeclaredStands, PublicOnlyHolds, Settings, Flags, Absent, PackageRow
<1>. QED
  BY <1>1, IdleOK DEF Init, PackagesIInv

-----------------------------------------------------------------------------
(* What the checks that calls have made rest on.                            *)
Keeps ==
    /\ allowed => allowed'
    /\ \A n \in Names : package[n].declared => package'[n].declared

LEMMA Moved ==
    ASSUME PackagesIInv, Keeps, TablesOK', NEW c \in Calls, NEW new \in CallState,
           call' = [call EXCEPT ![c] = new], CallOK(call[c])'
    PROVE  PackagesIInv'
<1>1. call' \in [Calls -> CallState]
  BY DEF PackagesIInv
<1>2. ASSUME NEW d \in Calls PROVE CallOK(call[d])'
  <2>1. CASE d = c
    BY <2>1
  <2>2. CASE d # c
    <3>1. call'[d] = call[d] /\ CallOK(call[d])
      BY <2>2 DEF PackagesIInv
    <3>. QED
      BY <3>1 DEF CallOK, Keeps
  <2>. QED
    BY <2>1, <2>2
<1>. QED
  BY <1>1, <1>2 DEF PackagesIInv

LEMMA Unchanged == ASSUME PackagesIInv, UNCHANGED <<package, settings, said, allowed>>
                   PROVE  TablesOK' /\ Keeps
BY DEF PackagesIInv, TablesOK, DeclaredStands, PublicOnlyHolds, Keeps

LEMMA GotoType ==
    ASSUME NEW k \in CallState, NEW place \in Places
    PROVE  [k EXCEPT !.at = place] \in CallState
BY DEF CallState

(* A call that starts with a name and, unless it will be defaulted, a       *)
(* visibility.                                                              *)
LEMMA StartIInv ==
    ASSUME PackagesIInv, NEW c \in Calls, NEW kind \in {"publish", "sync", "declare"},
           NEW n \in Names, NEW place \in {"defaulting", "upserting", "allowing", "declaring"},
           NEW visibility \in Visibilities \union {"none"}, NEW declares \in BOOLEAN,
           Start(c, kind, n, place, visibility, declares),
           place # "defaulting" => visibility # "none",
           place = "declaring" => visibility # "private",
           UNCHANGED <<package, settings, said, allowed>>
    PROVE  PackagesIInv'
<1>. DEFINE new == [Idle EXCEPT !.at = place, !.kind = kind, !.name = n,
                                !.visibility = visibility, !.declares = declares]
<1>1. new \in CallState
  BY IdleOK DEF CallState, Places
<1>2. call' = [call EXCEPT ![c] = new] /\ call'[c] = new
  BY DEF Start, PackagesIInv
<1>3. CallOK(call[c])'
  <2>1. new.at = place /\ new.name = n /\ new.visibility = visibility
    BY DEF Idle
  <2>. HIDE DEF new
  <2>. QED
    BY <1>2, <2>1 DEF CallOK
<1>. QED
  BY <1>1, <1>2, <1>3, Moved, Unchanged

(* A call that goes on to a place where, as far as CallOK says, it may be.  *)
LEMMA GotoIInv ==
    ASSUME PackagesIInv, NEW c \in Calls, NEW place \in {"checking", "inserting", "declaring"},
           call[c].at \in {"upserting", "checking", "allowing"}, Goto(c, place),
           place = "inserting" /\ call[c].visibility = "private" =>
              allowed \/ package[call[c].name].declared,
           place = "declaring" => allowed,
           UNCHANGED <<package, settings, said, allowed>>
    PROVE  PackagesIInv'
<1>1. call[c] \in CallState /\ CallOK(call[c])
  BY DEF PackagesIInv
<1>. DEFINE new == [call[c] EXCEPT !.at = place]
<1>2. new \in CallState
  BY <1>1, GotoType DEF Places
<1>3. call' = [call EXCEPT ![c] = new] /\ call'[c] = new
  BY DEF Goto, PackagesIInv
<1>4. CallOK(call[c])'
  BY <1>1, <1>3 DEF CallOK, CallState
<1>. QED
  BY <1>2, <1>3, <1>4, Moved, Unchanged

LEMMA EndIInv ==
    ASSUME PackagesIInv, NEW c \in Calls, call' = [call EXCEPT ![c] = Idle], TablesOK', Keeps
    PROVE  PackagesIInv'
<1>1. call'[c] = Idle
  BY DEF PackagesIInv
<1>2. CallOK(call[c])'
  BY <1>1, IdleOK
<1>. QED
  BY <1>2, IdleOK, Moved

-----------------------------------------------------------------------------
LEMMA SavedIInv ==
    ASSUME PackagesIInv, NEW values \in Settings, settings' = values,
           allowed' = (allowed \/ values["privatePackages"]), UNCHANGED <<package, said>>
    PROVE  TablesOK' /\ Keeps
BY DEF PackagesIInv, TablesOK, DeclaredStands, PublicOnlyHolds, Keeps

LEMMA UpsertInsertIInv ==
    ASSUME PackagesIInv, NEW c \in Calls, UpsertInsert(c)
    PROVE  PackagesIInv'
<1>. DEFINE n == call[c].name
<1>1. /\ call[c] \in CallState /\ n \in Names /\ call[c].visibility \in Visibilities
      /\ call[c].visibility = "private" => allowed \/ package[n].declared
  BY DEF PackagesIInv, CallOK, UpsertInsert
<1>2. package' \in [Names -> PackageRow]
  BY <1>1, RowType DEF PackagesIInv, TablesOK, UpsertInsert
<1>3. \A m \in Names : package'[m].declared = package[m].declared
  BY <1>1 DEF PackagesIInv, TablesOK, UpsertInsert, PackageRow, Absent
<1>4. DeclaredStands'
  BY <1>1 DEF PackagesIInv, TablesOK, DeclaredStands, UpsertInsert, PackageRow, Absent
<1>5. PublicOnlyHolds'
  BY <1>1 DEF PackagesIInv, TablesOK, PublicOnlyHolds, UpsertInsert, PackageRow, Absent
<1>6. TablesOK' /\ Keeps
  BY <1>2, <1>3, <1>4, <1>5 DEF PackagesIInv, TablesOK, Keeps, UpsertInsert
<1>7. CASE ~ call[c].declares
  BY <1>6, <1>7, EndIInv DEF UpsertInsert, Inserted
<1>8. CASE call[c].declares
  <2>. DEFINE new == [call[c] EXCEPT !.at = Declaring(call[c].visibility)]
  <2>1. new \in CallState
    BY <1>1, GotoType DEF Declaring, Places
  <2>2. call' = [call EXCEPT ![c] = new] /\ call'[c] = new
    BY <1>8 DEF PackagesIInv, UpsertInsert, Inserted
  <2>3. CallOK(call[c])'
    BY <1>1, <2>2 DEF CallOK, CallState, Declaring
  <2>. QED
    BY <1>6, <2>1, <2>2, <2>3, Moved
<1>. QED
  BY <1>7, <1>8

LEMMA DeclareUpdateIInv ==
    ASSUME PackagesIInv, NEW c \in Calls, DeclareUpdate(c)
    PROVE  PackagesIInv'
<1>. DEFINE n == call[c].name
<1>1. /\ n \in Names /\ call[c].visibility \in Visibilities
      /\ call[c].visibility = "private" => allowed
  BY DEF PackagesIInv, CallOK, DeclareUpdate
<1>2. package' \in [Names -> PackageRow] /\ said' \in [Names -> Visibilities \union {"none"}]
  <2>1. [visibility |-> call[c].visibility, declared |-> TRUE] \in PackageRow
    BY <1>1 DEF PackageRow
  <2>. QED
    BY <1>1, <2>1 DEF PackagesIInv, TablesOK, DeclareUpdate
<1>3. DeclaredStands' /\ Keeps /\ \A m \in Names : package'[m].declared <=> said'[m] # "none"
  BY <1>1 DEF PackagesIInv, TablesOK, DeclaredStands, DeclareUpdate, Keeps, Visibilities
<1>4. PublicOnlyHolds'
  BY <1>1 DEF PackagesIInv, TablesOK, PublicOnlyHolds, DeclareUpdate
<1>5. TablesOK'
  BY <1>2, <1>3, <1>4 DEF PackagesIInv, TablesOK, DeclareUpdate
<1>. QED
  BY <1>3, <1>5, EndIInv DEF DeclareUpdate

-----------------------------------------------------------------------------
LEMMA PackagesNextIInv == PackagesIInv /\ [Next]_vars => PackagesIInv'
<1>. SUFFICES ASSUME PackagesIInv, [Next]_vars PROVE PackagesIInv'
  OBVIOUS
<1>1. ASSUME NEW c \in Calls, NEW n \in Names, NEW asked \in Visibilities \union {"none"},
             Publish(c, n, asked)
      PROVE  PackagesIInv'
  <2>1. package[n].visibility \in Visibilities \union {"none"}
    BY DEF PackagesIInv, TablesOK, PackageRow, Absent
  <2>. QED
    BY <1>1, <2>1, StartIInv DEF Publish
<1>2. ASSUME NEW c \in Calls, NEW n \in Names, NEW derived \in Visibilities, Sync(c, n, derived)
      PROVE  PackagesIInv'
  BY <1>2, StartIInv DEF Sync, Visibilities
<1>3. ASSUME NEW c \in Calls, NEW n \in Names, NEW visibility \in Visibilities,
             Declare(c, n, visibility)
      PROVE  PackagesIInv'
  BY <1>3, StartIInv DEF Declare, Declaring, Visibilities
<1>4. ASSUME NEW c \in Calls, PublishDefault(c) PROVE PackagesIInv'
  <2>. DEFINE new == [call[c] EXCEPT !.at = "upserting",
                        !.visibility = IF settings["privatePackages"] THEN "private" ELSE "public"]
  <2>1. call[c] \in CallState /\ CallOK(call[c]) /\ call[c].at = "defaulting"
    BY <1>4 DEF PackagesIInv, PublishDefault
  <2>2. new \in CallState
    BY <2>1 DEF CallState, Places, Visibilities
  <2>3. call' = [call EXCEPT ![c] = new] /\ call'[c] = new
    BY <1>4 DEF PackagesIInv, PublishDefault
  <2>4. CallOK(call[c])'
    BY <2>1, <2>3 DEF CallOK, CallState, Visibilities
  <2>. QED
    BY <1>4, <2>2, <2>3, <2>4, Moved, Unchanged DEF PublishDefault
<1>5. ASSUME NEW c \in Calls, UpsertRead(c) PROVE PackagesIInv'
  <2>1. call[c].visibility \in Visibilities /\ call[c].name \in Names
    BY <1>5 DEF PackagesIInv, CallOK, UpsertRead
  <2>. QED
    BY <1>5, <2>1, GotoIInv DEF UpsertRead
<1>6. ASSUME NEW c \in Calls, UpsertAllowed(c) \/ DeclareAllowed(c) PROVE PackagesIInv'
  <2>1. allowed
    BY <1>6 DEF PackagesIInv, TablesOK, UpsertAllowed, DeclareAllowed
  <2>. QED
    BY <1>6, <2>1, GotoIInv DEF UpsertAllowed, DeclareAllowed
<1>7. ASSUME NEW c \in Calls, UpsertInsert(c) PROVE PackagesIInv'
  BY <1>7, UpsertInsertIInv
<1>8. ASSUME NEW c \in Calls, DeclareUpdate(c) PROVE PackagesIInv'
  BY <1>8, DeclareUpdateIInv
<1>9. ASSUME NEW c \in Calls, NEW flag \in Flags, NEW value \in BOOLEAN,
             SettingsRead(c, flag, value)
      PROVE  PackagesIInv'
  <2>. DEFINE new == [Idle EXCEPT !.at = "saving", !.kind = "settings",
                          !.read = [settings EXCEPT ![flag] = value]]
  <2>1. [settings EXCEPT ![flag] = value] \in Settings
    BY DEF PackagesIInv, TablesOK, Settings
  <2>2. new \in CallState
    BY <2>1, IdleOK DEF CallState, Places
  <2>3. call' = [call EXCEPT ![c] = new] /\ call'[c] = new
    BY <1>9 DEF PackagesIInv, SettingsRead
  <2>4. call'[c].at = "saving"
    BY <2>3 DEF Idle
  <2>5. CallOK(call[c])'
    BY <2>4 DEF CallOK
  <2>. QED
    BY <1>9, <2>2, <2>3, <2>5, Moved, Unchanged DEF SettingsRead
<1>10. ASSUME NEW c \in Calls, SettingsSave(c) PROVE PackagesIInv'
  <2>1. call[c].read \in Settings
    BY DEF PackagesIInv, CallState
  <2>. QED
    BY <1>10, <2>1, SavedIInv, EndIInv DEF SettingsSave
<1>11. ASSUME NEW c \in Calls, Fail(c) PROVE PackagesIInv'
  BY <1>11, EndIInv, Unchanged DEF Fail
<1>12. ASSUME NEW values \in Settings, SettingsForm(values) PROVE PackagesIInv'
  <2>1. TablesOK' /\ Keeps
    BY <1>12, SavedIInv DEF SettingsForm
  <2>. QED
    BY <1>12, <2>1 DEF SettingsForm, PackagesIInv, CallOK, Keeps
<1>13. CASE UNCHANGED vars
  BY <1>13, Unchanged DEF vars, PackagesIInv, CallOK
<1>. QED
  BY <1>1, <1>2, <1>3, <1>4, <1>5, <1>6, <1>7, <1>8, <1>9, <1>10, <1>11, <1>12, <1>13
     DEF Next, PackageVisibility, RepoSettings

LEMMA PackagesInvariant == Spec => []PackagesIInv
BY PackagesInitIInv, PackagesNextIInv, PTL DEF Spec

(* Type correctness of the packages, the settings and the calls.            *)
THEOREM PackagesTypesCorrect == Spec => []TypeOK
<1>1. PackagesIInv => TypeOK
  BY DEF PackagesIInv, TablesOK, TypeOK
<1>. QED
  BY <1>1, PackagesInvariant, PTL

(* No publish or sync, whatever it read before, undoes what                 *)
(* set_package_visibility declared.                                         *)
THEOREM DeclarationsStand == Spec => []DeclaredStands
<1>1. PackagesIInv => DeclaredStands
  BY DEF PackagesIInv, TablesOK
<1>. QED
  BY <1>1, PackagesInvariant, PTL

(* upsert_package and set_package_visibility put no private package into a  *)
(* repository that never allowed one.                                       *)
THEOREM PublicOnly == Spec => []PublicOnlyHolds
<1>1. PackagesIInv => PublicOnlyHolds
  BY DEF PackagesIInv, TablesOK
<1>. QED
  BY <1>1, PackagesInvariant, PTL

-----------------------------------------------------------------------------
(* What set_repo_members and upsert_package can break without locks takes   *)
(* an overlap of two of them.                                               *)

Past == {"owning", "deleting", "inserting"}

(* Tables.  That one member of r serves a name rests on positions being     *)
(* unique; r mixes no sources if it has members or packages, not both.      *)
PositionsUnique == \A r \in Repositories : \A x, y \in rows[r] : x[1] = y[1] => x = y
NoSelf   == \A r \in Repositories : r \notin MembersOf(r)
Unmixed  == \A r \in Repositories : rows[r] # {} /\ owns[r] # {} => r \in raced

(* What a set_repo_members has checked is still so, or somebody committed   *)
(* what it rests on and both are noted.                                     *)
OwningHolds(m)  == m.at \in {"deleting", "inserting"} /\ m.list # <<>> =>
                      (owns[m.repo] # {} => m.repo \in raced)
NestingHolds(m) == m.at \in Past /\ m.list # <<>> =>
                      /\ \A q \in Listed(m.list) : rows[q] # {} => m.repo \in raced /\ q \in raced
                      /\ \A q \in Repositories : m.repo \in MembersOf(q) => m.repo \in raced /\ q \in raced
AskedOK(m)      == m.at # "idle" => /\ m.repo \in Repositories
                                    /\ m.repo \notin Listed(m.list)
WriterHolds(w)  == w.at = "admitted" =>
                      w.repo \in Repositories /\ w.name \in MemberNames
                         /\ (rows[w.repo] # {} => w.repo \in raced)

Tables  == PositionsUnique /\ NoSelf /\ Unmixed /\ NestingNeedsRace
AdminsOK  == \A a \in Admins : OwningHolds(admin[a]) /\ NestingHolds(admin[a]) /\ AskedOK(admin[a])
WritersOK == \A w \in Writers : WriterHolds(writer[w])

MembersIInv == MembersTypes /\ Tables /\ AdminsOK /\ WritersOK

LEMMA ListFacts ==
    ASSUME NEW list \in Lists \union {<<>>}
    PROVE  /\ Listed(list) \subseteq Repositories
           /\ RowsFor(list) \subseteq AllRows
           /\ {row[2] : row \in RowsFor(list)} = Listed(list)
           /\ \A x \in RowsFor(list) :
                 \E i \in DOMAIN list : x[1] = i /\ x[2] = list[i]
           /\ \A x, y \in RowsFor(list) : x[1] = y[1] => x = y
           /\ list = <<>> => RowsFor(list) = {} /\ Listed(list) = {}
           /\ list # <<>> => list \in Lists
<1>1. list \in Seq(Repositories) /\ \A i, j \in DOMAIN list : list[i] = list[j] => i = j
  <2>1. CASE list \in Lists
    BY <2>1, MembersAssumption
  <2>2. CASE list = <<>>
    <3>1. <<>> \in Seq(Repositories) /\ DOMAIN <<>> = {}
      OBVIOUS
    <3>. QED
      BY <2>2, <3>1
  <2>. QED
    BY <2>1, <2>2
<1>2. list = <<>> => DOMAIN list = {}
  OBVIOUS
<1>3. RowsFor(list) \subseteq AllRows
  <2>1. CASE list \in Lists
    BY <2>1 DEF AllRows
  <2>2. CASE list = <<>>
    BY <2>2, <1>2 DEF RowsFor
  <2>. QED
    BY <2>1, <2>2
<1>4. \A x \in RowsFor(list) : \E i \in DOMAIN list : x = MemberRow(i, list)
  BY DEF RowsFor
<1>5. \A i \in DOMAIN list : /\ MemberRow(i, list)[1] = i /\ MemberRow(i, list)[2] = list[i]
                            /\ MemberRow(i, list) \in RowsFor(list)
  BY DEF RowsFor, MemberRow
<1>6. \A i \in DOMAIN list : list[i] \in Repositories
  BY <1>1
<1>7. Listed(list) \subseteq Repositories
  BY <1>6 DEF Listed
<1>8. {row[2] : row \in RowsFor(list)} = Listed(list)
  BY <1>4, <1>5 DEF Listed
<1>9. \A x, y \in RowsFor(list) : x[1] = y[1] => x = y
  BY <1>4, <1>5
<1>10. list = <<>> => RowsFor(list) = {} /\ Listed(list) = {}
  BY <1>2 DEF RowsFor, Listed
<1>. QED
  BY <1>3, <1>4, <1>5, <1>7, <1>8, <1>9, <1>10

LEMMA RowFacts ==
    ASSUME NEW x \in AllRows
    PROVE  x[1] \in Int /\ x[2] \in Repositories
<1>1. PICK list \in Lists : x \in RowsFor(list)
  BY DEF AllRows
<1>2. PICK i \in DOMAIN list : x[1] = i /\ x[2] = list[i]
  BY <1>1, ListFacts
<1>3. list \in Seq(Repositories)
  BY MembersAssumption
<1>. QED
  BY <1>2, <1>3

LEMMA IdleFacts ==
    /\ IdleAdmin \in [at : AdminPlaces, repo : Repositories \union {NoRepo},
                      list : Lists \union {<<>>}, seen : SUBSET AllRows]
    /\ IdleWriter \in [at : {"idle", "admitted"}, repo : Repositories \union {NoRepo},
                       name : MemberNames \union {Unnamed}]
    /\ IdleAdmin.at = "idle" /\ IdleWriter.at = "idle"
BY DEF IdleAdmin, IdleWriter, AdminPlaces

LEMMA MembersInitIInv == MembersInit => MembersIInv
<1>. SUFFICES ASSUME MembersInit PROVE MembersIInv
  OBVIOUS
<1>1. MembersTypes
  BY IdleFacts DEF MembersInit, MembersTypes
<1>2. Tables
  BY DEF MembersInit, Tables, PositionsUnique, NoSelf, Unmixed, NestingNeedsRace, MembersOf
<1>3. AdminsOK /\ WritersOK
  BY IdleFacts DEF MembersInit, AdminsOK, WritersOK, OwningHolds, NestingHolds, AskedOK, WriterHolds, Past
<1>. QED
  BY <1>1, <1>2, <1>3 DEF MembersIInv

-----------------------------------------------------------------------------
(* Steps that write no table.                                               *)

LEMMA AdminMoves ==
    ASSUME MembersIInv, NEW a \in Admins,
           UNCHANGED <<live, owns, rows, writer, raced>>,
           NEW m \in [at : AdminPlaces, repo : Repositories \union {NoRepo},
                      list : Lists \union {<<>>}, seen : SUBSET AllRows],
           admin' = [admin EXCEPT ![a] = m],
           OwningHolds(m), NestingHolds(m), AskedOK(m)
    PROVE  MembersIInv'
<1>1. MembersTypes'
  BY DEF MembersIInv, MembersTypes, MembersOf
<1>2. Tables'
  BY DEF MembersIInv, Tables, PositionsUnique, NoSelf, Unmixed, NestingNeedsRace, MembersOf
<1>3. ASSUME NEW b \in Admins
      PROVE  (OwningHolds(admin[b]) /\ NestingHolds(admin[b]) /\ AskedOK(admin[b]))'
  <2>1. admin'[b] = m \/ admin'[b] = admin[b]
    BY DEF MembersIInv, MembersTypes
  <2>2. OwningHolds(admin[b]) /\ NestingHolds(admin[b]) /\ AskedOK(admin[b])
    BY DEF MembersIInv, AdminsOK
  <2>3. CASE admin'[b] = m
    BY <2>3 DEF OwningHolds, NestingHolds, AskedOK, MembersOf
  <2>4. CASE admin'[b] = admin[b]
    BY <2>2, <2>4 DEF OwningHolds, NestingHolds, AskedOK, MembersOf
  <2>. QED
    BY <2>1, <2>3, <2>4
<1>4. WritersOK'
  BY DEF MembersIInv, WritersOK, WriterHolds
<1>. QED
  BY <1>1, <1>2, <1>3, <1>4 DEF MembersIInv, AdminsOK

LEMMA WriterMoves ==
    ASSUME MembersIInv, NEW w \in Writers,
           UNCHANGED <<live, owns, rows, admin, raced>>,
           NEW m \in [at : {"idle", "admitted"}, repo : Repositories \union {NoRepo},
                      name : MemberNames \union {Unnamed}],
           writer' = [writer EXCEPT ![w] = m],
           WriterHolds(m)
    PROVE  MembersIInv'
<1>1. MembersTypes'
  BY DEF MembersIInv, MembersTypes, MembersOf
<1>2. Tables'
  BY DEF MembersIInv, Tables, PositionsUnique, NoSelf, Unmixed, NestingNeedsRace, MembersOf
<1>3. AdminsOK'
  BY DEF MembersIInv, AdminsOK, OwningHolds, NestingHolds, AskedOK, MembersOf
<1>4. WritersOK'
  BY DEF MembersIInv, MembersTypes, WritersOK, WriterHolds
<1>. QED
  BY <1>1, <1>2, <1>3, <1>4 DEF MembersIInv

LEMMA AdminRecord ==
    ASSUME MembersIInv, NEW a \in Admins
    PROVE  /\ admin[a] \in [at : AdminPlaces, repo : Repositories \union {NoRepo},
                            list : Lists \union {<<>>}, seen : SUBSET AllRows]
           /\ OwningHolds(admin[a]) /\ NestingHolds(admin[a]) /\ AskedOK(admin[a])
           /\ admin[a].at # "idle" => admin[a].repo \in Repositories
BY DEF MembersIInv, MembersTypes, AdminsOK, AskedOK

LEMMA ChecksStep ==
    ASSUME MembersIInv, NEW a \in Admins,
           \/ \E r \in live, list \in Lists : SetMembers(a, r, list)
           \/ CheckNested(a) \/ CheckOwns(a) \/ DeleteMembers(a) \/ RefuseMembers(a)
    PROVE  MembersIInv'
<1>. DEFINE Records == [at : AdminPlaces, repo : Repositories \union {NoRepo},
                        list : Lists \union {<<>>}, seen : SUBSET AllRows]
<1>0. admin[a] \in Records /\ live \subseteq Repositories /\ rows \in [Repositories -> SUBSET AllRows]
  BY DEF MembersIInv, MembersTypes
<1>1. ASSUME NEW r \in live, NEW list \in Lists, SetMembers(a, r, list) PROVE MembersIInv'
  <2>. DEFINE m == [at |-> IF list = <<>> THEN "deleting" ELSE "nesting",
                    repo |-> r, list |-> list, seen |-> {}]
  <2>1. m \in Records
    BY <1>0 DEF AdminPlaces
  <2>2. m.at \in {"deleting", "nesting"} /\ m.repo = r /\ m.list = list
    OBVIOUS
  <2>3. m.at = "deleting" => m.list = <<>>
    OBVIOUS
  <2>4. r \notin Listed(list)
    BY <1>1, ListFacts DEF SetMembers
  <2>5. OwningHolds(m) /\ NestingHolds(m) /\ AskedOK(m)
    BY <1>0, <2>2, <2>3, <2>4 DEF OwningHolds, NestingHolds, AskedOK, Past
  <2>6. admin' = [admin EXCEPT ![a] = m] /\ UNCHANGED <<live, owns, rows, writer, raced>>
    BY <1>1 DEF SetMembers
  <2>. HIDE DEF m
  <2>. QED
    BY <2>1, <2>5, <2>6, AdminMoves
<1>2. CASE CheckNested(a)
  <2>. DEFINE m == [admin[a] EXCEPT !.at = "owning"]
  <2>1. m \in Records /\ m.at = "owning" /\ m.repo = admin[a].repo /\ m.list = admin[a].list
    BY <1>0 DEF AdminPlaces
  <2>2. AskedOK(m) /\ OwningHolds(m) /\ NestingHolds(m)
    BY <2>1, <1>2, AdminRecord DEF CheckNested, AskedOK, OwningHolds, NestingHolds
  <2>3. admin' = [admin EXCEPT ![a] = m] /\ UNCHANGED <<live, owns, rows, writer, raced>>
    BY <1>2 DEF CheckNested
  <2>. HIDE DEF m
  <2>. QED
    BY <2>1, <2>2, <2>3, AdminMoves
<1>3. CASE CheckOwns(a)
  <2>. DEFINE m == [admin[a] EXCEPT !.at = "deleting"]
  <2>1. m \in Records /\ m.at = "deleting" /\ m.repo = admin[a].repo /\ m.list = admin[a].list
    BY <1>0 DEF AdminPlaces
  <2>2. AskedOK(m) /\ OwningHolds(m) /\ NestingHolds(m)
    BY <2>1, <1>3, AdminRecord DEF CheckOwns, AskedOK, OwningHolds, NestingHolds, Past
  <2>3. admin' = [admin EXCEPT ![a] = m] /\ UNCHANGED <<live, owns, rows, writer, raced>>
    BY <1>3 DEF CheckOwns
  <2>. HIDE DEF m
  <2>. QED
    BY <2>1, <2>2, <2>3, AdminMoves
<1>4. CASE DeleteMembers(a)
  <2>. DEFINE m == [admin[a] EXCEPT !.at = "inserting", !.seen = rows[admin[a].repo]]
  <2>0. admin[a].at = "deleting" /\ admin[a].repo \in Repositories
    BY <1>4, AdminRecord DEF DeleteMembers
  <2>1. m \in Records /\ m.at = "inserting" /\ m.repo = admin[a].repo /\ m.list = admin[a].list
    BY <1>0, <2>0 DEF AdminPlaces
  <2>2. AskedOK(m) /\ OwningHolds(m) /\ NestingHolds(m)
    BY <2>0, <2>1, AdminRecord DEF AskedOK, OwningHolds, NestingHolds, Past
  <2>3. admin' = [admin EXCEPT ![a] = m] /\ UNCHANGED <<live, owns, rows, writer, raced>>
    BY <1>4 DEF DeleteMembers
  <2>. HIDE DEF m
  <2>. QED
    BY <2>1, <2>2, <2>3, AdminMoves
<1>5. CASE RefuseMembers(a)
  <2>1. OwningHolds(IdleAdmin) /\ NestingHolds(IdleAdmin) /\ AskedOK(IdleAdmin)
    BY IdleFacts DEF OwningHolds, NestingHolds, AskedOK, Past
  <2>. QED
    BY <1>5, <2>1, IdleFacts, AdminMoves DEF RefuseMembers
<1>. QED
  BY <1>1, <1>2, <1>3, <1>4, <1>5

-----------------------------------------------------------------------------
(* Steps that write them.                                                   *)

LEMMA CommitStep ==
    ASSUME MembersIInv, NEW a \in Admins, CommitMembers(a)
    PROVE  MembersIInv'
<1>. DEFINE r == admin[a].repo
            list == admin[a].list
            Records == [at : AdminPlaces, repo : Repositories \union {NoRepo},
                        list : Lists \union {<<>>}, seen : SUBSET AllRows]
<1>1. /\ admin \in [Admins -> Records] /\ admin[a].at = "inserting" /\ r \in Repositories
      /\ list \in Lists \union {<<>>} /\ r \notin Listed(list)
      /\ rows \in [Repositories -> SUBSET AllRows]
  BY AdminRecord DEF CommitMembers, MembersIInv, MembersTypes, AskedOK
<1>2. Remaining(a) \subseteq rows[r]
  BY DEF Remaining
<1>3. /\ rows'[r] = Remaining(a) \union RowsFor(list)
      /\ \A q \in Repositories \ {r} : rows'[q] = rows[q]
      /\ rows' \in [Repositories -> SUBSET AllRows]
  BY <1>1, <1>2, ListFacts DEF CommitMembers
<1>4. raced \subseteq raced' /\ raced' = raced \union Disturbs(a)
  BY DEF CommitMembers
<1>5. \A b \in Admins : /\ admin'[b] \in Records
                        /\ \/ admin'[b] = IdleAdmin
                           \/ /\ b # a
                              /\ admin'[b].at = admin[b].at
                              /\ admin'[b].repo = admin[b].repo
                              /\ admin'[b].list = admin[b].list
  <2>. TAKE b \in Admins
  <2>1. CASE b = a
    BY <2>1, IdleFacts DEF CommitMembers, Committed
  <2>2. CASE b # a /\ admin[b].repo # r
    BY <2>2, <1>1 DEF CommitMembers, Committed
  <2>3. CASE b # a /\ admin[b].repo = r
    <3>1. admin'[b] = [admin[b] EXCEPT !.seen = @ \intersect Remaining(a)]
      BY <2>3 DEF CommitMembers, Committed
    <3>2. admin[b] \in Records
      BY <1>1
    <3>. QED
      BY <2>3, <3>1, <3>2
  <2>. QED
    BY <2>1, <2>2, <2>3
<1>6. admin' \in [Admins -> Records]
  <2>1. admin' = Committed(a)
    BY DEF CommitMembers
  <2>2. Committed(a) = [b \in Admins |-> Committed(a)[b]]
    BY DEF Committed
  <2>. QED
    BY <1>5, <2>1, <2>2
<1>7. UNCHANGED <<live, owns, writer>> /\ Insertable(a)
  BY DEF CommitMembers
<1>8. \A q \in Repositories : MembersOf(q)' \subseteq MembersOf(q) \union (IF q = r THEN Listed(list) ELSE {})
  <2>1. ASSUME NEW q \in Repositories, NEW x \in rows'[q]
        PROVE  x[2] \in MembersOf(q) \union (IF q = r THEN Listed(list) ELSE {})
    BY <1>1, <1>2, <1>3, ListFacts DEF MembersOf
  <2>. QED
    BY <2>1 DEF MembersOf
<1>9. list = <<>> => rows'[r] \subseteq rows[r] /\ Listed(list) = {}
  BY <1>1, <1>2, <1>3, ListFacts
<1>10. MembersTypes'
  <2>1. raced' \subseteq Repositories
    <3>1. \A b \in Admins : admin[b].at # "idle" => admin[b].repo \in Repositories
      BY AdminRecord
    <3>2. Disturbs(a) \subseteq Repositories
      BY <1>1, <3>1 DEF Disturbs
    <3>. QED
      BY <1>4, <3>2 DEF MembersIInv, MembersTypes
  <2>2. \A q \in Repositories : rows'[q] # {} => {q} \union MembersOf(q)' \subseteq live'
    <3>. SUFFICES ASSUME NEW q \in Repositories, rows'[q] # {} PROVE {q} \union MembersOf(q)' \subseteq live
      BY <1>7
    <3>1. CASE q # r
      BY <3>1, <1>3, <1>8 DEF MembersIInv, MembersTypes
    <3>2. CASE q = r /\ list # <<>>
      <4>1. {r} \union Listed(list) \subseteq live
        BY <1>7, <3>2 DEF Insertable
      <4>2. rows[r] # {} => MembersOf(r) \subseteq live
        BY <1>1 DEF MembersIInv, MembersTypes
      <4>3. rows[r] = {} => MembersOf(r) = {}
        BY DEF MembersOf
      <4>. QED
        BY <3>2, <4>1, <4>2, <4>3, <1>8, <1>1
    <3>3. CASE q = r /\ list = <<>>
      <4>1. {r} \union MembersOf(r) \subseteq live
        BY <1>1, <1>9, <3>3 DEF MembersIInv, MembersTypes
      <4>. QED
        BY <3>3, <4>1, <1>8, <1>9, <1>1
    <3>. QED
      BY <3>1, <3>2, <3>3
  <2>. QED
    BY <2>1, <2>2, <1>3, <1>6, <1>7 DEF MembersIInv, MembersTypes
<1>11. PositionsUnique'
  <2>. SUFFICES ASSUME NEW q \in Repositories, NEW x \in rows'[q], NEW y \in rows'[q], x[1] = y[1]
                PROVE  x = y
    BY DEF PositionsUnique
  <2>1. CASE q # r
    BY <2>1, <1>3 DEF MembersIInv, Tables, PositionsUnique
  <2>2. CASE q = r
    <3>1. x \in Remaining(a) /\ y \in Remaining(a) => x = y
      BY <1>1, <1>2 DEF MembersIInv, Tables, PositionsUnique
    <3>2. x \in RowsFor(list) /\ y \in RowsFor(list) => x = y
      BY <1>1, ListFacts
    <3>3. \A u \in Remaining(a), v \in RowsFor(list) : u[1] # v[1]
      BY <1>1, <1>7, ListFacts DEF Insertable
    <3>. QED
      BY <2>2, <3>1, <3>2, <3>3, <1>3
  <2>. QED
    BY <2>1, <2>2
<1>12. NoSelf'
  BY <1>1, <1>8 DEF MembersIInv, Tables, NoSelf
<1>13. Unmixed'
  <2>. SUFFICES ASSUME NEW q \in Repositories, rows'[q] # {}, owns[q] # {} PROVE q \in raced'
    BY <1>7 DEF Unmixed
  <2>1. CASE rows[q] # {}
    BY <2>1, <1>4 DEF MembersIInv, Tables, Unmixed
  <2>2. CASE rows[q] = {}
    <3>1. q = r /\ list # <<>>
      BY <2>2, <1>3, <1>9
    <3>2. OwningHolds(admin[a])
      BY AdminRecord
    <3>. QED
      BY <3>1, <3>2, <1>1, <1>4 DEF OwningHolds
  <2>. QED
    BY <2>1, <2>2
<1>14. NestingNeedsRace'
  <2>. SUFFICES ASSUME NEW q \in Repositories, NEW m \in MembersOf(q)', rows'[m] # {}
                PROVE  q \in raced' /\ m \in raced'
    BY DEF NestingNeedsRace
  <2>0. m \in Repositories
    <3>1. PICK x \in rows'[q] : m = x[2]
      BY DEF MembersOf
    <3>. QED
      BY <3>1, <1>3, RowFacts
  <2>1. CASE m \in MembersOf(q) /\ rows[m] # {}
    BY <2>1, <1>4 DEF MembersIInv, Tables, NestingNeedsRace
  <2>2. CASE m \notin MembersOf(q)
    <3>1. q = r /\ m \in Listed(list) /\ list # <<>>
      BY <2>2, <1>8, <1>9
    <3>2. m # r
      BY <3>1, <1>1
    <3>3. rows[m] # {}
      BY <3>2, <2>0, <1>3
    <3>4. NestingHolds(admin[a])
      BY AdminRecord
    <3>. QED
      BY <3>1, <3>3, <3>4, <1>1, <1>4 DEF NestingHolds, Past
  <2>3. CASE m \in MembersOf(q) /\ rows[m] = {}
    <3>1. m = r /\ list # <<>>
      BY <2>0, <2>3, <1>3, <1>9
    <3>2. NestingHolds(admin[a])
      BY AdminRecord
    <3>. QED
      BY <2>3, <3>1, <3>2, <1>1, <1>4 DEF NestingHolds, Past
  <2>. QED
    BY <2>1, <2>2, <2>3
<1>15. AdminsOK'
  <2>. SUFFICES ASSUME NEW b \in Admins
                PROVE  (OwningHolds(admin[b]) /\ NestingHolds(admin[b]) /\ AskedOK(admin[b]))'
    BY DEF AdminsOK
  <2>1. CASE admin'[b] = IdleAdmin
    BY <2>1, IdleFacts DEF OwningHolds, NestingHolds, AskedOK, Past
  <2>2. CASE b # a /\ admin'[b].at = admin[b].at /\ admin'[b].repo = admin[b].repo
                   /\ admin'[b].list = admin[b].list
    <3>. DEFINE s == admin[b].repo
                wanted == admin[b].list
    <3>1. OwningHolds(admin[b]) /\ NestingHolds(admin[b]) /\ AskedOK(admin[b])
      BY AdminRecord
    <3>2. OwningHolds(admin[b])' /\ AskedOK(admin[b])'
      BY <2>2, <3>1, <1>4, <1>7 DEF OwningHolds, AskedOK
    <3>3. admin[b].at \in Past /\ r \in Listed(wanted) => s \in raced' /\ r \in raced'
      BY <2>2, <1>4 DEF Disturbs, Past
    <3>4. admin[b].at \in Past /\ s \in Listed(list) => s \in raced' /\ r \in raced'
      BY <2>2, <1>4 DEF Disturbs, Past
    <3>5. ASSUME admin[b].at \in Past, wanted # <<>>, NEW q \in Listed(wanted), rows'[q] # {}
          PROVE  s \in raced' /\ q \in raced'
      <4>1. q \in Repositories
        BY AdminRecord, ListFacts
      <4>2. CASE q = r
        BY <4>2, <3>3, <3>5
      <4>3. CASE q # r
        BY <4>1, <4>3, <1>3, <1>4, <3>1, <3>5 DEF NestingHolds
      <4>. QED
        BY <4>2, <4>3
    <3>6. ASSUME admin[b].at \in Past, wanted # <<>>, NEW q \in Repositories, s \in MembersOf(q)'
          PROVE  s \in raced' /\ q \in raced'
      <4>1. CASE s \in MembersOf(q)
        BY <4>1, <1>4, <3>1, <3>6 DEF NestingHolds
      <4>2. CASE s \notin MembersOf(q)
        BY <4>2, <1>8, <3>4, <3>6
      <4>. QED
        BY <4>1, <4>2
    <3>7. NestingHolds(admin[b])'
      BY <2>2, <3>5, <3>6 DEF NestingHolds
    <3>. QED
      BY <3>2, <3>7
  <2>. QED
    BY <2>1, <2>2, <1>5
<1>16. WritersOK'
  <2>. SUFFICES ASSUME NEW w \in Writers, writer[w].at = "admitted" PROVE WriterHolds(writer[w])'
    BY <1>7 DEF WritersOK, WriterHolds
  <2>1. WriterHolds(writer[w])
    BY DEF MembersIInv, WritersOK
  <2>2. writer[w].repo = r => r \in raced'
    BY <1>4 DEF Disturbs
  <2>. QED
    BY <2>1, <2>2, <1>3, <1>4, <1>7 DEF WriterHolds
<1>. QED
  BY <1>10, <1>11, <1>12, <1>13, <1>14, <1>15, <1>16 DEF MembersIInv, Tables

LEMMA InsertStep ==
    ASSUME MembersIInv, NEW w \in Writers, InsertPackage(w)
    PROVE  MembersIInv'
<1>. DEFINE r == writer[w].repo
<1>1. /\ writer[w].at = "admitted" /\ r \in live /\ r \in Repositories
      /\ writer[w].name \in MemberNames
  BY DEF InsertPackage, MembersIInv, MembersTypes, WritersOK, WriterHolds
<1>2. /\ owns'[r] = owns[r] \union {writer[w].name}
      /\ \A q \in Repositories \ {r} : owns'[q] = owns[q]
      /\ owns' \in [Repositories -> SUBSET MemberNames]
  BY <1>1 DEF InsertPackage, MembersIInv, MembersTypes
<1>3. raced \subseteq raced' /\ raced' \subseteq raced \union {r}
  BY DEF InsertPackage
<1>4. UNCHANGED <<live, rows, admin>>
  BY DEF InsertPackage
<1>5. \A v \in Writers : writer'[v] = IdleWriter \/ writer'[v] = writer[v]
  BY DEF InsertPackage, MembersIInv, MembersTypes
<1>6. MembersTypes'
  <2>1. writer' \in [Writers -> [at : {"idle", "admitted"}, repo : Repositories \union {NoRepo},
                                 name : MemberNames \union {Unnamed}]]
    BY IdleFacts DEF InsertPackage, MembersIInv, MembersTypes
  <2>2. raced' \subseteq Repositories
    BY <1>1, <1>3 DEF MembersIInv, MembersTypes
  <2>3. \A q \in Repositories \ live : owns'[q] = {}
    BY <1>1, <1>2 DEF MembersIInv, MembersTypes
  <2>. QED
    BY <1>2, <1>4, <2>1, <2>2, <2>3 DEF MembersIInv, MembersTypes, MembersOf
<1>7. Tables'
  <2>1. PositionsUnique' /\ NoSelf' /\ NestingNeedsRace'
    BY <1>3, <1>4 DEF MembersIInv, Tables, PositionsUnique, NoSelf, NestingNeedsRace, MembersOf
  <2>2. rows[r] # {} => r \in raced
    BY <1>1 DEF MembersIInv, WritersOK, WriterHolds
  <2>3. Unmixed'
    BY <1>2, <1>3, <1>4, <2>2 DEF MembersIInv, Tables, Unmixed
  <2>. QED
    BY <2>1, <2>3 DEF Tables
<1>8. AdminsOK'
  <2>. SUFFICES ASSUME NEW a \in Admins
                PROVE  (OwningHolds(admin[a]) /\ NestingHolds(admin[a]) /\ AskedOK(admin[a]))'
    BY DEF AdminsOK
  <2>1. OwningHolds(admin[a]) /\ NestingHolds(admin[a]) /\ AskedOK(admin[a])
    BY AdminRecord
  <2>2. NestingHolds(admin[a])' /\ AskedOK(admin[a])'
    BY <1>3, <1>4, <2>1 DEF NestingHolds, AskedOK, MembersOf
  <2>3. OwningHolds(admin[a])'
    <3>1. CASE admin[a].repo = r
      <4>1. admin[a].at \in {"deleting", "inserting"} /\ admin[a].list # <<>> => r \in raced'
        BY <3>1 DEF InsertPackage
      <4>. QED
        BY <3>1, <4>1, <1>4 DEF OwningHolds
    <3>2. CASE admin[a].repo # r
      <4>1. admin[a].at # "idle" => admin[a].repo \in Repositories
        BY AdminRecord
      <4>. QED
        BY <3>2, <4>1, <2>1, <1>2, <1>3, <1>4 DEF OwningHolds
    <3>. QED
      BY <3>1, <3>2
  <2>. QED
    BY <2>2, <2>3
<1>9. WritersOK'
  BY <1>3, <1>4, <1>5, IdleFacts DEF MembersIInv, WritersOK, WriterHolds
<1>. QED
  BY <1>6, <1>7, <1>8, <1>9 DEF MembersIInv

LEMMA DeleteStep ==
    ASSUME MembersIInv, NEW r \in Repositories, DeleteRepo(r)
    PROVE  MembersIInv'
<1>1. /\ \A q \in Repositories : rows'[q] \subseteq rows[q] /\ owns'[q] \subseteq owns[q]
      /\ rows' \in [Repositories -> SUBSET AllRows]
      /\ owns' \in [Repositories -> SUBSET MemberNames]
      /\ live' \subseteq live /\ live' = live \ {r}
      /\ rows'[r] = {} /\ owns'[r] = {}
      /\ \A q \in Repositories : \A x \in rows'[q] : x[2] # r
  <2>1. rows \in [Repositories -> SUBSET AllRows] /\ owns \in [Repositories -> SUBSET MemberNames]
    BY DEF MembersIInv, MembersTypes
  <2>. QED
    BY <2>1 DEF DeleteRepo
<1>2. UNCHANGED <<admin, writer, raced>>
  BY DEF DeleteRepo
<1>3. \A q \in Repositories : MembersOf(q)' \subseteq MembersOf(q) /\ r \notin MembersOf(q)'
  BY <1>1 DEF MembersOf
<1>4. MembersTypes'
  <2>1. \A q \in Repositories : rows'[q] # {} => {q} \union MembersOf(q)' \subseteq live'
    BY <1>1, <1>3 DEF MembersIInv, MembersTypes
  <2>2. \A q \in Repositories \ live' : owns'[q] = {}
    BY <1>1 DEF MembersIInv, MembersTypes
  <2>. QED
    BY <1>1, <1>2, <2>1, <2>2 DEF MembersIInv, MembersTypes
<1>5. Tables'
  <2>1. PositionsUnique'
    BY <1>1 DEF MembersIInv, Tables, PositionsUnique
  <2>2. NoSelf' /\ Unmixed'
    BY <1>1, <1>2, <1>3 DEF MembersIInv, Tables, NoSelf, Unmixed
  <2>3. NestingNeedsRace'
    <3>. SUFFICES ASSUME NEW q \in Repositories, NEW m \in MembersOf(q)', rows'[m] # {}
                  PROVE  q \in raced' /\ m \in raced'
      BY DEF NestingNeedsRace
    <3>1. m \in MembersOf(q)
      BY <1>3
    <3>2. m \in Repositories
      BY <3>1, RowFacts DEF MembersOf, MembersIInv, MembersTypes
    <3>. QED
      BY <1>1, <1>2, <3>1, <3>2 DEF MembersIInv, Tables, NestingNeedsRace
  <2>. QED
    BY <2>1, <2>2, <2>3 DEF Tables
<1>6. AdminsOK'
  <2>. SUFFICES ASSUME NEW a \in Admins
                PROVE  (OwningHolds(admin[a]) /\ NestingHolds(admin[a]) /\ AskedOK(admin[a]))'
    BY DEF AdminsOK
  <2>1. /\ OwningHolds(admin[a]) /\ NestingHolds(admin[a]) /\ AskedOK(admin[a])
        /\ admin[a].at # "idle" => admin[a].repo \in Repositories
        /\ Listed(admin[a].list) \subseteq Repositories
    BY AdminRecord, ListFacts
  <2>2. OwningHolds(admin[a])' /\ AskedOK(admin[a])'
    BY <1>1, <1>2, <2>1 DEF OwningHolds, AskedOK
  <2>3. NestingHolds(admin[a])'
    BY <1>1, <1>2, <1>3, <2>1 DEF NestingHolds
  <2>. QED
    BY <2>2, <2>3
<1>7. WritersOK'
  BY <1>1, <1>2 DEF MembersIInv, WritersOK, WriterHolds
<1>. QED
  BY <1>4, <1>5, <1>6, <1>7 DEF MembersIInv

LEMMA MembersNextIInv == MembersIInv /\ [MembersNext]_membersVars => MembersIInv'
<1>. SUFFICES ASSUME MembersIInv, [MembersNext]_membersVars PROVE MembersIInv'
  OBVIOUS
<1>1. ASSUME NEW w \in Writers, NEW r \in live, NEW n \in MemberNames, AdmitPackage(w, r, n)
      PROVE  MembersIInv'
  <2>. DEFINE m == [at |-> "admitted", repo |-> r, name |-> n]
  <2>1. r \in Repositories
    BY DEF MembersIInv, MembersTypes
  <2>2. /\ m \in [at : {"idle", "admitted"}, repo : Repositories \union {NoRepo},
                  name : MemberNames \union {Unnamed}]
        /\ WriterHolds(m)
    BY <1>1, <2>1 DEF AdmitPackage, WriterHolds
  <2>3. writer' = [writer EXCEPT ![w] = m] /\ UNCHANGED <<live, owns, rows, admin, raced>>
    BY <1>1 DEF AdmitPackage
  <2>. HIDE DEF m
  <2>. QED
    BY <2>2, <2>3, WriterMoves
<1>2. ASSUME NEW w \in Writers, DropPackage(w) PROVE MembersIInv'
  <2>1. WriterHolds(IdleWriter)
    BY IdleFacts DEF WriterHolds
  <2>. QED
    BY <1>2, <2>1, IdleFacts, WriterMoves DEF DropPackage
<1>3. CASE UNCHANGED membersVars
  <2>1. MembersTypes' /\ Tables'
    BY <1>3 DEF membersVars, MembersIInv, MembersTypes, Tables, PositionsUnique, NoSelf, Unmixed,
                NestingNeedsRace, MembersOf
  <2>2. AdminsOK' /\ WritersOK'
    BY <1>3 DEF membersVars, MembersIInv, AdminsOK, WritersOK, OwningHolds, NestingHolds, AskedOK,
                WriterHolds, MembersOf
  <2>. QED
    BY <2>1, <2>2 DEF MembersIInv
<1>. QED
  BY <1>1, <1>2, <1>3, ChecksStep, CommitStep, InsertStep, DeleteStep DEF MembersNext

LEMMA MembersInvariant == MembersSpec => []MembersIInv
BY MembersInitIInv, MembersNextIInv, PTL DEF MembersSpec

-----------------------------------------------------------------------------
(* Types hold, and so do the foreign keys of repository_members and         *)
(* packages, whatever set_repo_members, publishes and deletes overlap.      *)
THEOREM MembersTypesCorrect == MembersSpec => []MembersTypes
<1>1. MembersIInv => MembersTypes
  BY DEF MembersIInv
<1>. QED
  BY <1>1, MembersInvariant, PTL

(* A repository serves a name from two sources only if an upsert_package or *)
(* a set_repo_members wrote between another's check and write.              *)
THEOREM MixingConfined == MembersSpec => []MixingNeedsRace
<1>1. ASSUME MembersIInv, NEW r \in Repositories, NEW n \in MemberNames, r \notin raced
      PROVE  Cardinality(Sources(r, n)) \in {0, 1}
  <2>. DEFINE offers == {row \in rows[r] : n \in owns[row[2]]}
              best == {row \in offers : \A other \in offers : row[1] <= other[1]}
  <2>1. rows[r] = {} \/ owns[r] = {}
    BY <1>1 DEF MembersIInv, Tables, Unmixed
  <2>2. rows[r] \subseteq AllRows
    BY <1>1 DEF MembersIInv, MembersTypes
  <2>3. \A x, y \in best : x = y
    <3>. TAKE x, y \in best
    <3>1. x[1] <= y[1] /\ y[1] <= x[1] /\ x[1] \in Int /\ y[1] \in Int
      BY <2>2, RowFacts
    <3>2. x[1] = y[1]
      BY <3>1
    <3>. QED
      BY <1>1, <3>2 DEF MembersIInv, Tables, PositionsUnique
  <2>4. Sources(r, n) = {q \in {r} : n \in owns[q]} \union {row[2] : row \in best}
    BY DEF Sources
  <2>5. \A x, y \in Sources(r, n) : x = y
    <3>1. CASE rows[r] = {}
      BY <3>1, <2>4
    <3>2. CASE owns[r] = {}
      BY <3>2, <2>3, <2>4
    <3>. QED
      BY <2>1, <3>1, <3>2
  <2>6. Sources(r, n) = {} \/ \E x : Sources(r, n) = {x}
    BY <2>5
  <2>. QED
    BY <2>6, FS_EmptySet, FS_Singleton
<1>2. MembersIInv => MixingNeedsRace
  BY <1>1 DEF MixingNeedsRace
<1>. QED
  BY <1>2, MembersInvariant, PTL

(* Members have members only where two set_repo_members overlapped, one     *)
(* committing what the other had checked.                                   *)
THEOREM NestingConfined == MembersSpec => []NestingNeedsRace
<1>1. MembersIInv => NestingNeedsRace
  BY DEF MembersIInv, Tables
<1>. QED
  BY <1>1, MembersInvariant, PTL
-----------------------------------------------------------------------------
(* A cache in front.                                                        *)

Minutes  == [revs : SUBSET Nat, open : SUBSET BOOLEAN]
Served   == {"empty", "doc", "bytes", "url"}

(* What the origin could send to who at minute t.                           *)
SentAt(b, who, t) ==
    /\ b.what \in Served \union {"refused"}
    /\ b.what \in Served =>
         /\ b.for = who
         /\ b.what = "doc" => b.rev \in past[t].revs
         /\ b.what = "url" => b.expires = t + PresignAge
         /\ who = Nobody => (b.what # "empty") \in past[t].open

PastOK ==
    /\ now \in Nat /\ now =< MaxTime /\ rev \in Nat /\ open \in BOOLEAN
    /\ url \in Url /\ presigns \in BOOLEAN
    /\ past \in [0..MaxTime -> Minutes]
    /\ rev \in past[now].revs /\ open \in past[now].open

FlightOK ==
    \A f \in flight :
        /\ f.who \in Client /\ f.sent \in 0..now /\ now =< f.sent + Latency
        /\ SentAt(f.body, f.who, f.sent)
        /\ f.control = Cache(f.body, f.who = Nobody)

(* A copy is only of what nobody was sent, and is reused for its max-age    *)
(* from when it came.                                                       *)
CopyOK(c, e) ==
    e.body.what # "none" =>
        /\ e.till \in Nat /\ e.body.what \in Served
        /\ \E t \in 0..now : SentAt(e.body, c, t) /\ e.till =< t + Latency + MaxAge(e.body)

StoredOK == DOMAIN stored = Client /\ \A c \in Client : CopyOK(c, stored[c])

HandedOK ==
    handed.body.what \in Served =>
        /\ handed.to \in Client
        /\ \E t \in Within(MaxAge(handed.body)) :
             /\ SentAt(handed.body, handed.to, t)
             /\ handed.body.what = "url" => now < handed.body.expires

CacheIInv == PastOK /\ FlightOK /\ StoredOK /\ HandedOK

(* Nothing that was current or open at a minute comes to have been another. *)
Grows == \A t \in 0..now : past[t].revs \subseteq past'[t].revs /\ past[t].open \subseteq past'[t].open

LEMMA Ages ==
    ASSUME NEW b, b.what \in Served
    PROVE  /\ MaxAge(b) \in Nat
           /\ b.what = "url" => MaxAge(b) + Latency < PresignAge
BY ReadCacheAssumption, DeliveryAssumption DEF Served, MaxAge

LEMMA SentStays ==
    ASSUME Grows, NEW b, NEW who, NEW t \in 0..now, SentAt(b, who, t)
    PROVE  SentAt(b, who, t)'
BY DEF Grows, SentAt

LEMMA CopyStays ==
    ASSUME Grows, now \in Nat, now' \in Nat, now =< now', NEW c, NEW e, CopyOK(c, e)
    PROVE  CopyOK(c, e)'
<1>. SUFFICES ASSUME e.body.what # "none"
     PROVE  CopyOK(c, e)'
  BY DEF CopyOK
<1>1. PICK t \in 0..now : SentAt(e.body, c, t) /\ e.till =< t + Latency + MaxAge(e.body)
  BY DEF CopyOK
<1>2. SentAt(e.body, c, t)' /\ t \in 0..now'
  BY <1>1, SentStays
<1>. QED
  BY <1>1, <1>2 DEF CopyOK

LEMMA CacheStarts == CacheInit => CacheIInv
<1>. SUFFICES ASSUME CacheInit
     PROVE  CacheIInv
  OBVIOUS
<1>1. PastOK
  BY ReadCacheAssumption DEF CacheInit, PastOK, Minutes
<1>2. NoBody.what = "none"
  BY DEF NoBody, Refused
<1>3. FlightOK /\ StoredOK /\ HandedOK
  BY <1>2 DEF CacheInit, FlightOK, StoredOK, HandedOK, CopyOK, NoEntry, Served
<1>. QED
  BY <1>1, <1>3 DEF CacheIInv

(* The origin answers for the minute it is.                                 *)
LEMMA HandlerAnswers ==
    ASSUME CacheIInv, NEW who \in Client, NEW b \in Handler(who)
    PROVE  SentAt(b, who, now)
<1>. PastOK
  BY DEF CacheIInv
<1>1. CASE who = Nobody /\ ~open
  <2>1. b = Refused \/ b = [Refused EXCEPT !.what = "empty", !.for = who]
    BY <1>1 DEF Handler
  <2>2. FALSE \in past[now].open
    BY <1>1 DEF PastOK
  <2>3. CASE b = Refused
    BY <2>3 DEF Refused, SentAt, Served
  <2>4. CASE b = [Refused EXCEPT !.what = "empty", !.for = who]
    <3>1. b.what = "empty" /\ b.for = who
      BY <2>4 DEF Refused
    <3>2. (b.what # "empty") = FALSE
      BY <3>1
    <3>. QED
      BY <2>2, <3>1, <3>2 DEF SentAt, Served
  <2>. QED
    BY <2>1, <2>3, <2>4
<1>2. CASE ~(who = Nobody /\ ~open) /\ url = "meta"
  BY <1>2 DEF PastOK, Handler, SentAt, Served
<1>3. CASE ~(who = Nobody /\ ~open) /\ url # "meta" /\ presigns
  BY <1>3 DEF PastOK, Handler, ServeBlob, SentAt, Served
<1>4. CASE ~(who = Nobody /\ ~open) /\ url # "meta" /\ ~presigns
  BY <1>4 DEF PastOK, Handler, ServeBlob, SentAt, Served
<1>. QED
  BY <1>1, <1>2, <1>3, <1>4

LEMMA ForwardKeeps ==
    ASSUME CacheIInv, NEW who \in Client, Forward(who)
    PROVE  CacheIInv'
<1>0. PICK body \in Handler(who) :
        flight' = flight \union {[who |-> who, body |-> body, sent |-> now,
                                 unchanged |-> MatchesEtag(stored[who].body, body),
                                 control |-> Cache(body, who = Nobody)]}
  BY DEF Forward
<1>1. PICK same : flight' = flight \union {[who |-> who, body |-> body, sent |-> now,
                                            unchanged |-> same,
                                            control |-> Cache(body, who = Nobody)]}
  BY <1>0
<1>2. /\ UNCHANGED <<now, url, presigns, open, rev, past, stored, handed>>
      /\ PastOK /\ FlightOK /\ StoredOK /\ HandedOK
  BY DEF Forward, CacheIInv
<1>3. SentAt(body, who, now)
  BY <1>0, HandlerAnswers
<1>4. now \in 0..now /\ now =< now + Latency
  BY <1>2, ReadCacheAssumption DEF PastOK
<1>5. FlightOK'
  <2>. SUFFICES ASSUME NEW f \in flight'
       PROVE  /\ f.who \in Client /\ f.sent \in 0..now /\ now =< f.sent + Latency
              /\ SentAt(f.body, f.who, f.sent)
              /\ f.control = Cache(f.body, f.who = Nobody)
    BY <1>2 DEF FlightOK, SentAt, Cache, Scope
  <2>1. CASE f \in flight
    BY <2>1, <1>2 DEF FlightOK
  <2>2. CASE f = [who |-> who, body |-> body, sent |-> now, unchanged |-> same,
                  control |-> Cache(body, who = Nobody)]
    BY <2>2, <1>3, <1>4
  <2>. QED
    BY <1>1, <2>1, <2>2
<1>6. PastOK' /\ StoredOK' /\ HandedOK'
  BY <1>2 DEF PastOK, StoredOK, HandedOK, CopyOK, SentAt, Within, Minutes
<1>. QED
  BY <1>5, <1>6 DEF CacheIInv

(* What arrives is kept only if nobody asked for it.                        *)
LEMMA ArriveKeeps ==
    ASSUME CacheIInv, NEW f \in flight, Arrive(f)
    PROVE  CacheIInv'
<1>. DEFINE kept == [body |-> f.body, till |-> now + f.control.life]
<1>1. /\ flight' = flight \ {f} /\ handed' = [to |-> f.who, body |-> f.body]
      /\ UNCHANGED <<now, url, presigns, open, rev, past>>
      /\ PastOK /\ FlightOK /\ StoredOK
  BY DEF Arrive, CacheIInv
<1>2. /\ f.who \in Client /\ f.sent \in 0..now /\ now =< f.sent + Latency
      /\ SentAt(f.body, f.who, f.sent) /\ f.control = Cache(f.body, f.who = Nobody)
  BY <1>1 DEF FlightOK
<1>3. now \in Nat /\ Latency \in Nat /\ PresignAge \in Nat
  BY <1>1, ReadCacheAssumption DEF PastOK
<1>4. PastOK' /\ FlightOK'
  BY <1>1 DEF PastOK, FlightOK, SentAt, Minutes
<1>5. HandedOK'
  <2>. SUFFICES ASSUME f.body.what \in Served
       PROVE  HandedOK'
    BY <1>1 DEF HandedOK
  <2>1. MaxAge(f.body) \in Nat /\ (f.body.what = "url" => MaxAge(f.body) + Latency < PresignAge)
    BY Ages
  <2>2. f.sent \in Within(MaxAge(f.body)) /\ SentAt(f.body, f.who, f.sent)
    BY <1>2, <1>3, <2>1 DEF Within
  <2>3. f.body.what = "url" => now < f.body.expires
    BY <1>2, <1>3, <2>1 DEF SentAt
  <2>. QED
    BY <1>1, <1>2, <2>2, <2>3 DEF HandedOK, Within, SentAt
<1>6. ASSUME stored' # stored
      PROVE  /\ f.body.what \in Served /\ f.control.vary
             /\ stored' = [c \in Client |-> IF c = f.who THEN kept ELSE stored[c]]
             /\ CopyOK(f.who, kept)
  <2>1. f.control.scope = "public"
    BY <1>6 DEF Arrive
  <2>2. f.body.what # "refused" /\ f.control.life = MaxAge(f.body) /\ f.control.vary
    BY <2>1, <1>2 DEF Cache, Scope
  <2>3. f.body.what \in Served
    BY <2>2, <1>2 DEF SentAt
  <2>4. MaxAge(f.body) \in Nat
    BY <2>3, Ages
  <2>5. kept.body = f.body /\ kept.till = now + MaxAge(f.body)
    BY <2>2
  <2>6. stored' = [c \in Client |-> IF c = f.who THEN kept ELSE stored[c]]
    BY <2>2, <1>6 DEF Arrive
  <2>. HIDE DEF kept
  <2>7. CopyOK(f.who, kept)
    BY <2>3, <2>4, <2>5, <1>2, <1>3 DEF CopyOK
  <2>. QED
    BY <2>2, <2>3, <2>6, <2>7 
<1>. HIDE DEF kept
<1>7. \A c \in Client : CopyOK(c, stored'[c])
  BY <1>1, <1>2, <1>6 DEF StoredOK
<1>8. StoredOK'
  BY <1>1, <1>6, <1>7 DEF StoredOK, CopyOK, SentAt
<1>. QED
  BY <1>4, <1>5, <1>8 DEF CacheIInv

LEMMA HitKeeps ==
    ASSUME CacheIInv, NEW who \in Client, Hit(who)
    PROVE  CacheIInv'
<1>1. /\ handed' = [to |-> who, body |-> stored[who].body]
      /\ UNCHANGED <<now, url, presigns, open, rev, past, flight, stored>>
      /\ PastOK /\ FlightOK /\ StoredOK /\ CopyOK(who, stored[who]) /\ now < stored[who].till
  BY DEF Hit, Fresh, CacheIInv, StoredOK
<1>. DEFINE b == stored[who].body
<1>2. HandedOK'
  <2>. SUFFICES ASSUME b.what \in Served
       PROVE  HandedOK'
    BY <1>1 DEF HandedOK
  <2>1. PICK t \in 0..now : SentAt(b, who, t) /\ stored[who].till =< t + Latency + MaxAge(b)
    BY <1>1 DEF CopyOK, Served
  <2>2. /\ now \in Nat /\ Latency \in Nat /\ PresignAge \in Nat /\ MaxAge(b) \in Nat
        /\ stored[who].till \in Nat
        /\ b.what = "url" => MaxAge(b) + Latency < PresignAge
    BY <1>1, Ages, ReadCacheAssumption DEF PastOK, CopyOK, Served
  <2>. HIDE DEF b
  <2>3. t \in Within(MaxAge(b)) /\ (b.what = "url" => now < b.expires)
    BY <1>1, <2>1, <2>2 DEF Within, SentAt
  <2>4. handed'.body = b /\ handed'.to = who
    BY <1>1 DEF b
  <2>. QED
    BY <1>1, <2>1, <2>3, <2>4 DEF HandedOK, Within, SentAt
<1>3. PastOK' /\ FlightOK' /\ StoredOK'
  BY <1>1 DEF PastOK, FlightOK, StoredOK, CopyOK, SentAt, Minutes
<1>. QED
  BY <1>2, <1>3 DEF CacheIInv

(* Changes and minutes are noted, and what was noted stays.                 *)
LEMMA NoteGrows ==
    ASSUME PastOK, NEW t \in 0..MaxTime, NEW r \in Nat, NEW o \in BOOLEAN, Note(t, r, o)
    PROVE  /\ Grows /\ past' \in [0..MaxTime -> Minutes]
           /\ r \in past'[t].revs /\ o \in past'[t].open
<1>1. past' = [past EXCEPT ![t] = [revs |-> past[t].revs \union {r}, open |-> past[t].open \union {o}]]
  BY DEF Note
<1>2. past \in [0..MaxTime -> Minutes] /\ now \in Nat /\ now =< MaxTime /\ MaxTime \in Nat
  BY ReadCacheAssumption DEF PastOK
<1>3. /\ past[t].revs \subseteq Nat /\ past[t].open \subseteq BOOLEAN
      /\ past'[t] = [revs |-> past[t].revs \union {r}, open |-> past[t].open \union {o}]
      /\ \A s \in 0..MaxTime : s # t => past'[s] = past[s]
  BY <1>1, <1>2 DEF Minutes
<1>4. [revs |-> past[t].revs \union {r}, open |-> past[t].open \union {o}] \in Minutes
  BY <1>3 DEF Minutes
<1>5. past' \in [0..MaxTime -> Minutes]
  BY <1>1, <1>2, <1>4
<1>6. \A s \in 0..now : s \in 0..MaxTime
  BY <1>2
<1>7. Grows
  BY <1>3, <1>6 DEF Grows
<1>. QED
  BY <1>3, <1>5, <1>7

LEMMA TurnKeeps ==
    ASSUME CacheIInv, Turn
    PROVE  CacheIInv'
<1>1. /\ PastOK /\ FlightOK /\ StoredOK /\ HandedOK
      /\ rev' = rev + 1 /\ open' \in BOOLEAN /\ Note(now, rev', open')
      /\ UNCHANGED <<now, url, presigns, flight, stored, handed>>
  BY DEF Turn, CacheIInv
<1>2. now \in 0..MaxTime /\ rev' \in Nat
  BY <1>1, ReadCacheAssumption DEF PastOK
<1>3. Grows /\ past' \in [0..MaxTime -> Minutes] /\ rev' \in past'[now].revs /\ open' \in past'[now].open
  BY <1>1, <1>2, NoteGrows
<1>4. PastOK'
  BY <1>1, <1>2, <1>3 DEF PastOK
<1>5. FlightOK'
  BY <1>1, <1>3, SentStays DEF FlightOK, Cache, Scope
<1>6. StoredOK'
  BY <1>1, <1>3, CopyStays DEF StoredOK, PastOK
<1>7. HandedOK'
  BY <1>1, <1>3, SentStays DEF HandedOK, Within
<1>. QED
  BY <1>4, <1>5, <1>6, <1>7 DEF CacheIInv

LEMMA MinuteKeeps ==
    ASSUME CacheIInv, Minute
    PROVE  CacheIInv'
<1>1. /\ PastOK /\ FlightOK /\ StoredOK
      /\ now < MaxTime /\ (\A f \in flight : now < f.sent + Latency)
      /\ now' = now + 1 /\ Note(now', rev, open)
      /\ handed' = [to |-> Nobody, body |-> NoBody]
      /\ UNCHANGED <<url, presigns, open, rev, flight, stored>>
  BY DEF Minute, CacheIInv
<1>2. now' \in 0..MaxTime /\ now \in 0..MaxTime /\ rev \in Nat /\ open \in BOOLEAN
  BY <1>1, ReadCacheAssumption DEF PastOK
<1>3. Grows /\ past' \in [0..MaxTime -> Minutes] /\ rev \in past'[now'].revs /\ open \in past'[now'].open
  BY <1>1, <1>2, NoteGrows
<1>4. PastOK'
  BY <1>1, <1>2, <1>3 DEF PastOK
<1>5. FlightOK'
  <2>. SUFFICES ASSUME NEW f \in flight
       PROVE  /\ f.who \in Client /\ f.sent \in 0..now' /\ now' =< f.sent + Latency
              /\ SentAt(f.body, f.who, f.sent)'
              /\ f.control = Cache(f.body, f.who = Nobody)
    BY <1>1 DEF FlightOK, Cache, Scope
  <2>1. f.sent \in 0..now /\ now < f.sent + Latency /\ f.who \in Client
        /\ f.control = Cache(f.body, f.who = Nobody) /\ SentAt(f.body, f.who, f.sent)
    BY <1>1 DEF FlightOK
  <2>2. SentAt(f.body, f.who, f.sent)'
    BY <2>1, <1>3, SentStays
  <2>. QED
    BY <2>1, <2>2, <1>1, <1>2, ReadCacheAssumption
<1>6. StoredOK'
  BY <1>1, <1>2, <1>3, CopyStays DEF StoredOK
<1>7. HandedOK'
  BY <1>1 DEF HandedOK, NoBody, Refused, Served
<1>. QED
  BY <1>4, <1>5, <1>6, <1>7 DEF CacheIInv

LEMMA CacheInvariant == CacheSpec => []CacheIInv
<1>1. CacheIInv /\ [CacheNext]_cacheVars => CacheIInv'
  <2>. SUFFICES ASSUME CacheIInv, [CacheNext]_cacheVars
       PROVE  CacheIInv'
    OBVIOUS
  <2>1. CASE UNCHANGED cacheVars
    BY <2>1 DEF cacheVars, CacheIInv, PastOK, FlightOK, StoredOK, HandedOK, CopyOK, SentAt,
       Within, Minutes
  <2>. QED
    BY <2>1, ForwardKeeps, ArriveKeeps, HitKeeps, TurnKeeps, MinuteKeeps DEF CacheNext
<1>. QED
  BY CacheStarts, <1>1, PTL DEF CacheSpec

(* Whatever a cache in front hands out was made for whoever asks, is no     *)
(* older than its max-age and its way there, and names a signature that is  *)
(* still good (cache, with_etag, serve_blob), as long as the network takes  *)
(* no longer than the compiled-in margin leaves it.                         *)
THEOREM CacheHandsInTime == CacheSpec => []HandedInTime
<1>1. CacheIInv => HandedInTime
  BY DEF CacheIInv, HandedOK, HandedInTime, SentAt, Served
<1>. QED
  BY <1>1, CacheInvariant, PTL

(* What the origin makes, what is under way, kept and handed out are        *)
(* answers.                                                                 *)
BodiesOK ==
    /\ rev \in Revs
    /\ \A f \in flight : f.body \in Body
    /\ stored \in [Client -> Entry] /\ handed \in [to : Client, body : Body]

LEMMA BodyFacts == Refused \in Body /\ NoBody \in Body
<1>1. 0 \in Revs /\ 0 \in 0..(MaxTime + PresignAge) /\ Nobody \in Client
  BY ReadCacheAssumption DEF Revs
<1>2. Refused \in Body
  BY <1>1 DEF Refused, Body
<1>3. NoBody \in Body
  BY <1>2 DEF NoBody, Body
<1>. QED
  BY <1>2, <1>3

LEMMA HandlerMakes ==
    ASSUME PastOK, rev \in Revs, NEW who \in Client
    PROVE  Handler(who) \subseteq Body
<1>1. /\ 0 \in Revs /\ 0 \in 0..(MaxTime + PresignAge)
      /\ now + PresignAge \in 0..(MaxTime + PresignAge)
  BY ReadCacheAssumption DEF PastOK, Revs
<1>2. ServeBlob(who) \in Body
  BY <1>1 DEF ServeBlob, Body
<1>3. [what |-> "doc", for |-> who, rev |-> rev, expires |-> 0] \in Body
  BY <1>1 DEF Body
<1>4. [Refused EXCEPT !.what = "empty", !.for = who] \in Body
  BY <1>1 DEF Refused, Body
<1>. QED
  BY <1>2, <1>3, <1>4, BodyFacts DEF Handler

LEMMA ArriveMakes ==
    ASSUME CacheIInv, BodiesOK, NEW f \in flight, Arrive(f)
    PROVE  BodiesOK'
<1>. DEFINE kept == [body |-> f.body, till |-> now + f.control.life]
<1>1. /\ f.who \in Client /\ SentAt(f.body, f.who, f.sent) /\ now \in Nat
      /\ f.control = Cache(f.body, f.who = Nobody) /\ f.body \in Body
  BY DEF CacheIInv, PastOK, FlightOK, BodiesOK
<1>2. /\ flight' = flight \ {f} /\ handed' = [to |-> f.who, body |-> f.body] /\ rev' = rev
  BY DEF Arrive
<1>3. stored' \in [Client -> Entry]
  <2>1. CASE stored' = stored
    BY <2>1 DEF BodiesOK
  <2>2. CASE stored' # stored
    <3>1. f.body.what # "refused" /\ f.control.life = MaxAge(f.body) /\ f.control.vary
      BY <2>2, <1>1 DEF Arrive, Cache, Scope
    <3>2. f.body.what \in Served
      BY <3>1, <1>1 DEF SentAt
    <3>3. MaxAge(f.body) \in Nat
      BY <3>2, Ages
    <3>4. kept \in Entry
      BY <3>1, <3>3, <1>1 DEF Entry
    <3>5. stored' = [c \in Client |-> IF c = f.who \/ ~f.control.vary THEN kept ELSE stored[c]]
      BY <2>2 DEF Arrive
    <3>. HIDE DEF kept
    <3>. QED
      BY <3>4, <3>5 DEF BodiesOK
  <2>. QED
    BY <2>1, <2>2
<1>. QED
  BY <1>1, <1>2, <1>3 DEF BodiesOK

LEMMA CacheMakes ==
    ASSUME CacheIInv, BodiesOK, CacheNext
    PROVE  BodiesOK'
<1>1. ASSUME NEW who \in Client, Forward(who)
      PROVE  BodiesOK'
  <2>1. Handler(who) \subseteq Body
    BY HandlerMakes DEF CacheIInv, BodiesOK
  <2>2. UNCHANGED <<rev, stored, handed>>
    BY <1>1 DEF Forward
  <2>3. \A f \in flight' : f.body \in Body
    BY <2>1, <1>1 DEF Forward, BodiesOK
  <2>. QED
    BY <2>2, <2>3 DEF BodiesOK
<1>2. ASSUME NEW who \in Client, Hit(who)
      PROVE  BodiesOK'
  BY <1>2 DEF Hit, BodiesOK, Entry
<1>3. CASE Turn
  <2>1. rev' \in Revs
    BY <1>3, ReadCacheAssumption DEF Turn, BodiesOK, Revs
  <2>. QED
    BY <2>1, <1>3 DEF Turn, BodiesOK
<1>4. CASE Minute
  BY <1>4, BodyFacts, ReadCacheAssumption DEF Minute, BodiesOK
<1>. QED
  BY <1>1, <1>2, <1>3, <1>4, ArriveMakes DEF CacheNext

(* Whatever clients ask and whatever the package turns into meanwhile, what *)
(* a cache keeps and hands out are answers the origin makes, kept for some  *)
(* minutes (cache, with_etag, serve_blob).                                  *)
THEOREM CacheTypesCorrect == CacheSpec => []CacheTypes
<1>1. CacheInit => BodiesOK
  <2>. SUFFICES ASSUME CacheInit
       PROVE  BodiesOK
    OBVIOUS
  <2>1. NoEntry \in Entry /\ Nobody \in Client /\ 0 \in Revs
    BY BodyFacts, ReadCacheAssumption DEF NoEntry, Entry, Revs
  <2>. QED
    BY <2>1, BodyFacts DEF CacheInit, BodiesOK
<1>2. CacheIInv /\ BodiesOK /\ [CacheNext]_cacheVars => BodiesOK'
  <2>1. UNCHANGED cacheVars /\ BodiesOK => BodiesOK'
    BY DEF cacheVars, BodiesOK
  <2>. QED
    BY <2>1, CacheMakes
<1>3. CacheIInv /\ BodiesOK => CacheTypes
  BY DEF CacheIInv, PastOK, BodiesOK, CacheTypes
<1>. QED
  BY <1>1, <1>2, <1>3, CacheInvariant, PTL DEF CacheSpec

-----------------------------------------------------------------------------
(* A request and its answer.                                                *)

WorldRows ==
    /\ ver \in [Row -> Version] /\ public \in [Row -> BOOLEAN] /\ grants \in [Row -> Grant]
    /\ home \in HomeRow /\ token \in TokenRow /\ license \in LicenseRow

(* The bounds there may be on a license.                                    *)
LEMMA BoundFacts == {NotEntitled, NoBound} \union BoundChoice \subseteq LicenseBound
<1>1. NotEntitled \in LicenseBound /\ NoBound \in LicenseBound
  BY DEF NotEntitled, NoBound, LicenseBound, Unbounded
<1>. QED
  BY <1>1, ServingAssumption

LEMMA WorldIs ==
    ASSUME WorldRows
    PROVE  /\ home.policy \in Policy /\ token.over \in Override /\ license.over \in Override
           /\ license.bound \in [Name -> LicenseBound]
BY DEF WorldRows, HomeRow, TokenRow, LicenseRow

Plain(o) == o.mode = "auto" \/ (o.mode = "none" /\ o.cool = 0)

LEMMA EffectiveIs ==
    ASSUME NEW o \in Override, NEW p \in Policy, NEW q, q = Effective(o, p)
    PROVE  /\ q \in Policy
           /\ q.mode = "manual" <=> p.mode = "manual" \/ o.mode = "manual"
           /\ q.mode = "auto" <=> p.mode = "auto" /\ Plain(o)
           /\ \A n \in Nat : n >= q.cool <=> n >= p.cool /\ n >= o.cool
<1>1. MaxCool \in Nat /\ p.mode \in Mode /\ o.mode \in Mode \union {"none"}
      /\ p.cool \in 0..MaxCool /\ o.cool \in 0..MaxCool
  BY ServingAssumption DEF Override, Policy
<1>2. Strictness["auto"] = 0 /\ Strictness["delayed"] = 1 /\ Strictness["manual"] = 2
  BY DEF Strictness
<1>. DEFINE wanted == IF o.mode # "none" THEN o.mode ELSE IF o.cool > 0 THEN "delayed" ELSE p.mode
            mode   == IF Strictness[wanted] > Strictness[p.mode] THEN wanted ELSE p.mode
            cool   == IF o.cool > p.cool THEN o.cool ELSE p.cool
<1>3. q = [mode |-> mode, cool |-> cool]
  BY DEF Effective
<1>4. /\ mode \in Mode
      /\ mode = "manual" <=> p.mode = "manual" \/ o.mode = "manual"
      /\ mode = "auto" <=> p.mode = "auto" /\ Plain(o)
  BY <1>1, <1>2 DEF Mode, Plain
<1>5. cool \in 0..MaxCool /\ \A n \in Nat : n >= cool <=> n >= p.cool /\ n >= o.cool
  BY <1>1
<1>. HIDE DEF mode, cool
<1>6. q.mode = mode /\ q.cool = cool /\ q \in Policy
  BY <1>3, <1>4, <1>5 DEF Policy
<1>. QED
  BY <1>4, <1>5, <1>6

(* The policies folded let through what every policy in force lets through. *)
LEMMA GateIs ==
    ASSUME WorldRows, NEW r \in Row, NEW o \in Override, NEW g \in Override
    PROVE  PolicyGate(r, Effective(g, Effective(o, home.policy)))
             <=> ver[r].live /\ ~ver[r].yanked /\ ~ver[r].held /\ Clears(r, {o, g})
<1>. DEFINE p == home.policy
            q == Effective(o, p)
            e == Effective(g, q)
<1>1. p \in Policy /\ MaxCool \in Nat /\ ver[r].age \in Nat /\ ver[r].approved \in BOOLEAN
  BY ServingAssumption, WorldIs DEF WorldRows, Version
<1>2. /\ q \in Policy
      /\ q.mode = "manual" <=> p.mode = "manual" \/ o.mode = "manual"
      /\ q.mode = "auto" <=> p.mode = "auto" /\ Plain(o)
      /\ \A n \in Nat : n >= q.cool <=> n >= p.cool /\ n >= o.cool
  BY <1>1, EffectiveIs
<1>. HIDE DEF q
<1>3. /\ e \in Policy
      /\ e.mode = "manual" <=> q.mode = "manual" \/ g.mode = "manual"
      /\ e.mode = "auto" <=> q.mode = "auto" /\ Plain(g)
      /\ \A n \in Nat : n >= e.cool <=> n >= q.cool /\ n >= g.cool
  BY <1>2, EffectiveIs
<1>. HIDE DEF e
<1>4. /\ e.mode \in Mode /\ p.mode \in Mode /\ o.mode \in Mode \union {"none"}
      /\ g.mode \in Mode \union {"none"} /\ o.cool \in Nat /\ g.cool \in Nat /\ p.cool \in Nat
  BY <1>1, <1>3 DEF Policy, Override
<1>. DEFINE modes == {p.mode} \cup {x.mode : x \in {o, g}}
            cools == {p.cool} \cup {x.cool : x \in {o, g}}
            timed == "delayed" \in modes \/ \E x \in {o, g} : x.mode = "none" /\ x.cool > 0
<1>5. "manual" \in modes <=> e.mode = "manual"
  BY <1>2, <1>3
<1>6. e.mode = "auto" => ~ timed
  BY <1>2, <1>3, <1>4 DEF Plain
<1>7. e.mode = "delayed" => timed
  BY <1>2, <1>3, <1>4, <1>5 DEF Plain, Mode
<1>8. (\A c \in cools : ver[r].age >= c) <=> ver[r].age >= e.cool
  <2>1. (\A c \in cools : ver[r].age >= c)
            <=> ver[r].age >= p.cool /\ ver[r].age >= o.cool /\ ver[r].age >= g.cool
    OBVIOUS
  <2>. QED
    BY <2>1, <1>1, <1>2, <1>3
<1>9. Clears(r, {o, g}) <=> ver[r].approved
          \/ ("manual" \notin modes /\ (timed => r \notin Undated /\ \A c \in cools : ver[r].age >= c))
  BY DEF Clears
<1>10. PolicyGate(r, e) <=> ver[r].live /\ ~ver[r].yanked /\ ~ver[r].held
          /\ (e.mode = "auto" \/ ver[r].approved \/ (e.mode = "delayed" /\ r \notin Undated /\ ver[r].age >= e.cool))
  BY DEF PolicyGate
<1>. HIDE DEF modes, cools, timed
<1>11. Clears(r, {o, g})
          <=> (e.mode = "auto" \/ ver[r].approved \/ (e.mode = "delayed" /\ r \notin Undated /\ ver[r].age >= e.cool))
  BY <1>4, <1>5, <1>6, <1>7, <1>8, <1>9 DEF Mode
<1>. QED
  BY <1>10, <1>11 DEF e, q

LEMMA UnfoldedIs ==
    ASSUME NEW p \in Policy
    PROVE  Effective(NoOverride, p) = p
<1>1. MaxCool \in Nat /\ p.mode \in Mode /\ p.cool \in 0..MaxCool /\ p = [mode |-> p.mode, cool |-> p.cool]
  BY ServingAssumption DEF Policy
<1>2. Strictness["auto"] = 0 /\ Strictness["delayed"] = 1 /\ Strictness["manual"] = 2
  BY DEF Strictness
<1>. QED
  BY <1>1, <1>2 DEF Effective, NoOverride, Mode

LEMMA NoneIsOverride == NoOverride \in Override
BY ServingAssumption DEF NoOverride, Override

LEMMA LooserClears ==
    ASSUME WorldRows, NEW r \in Row, NEW o \in Override, NEW g \in Override
    PROVE  /\ Clears(r, {o, NoOverride}) <=> Clears(r, {o})
           /\ Clears(r, {o, g}) => Clears(r, {o})
<1>1. /\ MaxCool \in Nat /\ ver[r].age \in Nat /\ home.policy.cool \in Nat /\ home.policy.mode \in Mode
      /\ o.cool \in Nat /\ g.cool \in Nat
  BY ServingAssumption, WorldIs DEF WorldRows, Version, Policy, Override
<1>. QED
  BY <1>1 DEF Clears, NoOverride, Mode

LEMMA GateOfOne ==
    ASSUME WorldRows, NEW r \in Row, NEW o \in Override
    PROVE  PolicyGate(r, Effective(o, home.policy))
             <=> ver[r].live /\ ~ver[r].yanked /\ ~ver[r].held /\ Clears(r, {o})
<1>1. Effective(o, home.policy) \in Policy
  BY EffectiveIs, WorldIs
<1>2. Effective(NoOverride, Effective(o, home.policy)) = Effective(o, home.policy)
  BY <1>1, UnfoldedIs
<1>. QED
  BY <1>2, NoneIsOverride, GateIs, LooserClears

-----------------------------------------------------------------------------
(* What the request has still to read, and what it would be answered if     *)
(* nothing more changed.                                                    *)

Waiting == {"arrived", "authorize"}
NotIn   == Waiting \union {"license", "entitled", "license policy"}

(* The request has been let in, or would be now; with which override and    *)
(* bounds.                                                                  *)
LetIn ==
    /\ req.who = "nobody" /\ req.at \in Waiting => home.anonymous
    /\ req.who = "token" /\ req.at \in Waiting => token.live
    /\ req.who = "token" => req.at # "license"
    /\ req.who = "license" /\ req.at \in Waiting \union {"license"} => license.live

Standing ==
    /\ req.who = "nobody" => home.anonymous
    /\ req.who = "token" => token.live
    /\ req.who = "license" => license.live

OverNow ==
    IF req.who = "nobody" THEN NoOverride
    ELSE IF req.who = "token" /\ req.at \in Waiting \union {"license"} THEN token.over
    ELSE IF req.who = "license" /\ req.at \in NotIn THEN license.over
    ELSE req.over

BoundsNow == IF req.at \in Waiting \union {"license", "entitled"} THEN license.bound ELSE req.bounds

Admits(n) ==
    /\ req.who = "nobody" => n \in AnonymousPackageNames
    /\ req.who = "license" => BoundsNow[n] # NotEntitled

NamesThere == {n \in Name : (req.who = "token" => n \in AllPackageNames) /\ Admits(n)}
NamesNow  == IF req.at \in {"repo policy", "summaries"} THEN req.names ELSE NamesThere
Passed == req.at \in {"repo policy", "grant policy", "versions", "serves"} \/ Admits(req.name)
Bound  == IF req.who = "license" THEN BoundsNow[req.name] ELSE NoBound

Folded == Effective(OverNow, home.policy)
Base   == IF req.at \in {"summaries", "grant policy"} THEN req.policy ELSE Folded
Finals == IF req.at = "versions" THEN {req.policy} ELSE {Effective(g, Base) : g \in GrantPolicy(req.name)}

GetsRoot(r)  == NameOf[r] \in NamesNow
GetsIndex(r) == NameOf[r] \in NamesNow /\ ServedScope(r) /\ PolicyGate(r, Base)
GetsP2(r, all) ==
    /\ NameOf[r] = req.name /\ Passed /\ ServedScope(r) /\ InBound(r, Bound)
    /\ IF all THEN \A p \in Finals : PolicyGate(r, p) ELSE \E p \in Finals : PolicyGate(r, p)
GetsDist(r)  == NameOf[r] = req.name /\ Passed /\ r \in RepoServesDist(req.name, DistOf[req.row])
GetsPath(r)  ==
    /\ req.at = "send" => r = req.row
    /\ req.at = "allows" => r = req.row /\ Admits(req.name)
    /\ req.at \notin {"allows", "send"} => r \in DistByUpstreamPath(PathOf[req.row]) /\ Admits(NameOf[r])

(* Of several policies of a grant one is read: some lets it through, or all *)
(* do.                                                                      *)
Gets(r, all) ==
    IF req.at = "done" THEN r \in req.got
    ELSE /\ LetIn
         /\ req.kind = "root" => GetsRoot(r)
         /\ req.kind = "index" => GetsIndex(r)
         /\ req.kind = "p2" => GetsP2(r, all)
         /\ req.kind = "dist" => GetsDist(r)
         /\ req.kind = "path" => GetsPath(r)

(* What has been read is what would be read now.                            *)
Reads ==
    /\ LetIn <=> Standing
    /\ OverNow = CredentialOverride(req.who)
    /\ req.who = "license" => BoundsNow = license.bound
    /\ req.kind = "index" => \A n \in NamesNow : Admits(n)
    /\ req.kind \in {"index", "p2"} /\ req.at # "versions" => Base = Folded
    /\ req.kind \in {"p2", "dist"} => (Passed <=> Admits(req.name))
    /\ req.kind = "p2" => Finals \subseteq {Effective(g, Folded) : g \in GrantPolicy(req.name)}

Stages == NotIn \union {"names", "allows", "find", "repo policy", "grant policy", "versions", "summaries",
                        "serves", "send", "done"}
RequestRow ==
    [at : Stages, kind : Kind, who : Who, name : Name, row : Row,
     access : {"none", "anonymous", "full", "licensed"}, over : Override, bounds : [Name -> LicenseBound],
     policy : Policy, names : SUBSET Name, got : SUBSET Row]

RequestRows ==
    /\ req \in RequestRow
    /\ req.who = "nobody" => req.over = NoOverride
    /\ req.at \in {"license", "entitled", "license policy"} => req.who # "nobody"
    /\ req.at \in {"entitled", "license policy"} => req.who = "license"
    /\ req.at \in {"arrived", "authorize", "license", "entitled", "license policy", "done"} \union
          (CASE req.kind = "root"  -> {"names"}
             [] req.kind = "index" -> {"names", "repo policy", "summaries"}
             [] req.kind = "p2"    -> {"allows", "repo policy", "grant policy", "versions"}
             [] req.kind = "dist"  -> {"allows", "serves"}
             [] req.kind = "path"  -> {"find", "allows", "send"})
    /\ req.at \notin NotIn \union {"done"} =>
          req.access = (CASE req.who = "nobody"  -> "anonymous"
                          [] req.who = "token"   -> "full"
                          [] req.who = "license" -> "licensed")
    /\ req.kind = "path" /\ req.at \in {"allows", "send"} => req.name = NameOf[req.row]

Sure(r) == req.kind = "p2" => \A g \in GrantPolicy(req.name) : Clears(r, {CredentialOverride(req.who), g})

-----------------------------------------------------------------------------
LEMMA OverridesAre ==
    ASSUME WorldRows, RequestRows
    PROVE  /\ CredentialOverride(req.who) \in Override
           /\ \A n : GrantPolicy(n) \subseteq Override
BY NoneIsOverride, WorldIs DEF WorldRows, RequestRows, RequestRow, Who, CredentialOverride, GrantPolicy, Grant

LEMMA UnlocksIs ==
    ASSUME RequestRows, Reads, NEW n \in Name
    PROVE  Unlocks(req.who, n) <=> Standing /\ Admits(n)
<1>1. req.who \in Who
  BY DEF RequestRows, RequestRow
<1>2. n \in AnonymousPackageNames <=> /\ \E r \in Row : NameOf[r] = n /\ Reaches(r)
                                      /\ \A r \in Row : NameOf[r] = n /\ Reaches(r) => public[r]
  BY DEF AnonymousPackageNames
<1>3. CASE req.who = "nobody"
  BY <1>2, <1>3 DEF Unlocks, Standing, Admits
<1>4. CASE req.who = "token"
  BY <1>4 DEF Unlocks, Standing, Admits
<1>5. CASE req.who = "license"
  BY <1>5 DEF Unlocks, Standing, Admits, Reads
<1>. QED
  BY <1>1, <1>3, <1>4, <1>5 DEF Who

(* A request that has read nothing stale is answered as in an instant.      *)
UpToDate ==
    /\ WorldRows /\ RequestRows /\ Reads /\ req.at # "done"
    /\ req.kind = "path" => req.at \notin {"allows", "send"}
Known(r) == req.kind = "index" /\ req.at \in {"repo policy", "summaries"} => NameOf[r] \in req.names

LEMMA CertainIs == \A r : r \in Certain <=> r \in Moment /\ Sure(r)
BY DEF Certain, Sure

LEMMA FreshAgrees ==
    UpToDate => \A r \in Row : /\ Gets(r, FALSE) => r \in Moment
                               /\ r \in Certain /\ Known(r) => Gets(r, TRUE)
<1>. SUFFICES ASSUME WorldRows, RequestRows, Reads, req.at # "done",
                     req.kind = "path" => req.at \notin {"allows", "send"}, NEW r \in Row
              PROVE  /\ Gets(r, FALSE) => r \in Moment
                     /\ r \in Moment /\ Sure(r) /\ Known(r) => Gets(r, TRUE)
  BY CertainIs DEF UpToDate
<1>. DEFINE o == CredentialOverride(req.who)
            n == NameOf[r]
<1>1. req.kind \in Kind /\ req.who \in Who /\ n \in Name /\ req.name \in Name /\ req.row \in Row
  BY ServingAssumption DEF RequestRows, RequestRow
<1>2. /\ Unlocks(req.who, n) <=> LetIn /\ Admits(n)
      /\ Unlocks(req.who, req.name) <=> LetIn /\ Admits(req.name)
  BY <1>1, UnlocksIs DEF Reads
<1>3. o \in Override /\ GrantPolicy(req.name) \subseteq Override /\ OverNow = o
  BY OverridesAre DEF Reads
<1>. HIDE DEF o, n
<1>4. ServedScope(r) => n \in AllPackageNames
  BY DEF AllPackageNames, n
<1>5. CASE req.kind = "root"
  <2>1. r \in Moment <=> Unlocks(req.who, n) /\ (req.who = "token" => n \in AllPackageNames)
    BY <1>5 DEF Moment, AllPackageNames, n
  <2>2. Gets(r, FALSE) <=> LetIn /\ n \in NamesNow
    BY <1>5 DEF Gets, GetsRoot, n
  <2>3. Gets(r, TRUE) <=> LetIn /\ n \in NamesNow
    BY <1>5 DEF Gets, GetsRoot, n
  <2>4. NamesNow = NamesThere
    BY <1>5 DEF NamesNow, RequestRows, Waiting
  <2>. QED
    BY <2>1, <2>2, <2>3, <2>4, <1>1, <1>2 DEF NamesThere
<1>6. CASE req.kind = "index"
  <2>1. r \in Moment <=> InIndex(r) /\ Unlocks(req.who, n) /\ Clears(r, {o})
    BY <1>6 DEF Moment, n, o
  <2>2. /\ Gets(r, FALSE) <=> LetIn /\ n \in NamesNow /\ ServedScope(r) /\ PolicyGate(r, Base)
        /\ Gets(r, TRUE) <=> LetIn /\ n \in NamesNow /\ ServedScope(r) /\ PolicyGate(r, Base)
    BY <1>6 DEF Gets, GetsIndex, n
  <2>3. Base = Effective(o, home.policy) /\ \A m \in NamesNow : Admits(m)
    BY <1>6, <1>3 DEF Reads, Folded, RequestRows, NotIn, Waiting
  <2>5. Admits(n) /\ ServedScope(r) /\ Known(r) => n \in NamesNow
    BY <1>1, <1>4, <1>6 DEF NamesNow, NamesThere, Known, n
  <2>4. ServedScope(r) /\ PolicyGate(r, Base) <=> InIndex(r) /\ Clears(r, {o})
    BY <2>3, <1>3, GateOfOne DEF InIndex
  <2>. QED
    BY <2>1, <2>2, <2>3, <2>4, <2>5, <1>1, <1>2 DEF InIndex
<1>7. CASE req.kind = "p2"
  <2>1. r \in Moment <=> /\ n = req.name /\ InIndex(r) /\ Unlocks(req.who, req.name)
                         /\ \E g \in GrantPolicy(req.name) : Clears(r, {o, g})
                         /\ req.who = "license" => InBound(r, license.bound[req.name])
    BY <1>7 DEF Moment, n, o
  <2>2. Gets(r, FALSE) <=> /\ LetIn /\ n = req.name /\ Passed /\ ServedScope(r) /\ InBound(r, Bound)
                           /\ \E p \in Finals : PolicyGate(r, p)
    BY <1>7 DEF Gets, GetsP2, n
  <2>3. Gets(r, TRUE) <=> /\ LetIn /\ n = req.name /\ Passed /\ ServedScope(r) /\ InBound(r, Bound)
                          /\ \A p \in Finals : PolicyGate(r, p)
    BY <1>7 DEF Gets, GetsP2, n
  <2>4. /\ Finals \subseteq {Effective(g, Effective(o, home.policy)) : g \in GrantPolicy(req.name)}
        /\ Passed <=> Admits(req.name)
    BY <1>7, <1>3 DEF Reads, Folded
  <2>5. InBound(r, Bound) <=> (req.who = "license" => InBound(r, license.bound[req.name]))
    <3>1. NoBound.until = Unbounded /\ NoBound.major = Unbounded
      BY DEF NoBound
    <3>. QED
      BY <3>1 DEF InBound, Bound, Reads
  <2>6. \A g \in GrantPolicy(req.name) : ServedScope(r) /\ PolicyGate(r, Effective(g, Effective(o, home.policy)))
                                            <=> InIndex(r) /\ Clears(r, {o, g})
    BY <1>3, GateIs DEF InIndex
  <2>7. ASSUME Gets(r, FALSE)
        PROVE  r \in Moment
    <3>1. PICK p \in Finals : PolicyGate(r, p)
      BY <2>2, <2>7
    <3>2. PICK g \in GrantPolicy(req.name) : p = Effective(g, Effective(o, home.policy))
      BY <3>1, <2>4
    <3>. QED
      BY <3>1, <3>2, <2>1, <2>2, <2>4, <2>5, <2>6, <2>7, <1>2
  <2>8. ASSUME r \in Moment, Sure(r)
        PROVE  Gets(r, TRUE)
    <3>1. \A g \in GrantPolicy(req.name) : Clears(r, {o, g})
      BY <1>7, <2>8 DEF Sure, o
    <3>2. \A p \in Finals : PolicyGate(r, p)
      BY <3>1, <2>1, <2>4, <2>6, <2>8
    <3>. QED
      BY <3>2, <2>1, <2>3, <2>4, <2>5, <2>8, <1>2 DEF InIndex
  <2>. QED
    BY <2>7, <2>8
<1>8. CASE req.kind = "dist"
  <2>1. r \in Moment <=> n = req.name /\ DistOf[r] = DistOf[req.row] /\ Fetchable(r) /\ Unlocks(req.who, req.name)
    BY <1>8 DEF Moment, n
  <2>2. /\ Gets(r, FALSE) <=> LetIn /\ n = req.name /\ Passed /\ r \in RepoServesDist(req.name, DistOf[req.row])
        /\ Gets(r, TRUE) <=> LetIn /\ n = req.name /\ Passed /\ r \in RepoServesDist(req.name, DistOf[req.row])
    BY <1>8 DEF Gets, GetsDist, n
  <2>3. Passed <=> Admits(req.name)
    BY <1>8 DEF Reads
  <2>4. n = req.name /\ r \in RepoServesDist(req.name, DistOf[req.row])
            <=> n = req.name /\ DistOf[r] = DistOf[req.row] /\ Fetchable(r)
    BY DEF RepoServesDist, Fetchable, n
  <2>. QED
    BY <2>1, <2>2, <2>3, <2>4, <1>2
<1>9. CASE req.kind = "path"
  <2>1. r \in Moment <=> /\ PathOf[r] = PathOf[req.row] /\ OwnOrMember(r) /\ Fetchable(r) /\ Unlocks(req.who, n)
                         /\ ~\E s \in Row : /\ PathOf[s] = PathOf[r] /\ RowId[s] < RowId[r]
                                            /\ OwnOrMember(s) /\ Fetchable(s)
    BY <1>9 DEF Moment, n
  <2>2. /\ Gets(r, FALSE) <=> LetIn /\ r \in DistByUpstreamPath(PathOf[req.row]) /\ Admits(n)
        /\ Gets(r, TRUE) <=> LetIn /\ r \in DistByUpstreamPath(PathOf[req.row]) /\ Admits(n)
    BY <1>9 DEF Gets, GetsPath, n
  <2>3. \A s \in Row : OwnOrMember(s) /\ Fetchable(s)
            <=> OwnOrMember(s) /\ (home.private \/ public[s]) /\ ver[s].live /\ ~ver[s].yanked
    BY DEF Fetchable, ServedScope, Reaches
  <2>4. \A s, t \in Row : RowId[s] <= RowId[t] <=> ~ (RowId[t] < RowId[s])
    BY ServingAssumption
  <2>5. r \in DistByUpstreamPath(PathOf[req.row])
            <=> /\ PathOf[r] = PathOf[req.row] /\ OwnOrMember(r) /\ Fetchable(r)
                /\ ~\E s \in Row : /\ PathOf[s] = PathOf[r] /\ RowId[s] < RowId[r]
                                   /\ OwnOrMember(s) /\ Fetchable(s)
    BY <2>3, <2>4 DEF DistByUpstreamPath
  <2>. QED
    BY <2>1, <2>2, <2>5, <1>2
<1>. QED
  BY <1>1, <1>5, <1>6, <1>7, <1>8, <1>9 DEF Kind

-----------------------------------------------------------------------------
(* The steps of a request.                                                  *)

Preserves ==
    /\ RequestRows'
    /\ \A r \in Row : /\ Gets(r, FALSE)' => Gets(r, FALSE)
                      /\ Gets(r, TRUE) => Gets(r, TRUE)'
    /\ Reads /\ req'.at # "done" => Reads'

LEMMA WorldStays ==
    ASSUME UNCHANGED world
    PROVE  /\ UNCHANGED <<ver, public, grants, home, token, license>>
           /\ \A r : Reaches(r)' = Reaches(r) /\ ServedScope(r)' = ServedScope(r) /\ OwnOrMember(r)' = OwnOrMember(r)
           /\ \A r, p : PolicyGate(r, p)' = PolicyGate(r, p)
           /\ AnonymousPackageNames' = AnonymousPackageNames /\ AllPackageNames' = AllPackageNames
           /\ \A n : GrantPolicy(n)' = GrantPolicy(n)
           /\ \A p : DistByUpstreamPath(p)' = DistByUpstreamPath(p)
           /\ \A n, b : RepoServesDist(n, b)' = RepoServesDist(n, b)
           /\ \A who : CredentialOverride(who)' = CredentialOverride(who)
<1>1. UNCHANGED <<ver, public, grants, home, token, license>>
  BY DEF world
<1>. QED
  BY <1>1 DEF Reaches, ServedScope, OwnOrMember, Own, MemberExists, GrantRuleExists, PolicyGate,
      AnonymousPackageNames, AllPackageNames, GrantPolicy, DistByUpstreamPath, RepoServesDist, CredentialOverride

LEMMA AllowsIs ==
    ASSUME RequestRows, req.at \notin NotIn \union {"done"}, NEW n
    PROVE  (Allows(n) <=> Admits(n)) /\ BoundFor(req.name) = Bound /\ ReadableNames = NamesThere
<1>1. /\ req.who \in Who /\ req.at \notin Waiting \union {"license", "entitled"}
      /\ req.access = (CASE req.who = "nobody"  -> "anonymous"
                          [] req.who = "token"   -> "full"
                          [] req.who = "license" -> "licensed")
  BY DEF RequestRows, RequestRow, NotIn
<1>2. AnonymousPackageNames \subseteq Name /\ AllPackageNames \subseteq Name
  BY ServingAssumption DEF AnonymousPackageNames, AllPackageNames
<1>3. CASE req.who = "nobody"
  BY <1>1, <1>2, <1>3 DEF Allows, Admits, BoundFor, Bound, ReadableNames, NamesThere
<1>4. CASE req.who = "token"
  BY <1>1, <1>2, <1>4 DEF Allows, Admits, BoundFor, Bound, ReadableNames, NamesThere
<1>5. CASE req.who = "license"
  BY <1>1, <1>5 DEF Allows, Admits, BoundFor, Bound, BoundsNow, ReadableNames, NamesThere
<1>. QED
  BY <1>1, <1>3, <1>4, <1>5 DEF Who

(* An answer ends the request.                                              *)
LEMMA AnswerEnds ==
    ASSUME RequestRows, NEW from, NEW got \in SUBSET Row, Answer(from, got),
           \A r \in Row : /\ r \in got => Gets(r, FALSE)
                          /\ Gets(r, TRUE) => r \in got
    PROVE  Preserves
<1>1. req' = [req EXCEPT !.at = "done", !.got = got] /\ req \in RequestRow
  BY DEF Answer, RequestRows
<1>2. /\ req'.at = "done" /\ req'.got = got /\ req' \in RequestRow
      /\ req'.who = req.who /\ req'.over = req.over
  BY <1>1 DEF RequestRow, Stages
<1>3. RequestRows'
  BY <1>2 DEF RequestRows, NotIn, Waiting
<1>4. \A r, all : Gets(r, all)' <=> r \in got
  BY <1>2 DEF Gets
<1>. QED
  BY <1>2, <1>3, <1>4 DEF Preserves

LEMMA AnswersNothing ==
    ASSUME RequestRows, NEW from, Answer(from, {}), \A r \in Row : ~ Gets(r, TRUE)
    PROVE  Preserves
<1>1. PICK got \in SUBSET Row : got = {}
  OBVIOUS
<1>2. Answer(from, got)
  BY <1>1
<1>3. \A r \in Row : (r \in got => Gets(r, FALSE)) /\ (Gets(r, TRUE) => r \in got)
  BY <1>1
<1>. QED
  BY <1>2, <1>3, AnswerEnds

(* Up to the first read that its route makes of the packages.               *)
Front == NotIn \union {"names", "find"} \union (IF req.kind = "path" THEN {} ELSE {"allows"})

LEMMA FrontStays ==
    ASSUME UNCHANGED world, RequestRows, RequestRows', req.at \in Front, req'.at \in Front,
           req'.kind = req.kind, req'.who = req.who, req'.name = req.name, req'.row = req.row,
           LetIn' <=> LetIn, OverNow' = OverNow, req.who = "license" => BoundsNow' = BoundsNow
    PROVE  Preserves
<1>1. /\ req.at \notin {"repo policy", "summaries", "grant policy", "versions", "serves", "send", "done"}
      /\ req'.at \notin {"repo policy", "summaries", "grant policy", "versions", "serves", "send", "done"}
      /\ req.kind = "path" => req.at # "allows" /\ req'.at # "allows"
  BY DEF Front, NotIn, Waiting
<1>2. \A n : Admits(n)' <=> Admits(n)
  BY WorldStays DEF Admits
<1>3. NamesThere' = NamesThere /\ NamesNow' = NamesNow
  BY <1>1, <1>2, WorldStays DEF NamesThere, NamesNow
<1>4. Passed' <=> Passed
  BY <1>1, <1>2 DEF Passed
<1>5. Folded' = Folded /\ Base' = Base
  BY <1>1, WorldStays DEF Folded, Base
<1>6. Finals' = Finals
  BY <1>1, <1>5, WorldStays DEF Finals
<1>7. Bound' = Bound
  BY DEF Bound
<1>8. ASSUME NEW r \in Row
      PROVE  /\ GetsRoot(r)' <=> GetsRoot(r)
             /\ GetsIndex(r)' <=> GetsIndex(r)
             /\ GetsDist(r)' <=> GetsDist(r)
             /\ GetsP2(r, TRUE)' <=> GetsP2(r, TRUE)
             /\ GetsP2(r, FALSE)' <=> GetsP2(r, FALSE)
  <2>1. (GetsRoot(r)' <=> GetsRoot(r)) /\ (GetsIndex(r)' <=> GetsIndex(r))
    BY <1>3, <1>5, WorldStays DEF GetsRoot, GetsIndex
  <2>2. GetsDist(r)' <=> GetsDist(r)
    BY <1>4, WorldStays DEF GetsDist
  <2>3. (GetsP2(r, TRUE)' <=> GetsP2(r, TRUE)) /\ (GetsP2(r, FALSE)' <=> GetsP2(r, FALSE))
    BY <1>4, <1>6, <1>7, WorldStays DEF GetsP2, InBound
  <2>. QED
    BY <2>1, <2>2, <2>3
<1>9. ASSUME NEW r \in Row, req.kind = "path"
      PROVE  GetsPath(r)' <=> GetsPath(r)
  BY <1>9, <1>1, <1>2, WorldStays DEF GetsPath
<1>10. \A r \in Row : (Gets(r, TRUE)' <=> Gets(r, TRUE)) /\ (Gets(r, FALSE)' <=> Gets(r, FALSE))
  BY <1>1, <1>8, <1>9 DEF Gets
<1>11. Standing' <=> Standing
  BY WorldStays DEF Standing
<1>12. CredentialOverride(req.who)' = CredentialOverride(req.who)
  BY WorldStays
<1>13. Reads => Reads'
  BY <1>1, <1>2, <1>3, <1>4, <1>5, <1>6, <1>11, <1>12, WorldStays DEF Reads
<1>. QED
  BY <1>10, <1>13 DEF Preserves

LEMMA AfterAuthorizeIs ==
    ASSUME RequestRows
    PROVE  /\ AfterAuthorize \in Front /\ AfterAuthorize \in Stages
           /\ AfterAuthorize \notin NotIn \union {"done", "send", "repo policy"}
           /\ req.kind = "root" => AfterAuthorize = "names"
           /\ req.kind = "index" => AfterAuthorize = "names"
           /\ req.kind \in {"p2", "dist"} => AfterAuthorize = "allows"
           /\ req.kind = "path" => AfterAuthorize = "find"
BY DEF RequestRows, RequestRow, Kind, AfterAuthorize, Front, Stages, NotIn, Waiting

LEMMA ArrivesKeeps ==
    ASSUME WorldRows, RequestRows, Step("arrived", "authorize")
    PROVE  Preserves
<1>1. /\ req' = [req EXCEPT !.at = "authorize"] /\ req.at = "arrived" /\ UNCHANGED world /\ req \in RequestRow
  BY DEF Step, RequestRows
<1>2. /\ req' \in RequestRow /\ req'.at = "authorize" /\ req'.kind = req.kind /\ req'.who = req.who
      /\ req'.name = req.name /\ req'.row = req.row /\ req'.over = req.over /\ req'.bounds = req.bounds
  BY <1>1 DEF RequestRow, Stages, NotIn, Waiting
<1>3. RequestRows'
  BY <1>2 DEF RequestRows, NotIn, Waiting
<1>4. (LetIn' <=> LetIn) /\ OverNow' = OverNow /\ BoundsNow' = BoundsNow
  BY <1>1, <1>2, WorldStays DEF LetIn, OverNow, BoundsNow, Waiting, NotIn
<1>. QED
  BY <1>1, <1>2, <1>3, <1>4, FrontStays DEF Front, NotIn, Waiting

LEMMA NobodyGets ==
    ASSUME ~ LetIn, req.at # "done"
    PROVE  \A r \in Row : ~ Gets(r, TRUE)
BY DEF Gets

LEMMA IndexSettingsKeeps ==
    ASSUME WorldRows, RequestRows, IndexSettings
    PROVE  Preserves
<1>1. CASE Step("arrived", "authorize")
  BY <1>1, ArrivesKeeps
<1>2. CASE req.who = "nobody" /\ ~home.anonymous /\ Answer("arrived", {})
  <2>1. ~ LetIn /\ req.at = "arrived"
    BY <1>2 DEF LetIn, Waiting, Answer
  <2>. QED
    BY <1>2, <2>1, NobodyGets, AnswersNothing
<1>. QED
  BY <1>1, <1>2 DEF IndexSettings

LEMMA AuthorizeAnonymousKeeps ==
    ASSUME WorldRows, RequestRows, AuthorizeAnonymous
    PROVE  Preserves
<1>1. req.at = "authorize" /\ req.who = "nobody" /\ req \in RequestRow
  BY DEF AuthorizeAnonymous, RequestRows
<1>2. CASE home.anonymous
  <2>1. /\ req' = [req EXCEPT !.at = AfterAuthorize, !.access = "anonymous", !.over = NoOverride, !.bounds = req.bounds]
        /\ UNCHANGED world
    BY <1>2 DEF AuthorizeAnonymous, Admit
  <2>2. /\ req' \in RequestRow /\ req'.at = AfterAuthorize /\ req'.kind = req.kind /\ req'.who = req.who
        /\ req'.name = req.name /\ req'.row = req.row /\ req'.over = NoOverride /\ req'.access = "anonymous"
    BY <1>1, <2>1, AfterAuthorizeIs, NoneIsOverride DEF RequestRow
  <2>3. RequestRows'
    BY <1>1, <2>2, AfterAuthorizeIs DEF RequestRows, RequestRow, NotIn, Waiting, Kind
  <2>4. (LetIn' <=> LetIn) /\ OverNow' = OverNow
    BY <1>1, <1>2, <2>2, AfterAuthorizeIs DEF LetIn, OverNow, Waiting, NotIn
  <2>. QED
    BY <1>1, <2>1, <2>2, <2>3, <2>4, AfterAuthorizeIs, FrontStays DEF Front, NotIn, Waiting
<1>3. CASE ~ home.anonymous
  <2>1. ~ LetIn /\ Answer("authorize", {})
    BY <1>1, <1>3 DEF LetIn, Waiting, AuthorizeAnonymous
  <2>. QED
    BY <1>1, <2>1, NobodyGets, AnswersNothing
<1>. QED
  BY <1>2, <1>3

LEMMA ResolveTokenPolicyKeeps ==
    ASSUME WorldRows, RequestRows, ResolveTokenPolicy
    PROVE  Preserves
<1>1. req.at = "authorize" /\ req.who # "nobody" /\ req.who \in Who /\ req \in RequestRow
  BY DEF ResolveTokenPolicy, RequestRows, RequestRow
<1>2. CASE req.who = "token" /\ token.live
  <2>1. /\ req' = [req EXCEPT !.at = AfterAuthorize, !.access = "full", !.over = token.over, !.bounds = req.bounds]
        /\ UNCHANGED world
    BY <1>2 DEF ResolveTokenPolicy, Admit
  <2>2. /\ req' \in RequestRow /\ req'.at = AfterAuthorize /\ req'.kind = req.kind /\ req'.who = req.who
        /\ req'.name = req.name /\ req'.row = req.row /\ req'.over = token.over /\ req'.access = "full"
    BY <1>1, <2>1, AfterAuthorizeIs, WorldIs DEF RequestRow
  <2>3. RequestRows'
    BY <1>1, <1>2, <2>2, AfterAuthorizeIs DEF RequestRows, RequestRow, NotIn, Waiting, Kind
  <2>4. (LetIn' <=> LetIn) /\ OverNow' = OverNow
    BY <1>1, <1>2, <2>2, AfterAuthorizeIs DEF LetIn, OverNow, Waiting, NotIn
  <2>. QED
    BY <1>1, <1>2, <2>1, <2>2, <2>3, <2>4, AfterAuthorizeIs, FrontStays DEF Front, NotIn, Waiting
<1>3. CASE ~ (req.who = "token" /\ token.live)
  <2>1. req' = [req EXCEPT !.at = "license"] /\ UNCHANGED world
    BY <1>3 DEF ResolveTokenPolicy, Step
  <2>2. /\ req' \in RequestRow /\ req'.at = "license" /\ req'.kind = req.kind /\ req'.who = req.who
        /\ req'.name = req.name /\ req'.row = req.row /\ req'.over = req.over /\ req'.bounds = req.bounds
    BY <1>1, <2>1 DEF RequestRow, Stages, NotIn, Waiting
  <2>3. RequestRows'
    BY <1>1, <2>2 DEF RequestRows, NotIn, Waiting
  <2>4. (LetIn' <=> LetIn) /\ OverNow' = OverNow /\ BoundsNow' = BoundsNow
    BY <1>1, <1>3, <2>1, <2>2, WorldStays DEF LetIn, OverNow, BoundsNow, Waiting, NotIn, Who
  <2>. QED
    BY <1>1, <2>1, <2>2, <2>3, <2>4, FrontStays DEF Front, NotIn, Waiting
<1>. QED
  BY <1>2, <1>3

LEMMA ResolveLicenseKeeps ==
    ASSUME WorldRows, RequestRows, ResolveLicense
    PROVE  Preserves
<1>1. req.at = "license" /\ req.who \in {"token", "license"} /\ req \in RequestRow
  BY DEF ResolveLicense, Step, Answer, RequestRows, RequestRow, Who
<1>2. CASE req.who = "license" /\ license.live
  <2>1. req' = [req EXCEPT !.at = "entitled"] /\ UNCHANGED world
    BY <1>2 DEF ResolveLicense, Step
  <2>2. /\ req' \in RequestRow /\ req'.at = "entitled" /\ req'.kind = req.kind /\ req'.who = req.who
        /\ req'.name = req.name /\ req'.row = req.row /\ req'.over = req.over /\ req'.bounds = req.bounds
    BY <1>1, <2>1 DEF RequestRow, Stages, NotIn, Waiting
  <2>3. RequestRows'
    BY <1>1, <1>2, <2>2 DEF RequestRows, NotIn, Waiting
  <2>4. (LetIn' <=> LetIn) /\ OverNow' = OverNow /\ BoundsNow' = BoundsNow
    BY <1>1, <1>2, <2>1, <2>2, WorldStays DEF LetIn, OverNow, BoundsNow, Waiting, NotIn
  <2>. QED
    BY <1>1, <2>1, <2>2, <2>3, <2>4, FrontStays DEF Front, NotIn, Waiting
<1>3. CASE ~ (req.who = "license" /\ license.live)
  <2>1. ~ LetIn /\ Answer("license", {})
    BY <1>1, <1>3 DEF LetIn, Waiting, ResolveLicense
  <2>. QED
    BY <1>1, <2>1, NobodyGets, AnswersNothing
<1>. QED
  BY <1>2, <1>3

LEMMA EntitledPackageBoundsKeeps ==
    ASSUME WorldRows, RequestRows, EntitledPackageBounds
    PROVE  Preserves
<1>1. /\ req.at = "entitled" /\ req.who = "license" /\ req \in RequestRow /\ UNCHANGED world
      /\ req' = [req EXCEPT !.at = "license policy", !.access = "licensed", !.over = req.over, !.bounds = license.bound]
  BY DEF EntitledPackageBounds, Admit, RequestRows
<1>2. /\ req' \in RequestRow /\ req'.at = "license policy" /\ req'.kind = req.kind /\ req'.who = req.who
      /\ req'.name = req.name /\ req'.row = req.row /\ req'.bounds = license.bound
  BY <1>1, WorldIs DEF RequestRow, Stages, NotIn, Waiting
<1>3. RequestRows'
  BY <1>1, <1>2 DEF RequestRows, NotIn, Waiting
<1>4. (LetIn' <=> LetIn) /\ OverNow' = OverNow /\ BoundsNow' = BoundsNow
  BY <1>1, <1>2, WorldStays DEF LetIn, OverNow, BoundsNow, Waiting, NotIn
<1>. QED
  BY <1>1, <1>2, <1>3, <1>4, FrontStays DEF Front, NotIn, Waiting

LEMMA LicensePolicyKeeps ==
    ASSUME WorldRows, RequestRows, LicensePolicy
    PROVE  Preserves
<1>1. /\ req.at = "license policy" /\ req.who = "license" /\ req \in RequestRow /\ UNCHANGED world
      /\ req' = [req EXCEPT !.at = AfterAuthorize, !.access = "licensed", !.over = license.over, !.bounds = req.bounds]
  BY DEF LicensePolicy, Admit, RequestRows
<1>2. /\ req' \in RequestRow /\ req'.at = AfterAuthorize /\ req'.kind = req.kind /\ req'.who = req.who
      /\ req'.name = req.name /\ req'.row = req.row /\ req'.bounds = req.bounds /\ req'.over = license.over
      /\ req'.access = "licensed"
  BY <1>1, AfterAuthorizeIs, WorldIs DEF RequestRow
<1>3. RequestRows'
  BY <1>1, <1>2, AfterAuthorizeIs DEF RequestRows, RequestRow, NotIn, Waiting, Kind
<1>4. (LetIn' <=> LetIn) /\ OverNow' = OverNow /\ BoundsNow' = BoundsNow
  BY <1>1, <1>2, AfterAuthorizeIs DEF LetIn, OverNow, BoundsNow, Waiting, NotIn
<1>. QED
  BY <1>1, <1>2, <1>3, <1>4, AfterAuthorizeIs, FrontStays DEF Front, NotIn, Waiting

(* Past the credential: what a read takes with it.                          *)
LEMMA PastIs ==
    ASSUME RequestRows, req.at \notin NotIn \union {"done"}
    PROVE  /\ LetIn /\ OverNow = req.over /\ BoundsNow = req.bounds
           /\ req.kind \in Kind /\ req.who \in Who
           /\ req.at = "names" => req.kind \in {"root", "index"}
           /\ req.at = "allows" => req.kind \in {"p2", "dist", "path"}
           /\ req.at \in {"find", "send"} => req.kind = "path"
           /\ req.at = "repo policy" => req.kind \in {"index", "p2"}
           /\ req.at \in {"grant policy", "versions"} => req.kind = "p2"
           /\ req.at = "summaries" => req.kind = "index"
           /\ req.at = "serves" => req.kind = "dist"
BY DEF RequestRows, RequestRow, LetIn, OverNow, BoundsNow, NotIn, Waiting, Kind

(* A read of one thing leaves the others as they were read.                 *)
LEMMA PastStays ==
    ASSUME UNCHANGED world, RequestRows, RequestRows',
           req.at \notin NotIn \union {"done"}, req'.at \notin NotIn \union {"done"},
           req'.who = req.who, req'.over = req.over, req'.bounds = req.bounds
    PROVE  /\ LetIn' /\ OverNow' = OverNow /\ BoundsNow' = BoundsNow /\ Folded' = Folded
           /\ \A n : Admits(n)' <=> Admits(n)
           /\ NamesThere' = NamesThere
           /\ CredentialOverride(req.who)' = CredentialOverride(req.who)
           /\ (LetIn <=> Standing) => (LetIn' <=> Standing')
<1>1. LetIn /\ OverNow = req.over /\ BoundsNow = req.bounds
  BY PastIs
<1>2. LetIn' /\ OverNow' = req'.over /\ BoundsNow' = req'.bounds
  BY DEF RequestRows, RequestRow, LetIn, OverNow, BoundsNow, NotIn, Waiting
<1>3. OverNow' = OverNow /\ BoundsNow' = BoundsNow
  BY <1>1, <1>2
<1>4. Folded' = Folded
  BY <1>3, WorldStays DEF Folded
<1>5. \A n : Admits(n)' <=> Admits(n)
  BY <1>3, WorldStays DEF Admits
<1>6. NamesThere' = NamesThere
  BY <1>5, WorldStays DEF NamesThere
<1>7. Standing' <=> Standing
  BY WorldStays DEF Standing
<1>8. CredentialOverride(req.who)' = CredentialOverride(req.who)
  BY WorldStays
<1>. QED
  BY <1>1, <1>2, <1>3, <1>4, <1>5, <1>6, <1>7, <1>8

LEMMA CheckAllowedKeeps ==
    ASSUME WorldRows, RequestRows, CheckAllowed
    PROVE  Preserves
<1>1. /\ req.at = "allows" /\ req.at \notin NotIn \union {"done"} /\ req \in RequestRow
      /\ req.kind \in {"p2", "dist", "path"} /\ LetIn
  BY PastIs DEF CheckAllowed, RequestRows, NotIn, Waiting
<1>2. Allows(req.name) <=> Admits(req.name)
  BY <1>1, AllowsIs
<1>3. CASE ~ Allows(req.name)
  <2>1. ~ Admits(req.name) /\ ~ Passed /\ Answer("allows", {})
    BY <1>1, <1>2, <1>3 DEF CheckAllowed, Passed
  <2>2. \A r \in Row : ~ Gets(r, TRUE)
    BY <1>1, <2>1 DEF Gets, GetsP2, GetsDist, GetsPath
  <2>. QED
    BY <2>1, <2>2, AnswersNothing
<1>4. CASE Allows(req.name)
  <2>. DEFINE to == IF req.kind = "p2" THEN "repo policy" ELSE IF req.kind = "dist" THEN "serves" ELSE "send"
  <2>1. req' = [req EXCEPT !.at = to] /\ UNCHANGED world /\ to \in {"repo policy", "serves", "send"}
    BY <1>4 DEF CheckAllowed, Step
  <2>2. /\ req' \in RequestRow /\ req'.at = to /\ req'.kind = req.kind /\ req'.who = req.who
        /\ req'.name = req.name /\ req'.row = req.row /\ req'.over = req.over /\ req'.bounds = req.bounds
        /\ req'.access = req.access
    BY <1>1, <2>1 DEF RequestRow, Stages
  <2>3. RequestRows' /\ req'.at \notin NotIn \union {"done"}
    BY <1>1, <2>2 DEF RequestRows, NotIn, Waiting
  <2>4. /\ LetIn' /\ OverNow' = OverNow /\ BoundsNow' = BoundsNow /\ Folded' = Folded
        /\ \A n : Admits(n)' <=> Admits(n)
        /\ NamesThere' = NamesThere
        /\ CredentialOverride(req.who)' = CredentialOverride(req.who)
        /\ (LetIn <=> Standing) => (LetIn' <=> Standing')
    BY <1>1, <2>1, <2>2, <2>3, PastStays
  <2>5. Passed /\ (req.kind # "path" => Passed')
    BY <1>1, <1>2, <1>4, <2>2 DEF Passed
  <2>6. req.kind = "p2" => Base' = Base /\ Base = Folded /\ Finals' = Finals
    <3>. SUFFICES ASSUME req.kind = "p2"
         PROVE  Base' = Base /\ Base = Folded /\ Finals' = Finals
      OBVIOUS
    <3>1. req.at = "allows" /\ req'.at = "repo policy"
      BY <1>1, <2>2
    <3>2. Base' = Folded' /\ Base = Folded
      BY <3>1 DEF Base
    <3>3. Base' = Base
      BY <3>2, <2>4
    <3>4. Finals' = Finals
      BY <3>1, <3>3, <2>1, <2>2, WorldStays DEF Finals
    <3>. QED
      BY <3>2, <3>3, <3>4
  <2>7. Bound' = Bound
    BY <2>2, <2>4 DEF Bound
  <2>8. ASSUME NEW r \in Row
        PROVE  /\ Gets(r, TRUE)' <=> Gets(r, TRUE)
               /\ Gets(r, FALSE)' <=> Gets(r, FALSE)
    <3>1. CASE req.kind = "p2"
      <4>1. (GetsP2(r, TRUE)' <=> GetsP2(r, TRUE)) /\ (GetsP2(r, FALSE)' <=> GetsP2(r, FALSE))
        BY <3>1, <2>1, <2>2, <2>5, <2>6, <2>7, WorldStays DEF GetsP2, InBound
      <4>. QED
        BY <3>1, <4>1, <1>1, <2>2, <2>3, <2>4 DEF Gets
    <3>2. CASE req.kind = "dist"
      <4>1. GetsDist(r)' <=> GetsDist(r)
        BY <3>2, <2>1, <2>2, <2>5, WorldStays DEF GetsDist
      <4>. QED
        BY <3>2, <4>1, <1>1, <2>2, <2>3, <2>4 DEF Gets
    <3>3. CASE req.kind = "path"
      <4>1. GetsPath(r)' <=> GetsPath(r)
        BY <3>3, <1>1, <1>2, <1>4, <2>2 DEF GetsPath
      <4>. QED
        BY <3>3, <4>1, <1>1, <2>2, <2>3, <2>4 DEF Gets
    <3>. QED
      BY <1>1, <3>1, <3>2, <3>3
  <2>9. Reads => Reads'
    <3>. SUFFICES ASSUME Reads
         PROVE  Reads'
      OBVIOUS
    <3>1. LetIn' <=> Standing'
      BY <2>4 DEF Reads
    <3>2. /\ (OverNow = CredentialOverride(req.who))'
          /\ req'.who = "license" => BoundsNow' = license.bound'
      BY <2>1, <2>2, <2>4, WorldStays DEF Reads
    <3>4. req.kind = "p2" => (Finals \subseteq {Effective(g, Folded) : g \in GrantPolicy(req.name)})'
      BY <2>1, <2>2, <2>4, <2>6, WorldStays DEF Reads
    <3>5. req'.kind # "index" /\ (req'.kind \in {"p2", "dist"} => (Passed' <=> Admits(req.name)'))
      BY <1>1, <1>2, <1>4, <2>2, <2>4, <2>5
    <3>. QED
      BY <3>1, <3>2, <3>4, <3>5, <2>2, <2>4, <2>6 DEF Reads
  <2>. QED
    BY <2>3, <2>8, <2>9 DEF Preserves
<1>. QED
  BY <1>3, <1>4

LEMMA FindUpstreamPathKeeps ==
    ASSUME WorldRows, RequestRows, FindUpstreamPath
    PROVE  Preserves
<1>1. /\ req.at = "find" /\ req.at \notin NotIn \union {"done"} /\ req \in RequestRow /\ req.kind = "path" /\ LetIn
  BY PastIs DEF FindUpstreamPath, RequestRows, NotIn, Waiting
<1>. DEFINE found == DistByUpstreamPath(PathOf[req.row])
<1>2. found \subseteq Row /\ \A r, s \in found : r = s
  <2>0. found \subseteq Row
    BY DEF DistByUpstreamPath
  <2>1. \A r, s \in found : r \in Row /\ s \in Row /\ RowId[r] <= RowId[s] /\ RowId[s] <= RowId[r]
    BY DEF DistByUpstreamPath
  <2>2. \A r \in Row : RowId[r] \in Nat
    BY ServingAssumption
  <2>. QED
    <3>. SUFFICES ASSUME NEW r \in found, NEW s \in found
         PROVE  r = s
      BY <2>0
    <3>1. r \in Row /\ s \in Row /\ RowId[r] = RowId[s]
      BY <2>1, <2>2
    <3>. QED
      BY <3>1, ServingAssumption
<1>3. \A r, all : Gets(r, all) <=> r \in found /\ Admits(NameOf[r])
  BY <1>1 DEF Gets, GetsPath
<1>4. CASE found = {}
  BY <1>3, <1>4, AnswersNothing DEF FindUpstreamPath
<1>5. CASE found # {}
  <2>1. PICK f \in found : req' = [req EXCEPT !.at = "allows", !.name = NameOf[f], !.row = f] /\ UNCHANGED world
    BY <1>5 DEF FindUpstreamPath
  <2>2. /\ req' \in RequestRow /\ req'.at = "allows" /\ req'.kind = req.kind /\ req'.who = req.who
        /\ req'.name = NameOf[f] /\ req'.row = f /\ req'.over = req.over /\ req'.bounds = req.bounds
        /\ req'.access = req.access
    BY <1>1, <1>2, <2>1, ServingAssumption DEF RequestRow, Stages
  <2>3. RequestRows' /\ req'.at \notin NotIn \union {"done"}
    BY <1>1, <2>2 DEF RequestRows, NotIn, Waiting
  <2>4. /\ LetIn' /\ OverNow' = OverNow /\ BoundsNow' = BoundsNow
        /\ \A n : Admits(n)' <=> Admits(n)
        /\ CredentialOverride(req.who)' = CredentialOverride(req.who)
        /\ (LetIn <=> Standing) => (LetIn' <=> Standing')
    BY <1>1, <2>1, <2>2, <2>3, PastStays
  <2>5. \A r, all : Gets(r, all)' <=> r = f /\ Admits(NameOf[f])
    BY <1>1, <2>2, <2>4 DEF Gets, GetsPath
  <2>6. \A r \in Row : /\ Gets(r, FALSE)' => Gets(r, FALSE)
                       /\ Gets(r, TRUE) => Gets(r, TRUE)'
    BY <1>2, <1>3, <2>5
  <2>7. Reads => Reads'
    BY <1>1, <2>1, <2>2, <2>4, WorldStays DEF Reads
  <2>. QED
    BY <2>3, <2>6, <2>7 DEF Preserves
<1>. QED
  BY <1>4, <1>5

LEMMA IndexNamesKeeps ==
    ASSUME WorldRows, RequestRows, IndexNames
    PROVE  Preserves
<1>1. /\ req.at = "names" /\ req.at \notin NotIn \union {"done"} /\ req \in RequestRow /\ req.kind = "index" /\ LetIn
  BY PastIs DEF IndexNames, RequestRows, NotIn, Waiting
<1>2. ReadableNames = NamesThere /\ NamesThere \in SUBSET Name
  BY <1>1, AllowsIs DEF NamesThere
<1>3. req' = [req EXCEPT !.at = "repo policy", !.names = NamesThere] /\ UNCHANGED world
  BY <1>2 DEF IndexNames
<1>4. /\ req' \in RequestRow /\ req'.at = "repo policy" /\ req'.kind = req.kind /\ req'.who = req.who
      /\ req'.name = req.name /\ req'.row = req.row /\ req'.over = req.over /\ req'.bounds = req.bounds
      /\ req'.access = req.access /\ req'.names = NamesThere
  BY <1>1, <1>2, <1>3 DEF RequestRow, Stages
<1>5. RequestRows' /\ req'.at \notin NotIn \union {"done"}
  BY <1>1, <1>4 DEF RequestRows, NotIn, Waiting
<1>6. /\ LetIn' /\ OverNow' = OverNow /\ BoundsNow' = BoundsNow /\ Folded' = Folded
      /\ NamesThere' = NamesThere
      /\ \A n : Admits(n)' <=> Admits(n)
      /\ CredentialOverride(req.who)' = CredentialOverride(req.who)
      /\ (LetIn <=> Standing) => (LetIn' <=> Standing')
  BY <1>1, <1>3, <1>4, <1>5, PastStays
<1>7. NamesNow' = NamesThere' /\ NamesNow = NamesThere /\ Base' = Folded' /\ Base = Folded
  BY <1>1, <1>4, <1>6 DEF NamesNow, Base
<1>8. \A r \in Row : GetsIndex(r)' <=> GetsIndex(r)
  BY <1>3, <1>6, <1>7, WorldStays DEF GetsIndex
<1>9. \A r \in Row : \A all : Gets(r, all)' <=> Gets(r, all)
  BY <1>1, <1>4, <1>6, <1>8 DEF Gets
<1>10. \A n \in NamesNow' : Admits(n)'
  BY <1>6, <1>7 DEF NamesThere
<1>11. Reads => Reads'
  BY <1>1, <1>3, <1>4, <1>6, <1>7, <1>10, WorldStays DEF Reads
<1>. QED
  BY <1>5, <1>9, <1>11 DEF Preserves

LEMMA ReadUpdatePolicyKeeps ==
    ASSUME WorldRows, RequestRows, ReadUpdatePolicy
    PROVE  Preserves
<1>1. /\ req.at = "repo policy" /\ req.at \notin NotIn \union {"done"} /\ req \in RequestRow
      /\ req.kind \in {"index", "p2"} /\ LetIn /\ OverNow = req.over
  BY PastIs DEF ReadUpdatePolicy, RequestRows, NotIn, Waiting
<1>. DEFINE to == IF req.kind = "p2" THEN "grant policy" ELSE "summaries"
<1>2. req' = [req EXCEPT !.at = to, !.policy = Folded] /\ UNCHANGED world /\ Folded \in Policy
  BY <1>1, EffectiveIs, WorldIs DEF ReadUpdatePolicy, Folded, RequestRow
<1>3. /\ req' \in RequestRow /\ req'.at = to /\ req'.kind = req.kind /\ req'.who = req.who
      /\ req'.name = req.name /\ req'.row = req.row /\ req'.over = req.over /\ req'.bounds = req.bounds
      /\ req'.access = req.access /\ req'.names = req.names /\ req'.policy = Folded
  BY <1>1, <1>2 DEF RequestRow, Stages
<1>4. RequestRows' /\ req'.at \notin NotIn \union {"done"}
  BY <1>1, <1>3 DEF RequestRows, NotIn, Waiting
<1>5. /\ LetIn' /\ OverNow' = OverNow /\ BoundsNow' = BoundsNow /\ Folded' = Folded
      /\ \A n : Admits(n)' <=> Admits(n)
      /\ NamesThere' = NamesThere
      /\ CredentialOverride(req.who)' = CredentialOverride(req.who)
      /\ (LetIn <=> Standing) => (LetIn' <=> Standing')
  BY <1>1, <1>2, <1>3, <1>4, PastStays
<1>6. Base' = Folded /\ Base = Folded
  BY <1>1, <1>3 DEF Base
<1>7. CASE req.kind = "index"
  <2>1. NamesNow' = NamesNow
    BY <1>1, <1>3, <1>7 DEF NamesNow
  <2>2. \A r \in Row : GetsIndex(r)' <=> GetsIndex(r)
    BY <2>1, <1>2, <1>6, WorldStays DEF GetsIndex
  <2>3. \A r \in Row : \A all : Gets(r, all)' <=> Gets(r, all)
    BY <2>2, <1>1, <1>3, <1>4, <1>5, <1>7 DEF Gets
  <2>4. Reads => Reads'
    BY <2>1, <1>1, <1>2, <1>3, <1>5, <1>6, <1>7, WorldStays DEF Reads
  <2>. QED
    BY <2>3, <2>4, <1>4 DEF Preserves
<1>8. CASE req.kind = "p2"
  <2>1. Passed /\ Passed'
    BY <1>1, <1>3, <1>8 DEF Passed
  <2>2. req.at # "versions" /\ req'.at # "versions" /\ Base' = Base
    BY <1>1, <1>3, <1>6
  <2>3. Finals' = Finals
    BY <2>2, <1>2, <1>3, WorldStays DEF Finals
  <2>4. Bound' = Bound
    BY <1>3, <1>5 DEF Bound
  <2>5. \A r \in Row : /\ GetsP2(r, TRUE)' <=> GetsP2(r, TRUE)
                       /\ GetsP2(r, FALSE)' <=> GetsP2(r, FALSE)
    BY <2>1, <2>3, <2>4, <1>2, <1>3, WorldStays DEF GetsP2, InBound
  <2>6. \A r \in Row : (Gets(r, TRUE)' <=> Gets(r, TRUE)) /\ (Gets(r, FALSE)' <=> Gets(r, FALSE))
    BY <2>5, <1>1, <1>3, <1>4, <1>5, <1>8 DEF Gets
  <2>7. ASSUME Reads
        PROVE  Reads'
    <3>1. (Finals \subseteq {Effective(g, Folded) : g \in GrantPolicy(req.name)})'
      BY <2>3, <2>7, <1>2, <1>3, <1>5, <1>8, WorldStays DEF Reads
    <3>2. (Passed <=> Admits(req.name))'
      BY <2>1, <2>7, <1>3, <1>5, <1>8 DEF Reads
    <3>. QED
      BY <3>1, <3>2, <2>7, <1>1, <1>2, <1>3, <1>5, <1>6, <1>8, WorldStays DEF Reads
  <2>. QED
    BY <2>6, <2>7, <1>4 DEF Preserves
<1>. QED
  BY <1>1, <1>7, <1>8

LEMMA ReadGrantPolicyKeeps ==
    ASSUME WorldRows, RequestRows, ReadGrantPolicy
    PROVE  Preserves
<1>1. /\ req.at = "grant policy" /\ req.at \notin NotIn \union {"done"} /\ req \in RequestRow
      /\ req.kind = "p2" /\ LetIn
  BY PastIs DEF ReadGrantPolicy, RequestRows, NotIn, Waiting
<1>2. PICK g \in GrantPolicy(req.name) :
          req' = [req EXCEPT !.at = "versions", !.policy = Effective(g, req.policy)]
  BY DEF ReadGrantPolicy
<1>3. UNCHANGED world
  BY DEF ReadGrantPolicy
<1>4. Effective(g, req.policy) \in Policy
  BY <1>1, EffectiveIs, OverridesAre DEF RequestRow
<1>5. /\ req' \in RequestRow /\ req'.at = "versions" /\ req'.kind = req.kind /\ req'.who = req.who
      /\ req'.name = req.name /\ req'.row = req.row /\ req'.over = req.over /\ req'.bounds = req.bounds
      /\ req'.access = req.access /\ req'.policy = Effective(g, req.policy)
  BY <1>1, <1>2, <1>4 DEF RequestRow, Stages
<1>6. RequestRows' /\ req'.at \notin NotIn \union {"done"}
  BY <1>1, <1>5 DEF RequestRows, NotIn, Waiting
<1>7. /\ LetIn' /\ OverNow' = OverNow /\ BoundsNow' = BoundsNow /\ Folded' = Folded
      /\ \A n : Admits(n)' <=> Admits(n)
      /\ CredentialOverride(req.who)' = CredentialOverride(req.who)
      /\ (LetIn <=> Standing) => (LetIn' <=> Standing')
  BY <1>1, <1>3, <1>5, <1>6, PastStays
<1>8. Finals' = {Effective(g, req.policy)} /\ Finals = {Effective(x, req.policy) : x \in GrantPolicy(req.name)}
  BY <1>1, <1>5 DEF Finals, Base
<1>9. Finals' \subseteq Finals
  BY <1>2, <1>8
<1>10. Passed /\ Passed'
  BY <1>1, <1>5 DEF Passed
<1>11. Bound' = Bound
  BY <1>5, <1>7 DEF Bound
<1>12. \A r \in Row : /\ GetsP2(r, TRUE) => GetsP2(r, TRUE)'
                      /\ GetsP2(r, FALSE)' => GetsP2(r, FALSE)
  BY <1>3, <1>5, <1>9, <1>10, <1>11, WorldStays DEF GetsP2, InBound
<1>13. \A r \in Row : /\ Gets(r, TRUE) => Gets(r, TRUE)'
                      /\ Gets(r, FALSE)' => Gets(r, FALSE)
  BY <1>1, <1>5, <1>6, <1>7, <1>12 DEF Gets
<1>14. ASSUME Reads
       PROVE  Reads'
  <2>1. (Finals \subseteq {Effective(x, Folded) : x \in GrantPolicy(req.name)})'
    BY <1>1, <1>3, <1>5, <1>7, <1>9, <1>14, WorldStays DEF Reads
  <2>2. (Passed <=> Admits(req.name))'
    BY <1>1, <1>5, <1>7, <1>10, <1>14 DEF Reads
  <2>. QED
    BY <2>1, <2>2, <1>1, <1>3, <1>5, <1>7, <1>14, WorldStays DEF Reads
<1>. QED
  BY <1>6, <1>13, <1>14 DEF Preserves

LEMMA ServeRootKeeps ==
    ASSUME RequestRows, ServeRoot
    PROVE  Preserves
<1>1. req.at = "names" /\ req.at \notin NotIn \union {"done"} /\ req.kind = "root" /\ LetIn
  BY PastIs DEF ServeRoot, Answer, RequestRows, NotIn, Waiting
<1>. DEFINE got == {r \in Row : NameOf[r] \in ReadableNames}
<1>2. \A r \in Row : \A all : Gets(r, all) <=> r \in got
  BY <1>1, AllowsIs DEF Gets, GetsRoot, NamesNow
<1>3. got \in SUBSET Row /\ Answer("names", got)
  BY DEF ServeRoot
<1>. HIDE DEF got
<1>. QED
  BY <1>2, <1>3, AnswerEnds

LEMMA ServeP2Keeps ==
    ASSUME RequestRows, ServeP2
    PROVE  Preserves
<1>1. req.at = "versions" /\ req.at \notin NotIn \union {"done"} /\ req.kind = "p2" /\ LetIn
  BY PastIs DEF ServeP2, Answer, RequestRows, NotIn, Waiting
<1>. DEFINE got == VisibleVersions(req.name, req.policy, BoundFor(req.name))
<1>2. Passed /\ Finals = {req.policy} /\ BoundFor(req.name) = Bound
  BY <1>1, AllowsIs DEF Passed, Finals
<1>3. \A r \in Row : r \in got <=> /\ NameOf[r] = req.name /\ ServedScope(r) /\ PolicyGate(r, req.policy)
                                   /\ InBound(r, Bound)
  BY <1>2 DEF VisibleVersions
<1>4. got \in SUBSET Row /\ Answer("versions", got)
  BY DEF ServeP2, VisibleVersions
<1>. HIDE DEF got
<1>5. \A r \in Row : /\ Gets(r, FALSE) <=> r \in got
                     /\ Gets(r, TRUE) <=> r \in got
  BY <1>1, <1>2, <1>3 DEF Gets, GetsP2
<1>. QED
  BY <1>4, <1>5, AnswerEnds

LEMMA ServeIndexKeeps ==
    ASSUME RequestRows, ServeIndex
    PROVE  Preserves
<1>1. req.at = "summaries" /\ req.at \notin NotIn \union {"done"} /\ req.kind = "index" /\ LetIn
  BY PastIs DEF ServeIndex, Answer, RequestRows, NotIn, Waiting
<1>. DEFINE got == {r \in ServedVersionSummaries(req.policy) : NameOf[r] \in req.names}
<1>2. NamesNow = req.names /\ Base = req.policy
  BY <1>1 DEF NamesNow, Base
<1>3. \A r \in Row : \A all : Gets(r, all) <=> r \in got
  BY <1>1, <1>2 DEF Gets, GetsIndex, ServedVersionSummaries
<1>4. got \in SUBSET Row /\ Answer("summaries", got)
  BY DEF ServeIndex, ServedVersionSummaries
<1>. HIDE DEF got
<1>. QED
  BY <1>3, <1>4, AnswerEnds

LEMMA ServeDistKeeps ==
    ASSUME RequestRows, ServeDist
    PROVE  Preserves
<1>1. req.at = "serves" /\ req.at \notin NotIn \union {"done"} /\ req.kind = "dist" /\ LetIn
  BY PastIs DEF ServeDist, Answer, RequestRows, NotIn, Waiting
<1>. DEFINE got == RepoServesDist(req.name, DistOf[req.row])
<1>2. \A r \in Row : \A all : Gets(r, all) <=> r \in got
  BY <1>1 DEF Gets, GetsDist, Passed, RepoServesDist
<1>3. got \in SUBSET Row /\ Answer("serves", got)
  BY DEF ServeDist, RepoServesDist
<1>. HIDE DEF got
<1>. QED
  BY <1>2, <1>3, AnswerEnds

LEMMA ServeUpstreamPathKeeps ==
    ASSUME RequestRows, ServeUpstreamPath
    PROVE  Preserves
<1>1. req.at = "send" /\ req.at \notin NotIn \union {"done"} /\ req.kind = "path" /\ LetIn
  BY PastIs DEF ServeUpstreamPath, Answer, RequestRows, NotIn, Waiting
<1>. DEFINE got == {req.row}
<1>2. \A r \in Row : \A all : Gets(r, all) <=> r \in got
  BY <1>1 DEF Gets, GetsPath
<1>3. got \in SUBSET Row /\ Answer("send", got)
  BY DEF ServeUpstreamPath, RequestRows, RequestRow
<1>. HIDE DEF got
<1>. QED
  BY <1>2, <1>3, AnswerEnds

LEMMA ServeKeeps ==
    ASSUME WorldRows, RequestRows, Serve
    PROVE  Preserves /\ UNCHANGED <<world, seen>>
<1>1. Preserves
  <2>1. CASE PackagesJson \/ P2 \/ Dist \/ UpstreamDist \/ DomainRoute
    BY <2>1, ArrivesKeeps DEF PackagesJson, P2, Dist, UpstreamDist, DomainRoute, Route
  <2>2. CASE IndexSettings \/ AuthorizeAnonymous \/ ResolveTokenPolicy \/ ResolveLicense
    BY <2>2, IndexSettingsKeeps, AuthorizeAnonymousKeeps, ResolveTokenPolicyKeeps, ResolveLicenseKeeps
  <2>3. CASE EntitledPackageBounds \/ LicensePolicy \/ CheckAllowed \/ FindUpstreamPath
    BY <2>3, EntitledPackageBoundsKeeps, LicensePolicyKeeps, CheckAllowedKeeps, FindUpstreamPathKeeps
  <2>4. CASE ServeRoot \/ IndexNames \/ ReadUpdatePolicy \/ ReadGrantPolicy
    BY <2>4, ServeRootKeeps, IndexNamesKeeps, ReadUpdatePolicyKeeps, ReadGrantPolicyKeeps
  <2>5. CASE ServeP2 \/ ServeIndex \/ ServeDist \/ ServeUpstreamPath
    BY <2>5, ServeP2Keeps, ServeIndexKeeps, ServeDistKeeps, ServeUpstreamPathKeeps
  <2>. QED
    BY <2>1, <2>2, <2>3, <2>4, <2>5 DEF Serve
<1>2. UNCHANGED <<world, seen>>
  BY DEF Serve, PackagesJson, P2, Dist, UpstreamDist, DomainRoute, Route, IndexSettings, AuthorizeAnonymous,
      ResolveTokenPolicy, ResolveLicense, EntitledPackageBounds, LicensePolicy, CheckAllowed, FindUpstreamPath,
      ServeRoot, IndexNames, ReadUpdatePolicy, ReadGrantPolicy, ServeP2, ServeIndex, ServeDist,
      ServeUpstreamPath, Step, Answer, Admit
<1>. QED
  BY <1>1, <1>2

-----------------------------------------------------------------------------
(* What others change while a request is served.                            *)

(* Nothing is added to the answer, nor taken from it, but what is right     *)
(* before the change or after it.                                           *)
Settles ==
    \A r \in Row : /\ Gets(r, FALSE)' => Gets(r, FALSE) \/ r \in Moment \/ r \in Moment'
                   /\ Gets(r, TRUE) /\ r \in Certain /\ r \in Certain' => Gets(r, TRUE)'

Late == req.kind = "path" /\ req.at \in {"allows", "send"}

(* What has been read is still what would be read now.                      *)
LEMMA FreshSettles ==
    ASSUME req' = req, req.at # "done", ~ Late, WorldRows', RequestRows', Reads'
    PROVE  Settles
<1>1. (UpToDate => \A r \in Row : /\ Gets(r, FALSE) => r \in Moment
                                  /\ r \in Certain /\ Known(r) => Gets(r, TRUE))'
  BY FreshAgrees, PTL
<1>2. UpToDate'
  BY DEF UpToDate, Late
<1>3. \A r \in Row : Gets(r, TRUE) => Known(r)'
  BY DEF Gets, GetsIndex, NamesNow, Known
<1>4. \A r \in Row : /\ Gets(r, FALSE)' => r \in Moment'
                     /\ r \in Certain' /\ Known(r)' => Gets(r, TRUE)'
  BY <1>1, <1>2
<1>. QED
  BY <1>3, <1>4 DEF Settles

(* Or what has been read is all that the change could have altered.         *)
LEMMA SameSettles ==
    ASSUME req' = req, req.at # "done", LetIn' <=> LetIn, req.kind \in Kind,
           LetIn /\ req.kind = "root" => NamesNow' = NamesNow,
           LetIn /\ req.kind = "index" => NamesNow' = NamesNow /\ Base' = Base,
           LetIn /\ req.kind \in {"p2", "dist"} => (Passed' <=> Passed),
           LetIn /\ req.kind = "p2" => Finals' = Finals /\ Bound' = Bound,
           LetIn /\ req.kind = "path" => \A r \in Row : GetsPath(r)' <=> GetsPath(r),
           req.kind # "path" => ver' = ver /\ \A r \in Row : ServedScope(r)' <=> ServedScope(r)
    PROVE  Settles
<1>1. req.kind # "path" => \A r, p : PolicyGate(r, p)' <=> PolicyGate(r, p)
  BY DEF PolicyGate
<1>2. ASSUME NEW r \in Row, LetIn
      PROVE  (Gets(r, FALSE)' <=> Gets(r, FALSE)) /\ (Gets(r, TRUE)' <=> Gets(r, TRUE))
  <2>1. req.kind = "root" => (GetsRoot(r)' <=> GetsRoot(r))
    BY <1>2 DEF GetsRoot
  <2>2. req.kind = "index" => (GetsIndex(r)' <=> GetsIndex(r))
    BY <1>1, <1>2 DEF GetsIndex
  <2>3. req.kind = "p2" => (GetsP2(r, TRUE)' <=> GetsP2(r, TRUE)) /\ (GetsP2(r, FALSE)' <=> GetsP2(r, FALSE))
    BY <1>1, <1>2 DEF GetsP2, InBound
  <2>4. req.kind = "dist" => (GetsDist(r)' <=> GetsDist(r))
    BY <1>2 DEF GetsDist, RepoServesDist
  <2>5. req.kind = "path" => (GetsPath(r)' <=> GetsPath(r))
    BY <1>2
  <2>. QED
    BY <1>2, <2>1, <2>2, <2>3, <2>4, <2>5 DEF Gets
<1>3. ASSUME NEW r \in Row, ~ LetIn
      PROVE  ~ Gets(r, FALSE) /\ ~ Gets(r, FALSE)' /\ ~ Gets(r, TRUE) /\ ~ Gets(r, TRUE)'
  BY <1>3 DEF Gets
<1>. QED
  BY <1>2, <1>3 DEF Settles

(* The change is to nothing that is still to be read.                       *)
LEMMA StaysSettles ==
    ASSUME req' = req, req.at # "done", RequestRows, LetIn' <=> LetIn,
           LetIn => OverNow' = OverNow /\ BoundsNow' = BoundsNow,
           LetIn /\ req.kind = "index" => Base' = Base,
           LetIn /\ req.kind = "p2" /\ req.at # "versions" =>
              Base' = Base /\ GrantPolicy(req.name)' = GrantPolicy(req.name),
           ver' = ver, public' = public, home'.private = home.private,
           \A r \in Row : (Reaches(r)' <=> Reaches(r)) /\ (OwnOrMember(r)' <=> OwnOrMember(r))
    PROVE  Settles
<1>1. req.kind \in Kind
  BY DEF RequestRows, RequestRow
<1>2. \A r \in Row : ServedScope(r)' <=> ServedScope(r)
  BY DEF ServedScope
<1>3. AnonymousPackageNames' = AnonymousPackageNames /\ AllPackageNames' = AllPackageNames
  BY <1>2 DEF AnonymousPackageNames, AllPackageNames
<1>4. \A p : DistByUpstreamPath(p)' = DistByUpstreamPath(p)
  BY DEF DistByUpstreamPath
<1>5. LetIn => \A n : Admits(n)' <=> Admits(n)
  BY <1>3 DEF Admits
<1>6. LetIn => NamesThere' = NamesThere /\ NamesNow' = NamesNow
  BY <1>3, <1>5 DEF NamesThere, NamesNow
<1>7. LetIn => (Passed' <=> Passed) /\ Bound' = Bound
  BY <1>5 DEF Passed, Bound
<1>8. LetIn /\ req.kind = "p2" => Finals' = Finals
  BY DEF Finals
<1>9. LetIn /\ req.kind = "path" => \A r \in Row : GetsPath(r)' <=> GetsPath(r)
  BY <1>4, <1>5 DEF GetsPath
<1>. QED
  BY <1>1, <1>2, <1>6, <1>7, <1>8, <1>9, SameSettles

(* Before its first read of the packages a request has folded nothing yet.  *)
Ahead == NotIn \union {"names", "find", "allows"}

LEMMA AheadReads ==
    /\ RequestRows /\ req.at \in Ahead
    /\ LetIn <=> Standing
    /\ OverNow = CredentialOverride(req.who)
    /\ req.who = "license" => BoundsNow = license.bound
    => Reads
<1>. SUFFICES ASSUME RequestRows, req.at \in Ahead, LetIn <=> Standing, OverNow = CredentialOverride(req.who),
                     req.who = "license" => BoundsNow = license.bound
              PROVE  Reads
  OBVIOUS
<1>1. req.at \notin {"repo policy", "summaries", "grant policy", "versions", "serves", "send", "done"}
  BY DEF Ahead, NotIn, Waiting
<1>2. NamesNow = NamesThere /\ Base = Folded /\ (Passed <=> Admits(req.name))
  BY <1>1 DEF NamesNow, Base, Passed
<1>3. Finals \subseteq {Effective(g, Folded) : g \in GrantPolicy(req.name)}
  BY <1>1, <1>2 DEF Finals
<1>4. \A n \in NamesNow : Admits(n)
  BY <1>2 DEF NamesThere
<1>. QED
  BY <1>2, <1>3, <1>4 DEF Reads

LEMMA WaitingReads ==
    RequestRows /\ (req.at \in Waiting \/ (req.at = "license" /\ req.who = "license")) => Reads
<1>. SUFFICES ASSUME RequestRows, req.at \in Waiting \/ (req.at = "license" /\ req.who = "license")
              PROVE  Reads
  OBVIOUS
<1>1. req.who \in Who /\ req.at \in Ahead
  BY DEF RequestRows, RequestRow, Ahead, NotIn, Waiting
<1>2. (LetIn <=> Standing) /\ OverNow = CredentialOverride(req.who) /\ BoundsNow = license.bound
  BY <1>1 DEF LetIn, Standing, OverNow, CredentialOverride, BoundsNow, NotIn, Waiting, Who
<1>. QED
  BY <1>1, <1>2, AheadReads

Changing ==
    /\ req' = req /\ req.at # "done" /\ Reads
    /\ WorldRows /\ WorldRows' /\ RequestRows /\ RequestRows'

LEMMA GrantsStay ==
    ASSUME grants' = grants
    PROVE  \A n : GrantPolicy(n)' = GrantPolicy(n)
BY DEF GrantPolicy

(* As yet only the credential and what it is for are read: all is fresh.    *)
LEMMA WaitingSettles ==
    ASSUME Changing, grants' = grants, req.at \in Waiting \/ (req.at = "license" /\ req.who = "license")
    PROVE  Settles
<1>1. (RequestRows /\ (req.at \in Waiting \/ (req.at = "license" /\ req.who = "license")) => Reads)'
  BY WaitingReads, PTL
<1>2. Reads' /\ ~ Late
  BY <1>1 DEF Changing, Late, Waiting
<1>. QED
  BY <1>2, FreshSettles DEF Changing

LEMMA ReachStays ==
    ASSUME grants' = grants, home'.rule = home.rule, home'.members = home.members
    PROVE  \A r \in Row : (Reaches(r)' <=> Reaches(r)) /\ (OwnOrMember(r)' <=> OwnOrMember(r))
BY DEF Reaches, OwnOrMember, Own, MemberExists, GrantRuleExists

LEMMA TokenSettles ==
    ASSUME Changing, UNCHANGED <<ver, public, grants, home, license>>
    PROVE  Settles
<1>1. CASE req.at \in Waiting
  BY <1>1, WaitingSettles
<1>2. CASE req.at \notin Waiting
  <2>1. LetIn' <=> LetIn
    BY <1>2 DEF Changing, LetIn
  <2>2. LetIn => OverNow' = OverNow /\ BoundsNow' = BoundsNow
    BY <1>2 DEF Changing, LetIn, OverNow, BoundsNow
  <2>3. LetIn => Folded' = Folded /\ Base' = Base
    BY <2>2 DEF Changing, Folded, Base
  <2>. QED
    BY <2>1, <2>2, <2>3, ReachStays, GrantsStay, StaysSettles DEF Changing
<1>. QED
  BY <1>1, <1>2

LEMMA AnonymousSettles ==
    ASSUME Changing, UNCHANGED <<ver, public, grants, token, license>>, home'.policy = home.policy,
           home'.private = home.private, home'.rule = home.rule, home'.members = home.members
    PROVE  Settles
<1>1. CASE req.at \in Waiting
  BY <1>1, WaitingSettles
<1>2. CASE req.at \notin Waiting
  <2>1. LetIn' <=> LetIn
    BY <1>2 DEF Changing, LetIn
  <2>2. OverNow' = OverNow /\ BoundsNow' = BoundsNow
    BY <1>2 DEF Changing, OverNow, BoundsNow
  <2>3. Folded' = Folded /\ Base' = Base
    BY <2>2 DEF Changing, Folded, Base
  <2>. QED
    BY <2>1, <2>2, <2>3, ReachStays, GrantsStay, StaysSettles DEF Changing
<1>. QED
  BY <1>1, <1>2

LEMMA LicenseSettles ==
    ASSUME Changing, UNCHANGED <<ver, public, grants, home, token>>,
           \/ license'.over = license.over /\ license'.bound = license.bound
           \/ license'.live = license.live /\ license'.bound = license.bound
           \/ license'.live = license.live /\ license'.over = license.over
    PROVE  Settles
<1>1. CASE req.at \in Waiting \/ (req.at = "license" /\ req.who = "license")
  BY <1>1, WaitingSettles
<1>2. CASE ~ (req.at \in Waiting \/ (req.at = "license" /\ req.who = "license"))
  <2>1. /\ LetIn' <=> LetIn
        /\ req.who = "license" => LetIn
        /\ req.who = "license" /\ req.at \in NotIn => req.at \in {"entitled", "license policy"}
    BY <1>2 DEF Changing, LetIn, RequestRows, NotIn, Waiting
  <2>2. CASE LetIn => OverNow' = OverNow /\ BoundsNow' = BoundsNow
    <3>1. LetIn => Folded' = Folded /\ Base' = Base
      BY <2>2 DEF Changing, Folded, Base
    <3>. QED
      BY <2>1, <2>2, <3>1, ReachStays, GrantsStay, StaysSettles DEF Changing
  <2>3. CASE LetIn /\ ~ (OverNow' = OverNow /\ BoundsNow' = BoundsNow)
    <3>1. /\ req.who = "license" /\ req.at \in {"entitled", "license policy"}
          /\ req.at = "license policy" => license'.bound = license.bound
          /\ license'.live = license.live
      <4>1. req.who = "license"
        BY <1>2, <2>3 DEF Changing, LetIn, OverNow, BoundsNow, RequestRows, RequestRow, Who
      <4>2. req.at \in {"entitled", "license policy"}
        BY <1>2, <2>3, <4>1 DEF Changing, OverNow, BoundsNow, NotIn, Waiting
      <4>. QED
        BY <1>2, <2>3, <4>1, <4>2 DEF Changing, OverNow, BoundsNow, NotIn, Waiting
    <3>2. Standing'
      BY <2>3, <3>1 DEF Changing, Reads, Standing
    <3>3. LetIn' /\ OverNow' = license'.over /\ BoundsNow' = license'.bound
      BY <2>1, <2>3, <3>1 DEF Changing, Reads, OverNow, BoundsNow, NotIn, Waiting
    <3>4. OverNow' = CredentialOverride(req.who)' /\ req'.at \in Ahead
      BY <3>1, <3>3 DEF Changing, CredentialOverride, Ahead, NotIn
    <3>5. (/\ RequestRows /\ req.at \in Ahead
           /\ LetIn <=> Standing
           /\ OverNow = CredentialOverride(req.who)
           /\ req.who = "license" => BoundsNow = license.bound
           => Reads)'
      BY AheadReads, PTL
    <3>6. Reads' /\ ~ Late
      BY <3>1, <3>2, <3>3, <3>4, <3>5 DEF Changing, Late
    <3>. QED
      BY <3>6, FreshSettles DEF Changing
  <2>. QED
    BY <2>2, <2>3
<1>. QED
  BY <1>1, <1>2

LEMMA PolicySettles ==
    ASSUME Changing, UNCHANGED <<ver, public, grants, token, license>>, home'.anonymous = home.anonymous,
           home'.private = home.private, home'.rule = home.rule, home'.members = home.members
    PROVE  Settles
<1>1. (LetIn' <=> LetIn) /\ (Standing' <=> Standing) /\ OverNow' = OverNow /\ BoundsNow' = BoundsNow
      /\ CredentialOverride(req.who)' = CredentialOverride(req.who)
  BY DEF Changing, LetIn, Standing, OverNow, BoundsNow, CredentialOverride
<1>2. \A r \in Row : (Reaches(r)' <=> Reaches(r)) /\ (OwnOrMember(r)' <=> OwnOrMember(r))
  BY ReachStays
<1>3. CASE (req.kind = "index" => req.at = "summaries") /\ (req.kind = "p2" => req.at \in {"grant policy", "versions"})
  <2>1. req.kind = "index" \/ (req.kind = "p2" /\ req.at # "versions") => Base' = Base
    BY <1>3 DEF Changing, Base
  <2>. QED
    BY <2>1, <1>1, <1>2, GrantsStay, StaysSettles DEF Changing
<1>4. CASE ~ ((req.kind = "index" => req.at = "summaries") /\ (req.kind = "p2" => req.at \in {"grant policy", "versions"}))
  <2>1. req.kind \in {"index", "p2"} /\ req.at \notin {"summaries", "grant policy", "versions"} /\ ~ Late
    BY <1>4 DEF Changing, RequestRows, NotIn, Waiting, Late
  <2>2. Base' = Folded' /\ Finals' = {Effective(g, Base') : g \in GrantPolicy(req.name)'}
    BY <2>1 DEF Changing, Base, Finals
  <2>3. AnonymousPackageNames' = AnonymousPackageNames /\ AllPackageNames' = AllPackageNames
    BY <1>2 DEF AnonymousPackageNames, AllPackageNames, ServedScope
  <2>4. \A n : Admits(n)' <=> Admits(n)
    BY <1>1, <2>3 DEF Changing, Admits
  <2>5. NamesThere' = NamesThere /\ NamesNow' = NamesNow /\ (Passed' <=> Passed)
    BY <2>3, <2>4 DEF Changing, NamesThere, NamesNow, Passed
  <2>6. Reads'
    BY <1>1, <2>2, <2>4, <2>5 DEF Changing, Reads
  <2>. QED
    BY <2>1, <2>6, FreshSettles DEF Changing
<1>. QED
  BY <1>3, <1>4

(* More or less is served, and nobody is let see less or more.              *)
LEMMA ScopeSettles ==
    ASSUME Changing, UNCHANGED <<ver, token, license>>, home'.anonymous = home.anonymous,
           home'.policy = home.policy, \A n : Admits(n)' <=> Admits(n),
           \A n : GrantPolicy(n) \subseteq GrantPolicy(n)'
    PROVE  Settles
<1>1. (LetIn' <=> LetIn) /\ (Standing' <=> Standing) /\ OverNow' = OverNow /\ BoundsNow' = BoundsNow
      /\ CredentialOverride(req.who)' = CredentialOverride(req.who)
  BY DEF Changing, LetIn, Standing, OverNow, BoundsNow, CredentialOverride
<1>2. Folded' = Folded /\ Base' = Base /\ (Passed' <=> Passed)
  BY <1>1 DEF Changing, Folded, Base, Passed
<1>3. CASE Late
  <2>1. \A r \in Row : GetsPath(r)' <=> GetsPath(r)
    BY <1>3 DEF Changing, Late, GetsPath
  <2>. QED
    BY <1>1, <1>3, <2>1, SameSettles DEF Changing, Late, RequestRows, RequestRow
<1>4. CASE ~ Late
  <2>1. req.kind = "index" => \A n \in NamesNow' : Admits(n)'
    <3>1. CASE req.at \in {"repo policy", "summaries"}
      <4>1. NamesNow' = NamesNow
        BY <3>1 DEF Changing, NamesNow
      <4>. QED
        BY <4>1 DEF Changing, Reads
    <3>2. CASE req.at \notin {"repo policy", "summaries"}
      <4>1. NamesNow' = NamesThere'
        BY <3>2 DEF Changing, NamesNow
      <4>. QED
        BY <4>1 DEF NamesThere
    <3>. QED
      BY <3>1, <3>2
  <2>2. req.kind = "p2" => Finals' \subseteq {Effective(g, Folded') : g \in GrantPolicy(req.name)'}
    <3>1. CASE req.at = "versions"
      <4>1. Finals' = {req.policy} /\ Finals = {req.policy}
        BY <3>1 DEF Changing, Finals
      <4>. QED
        BY <4>1, <1>2 DEF Changing, Reads
    <3>2. CASE req.at # "versions"
      <4>1. Finals' = {Effective(g, Base') : g \in GrantPolicy(req.name)'}
        BY <3>2 DEF Changing, Finals
      <4>. QED
        BY <4>1, <3>2, <1>2 DEF Changing, Reads
    <3>. QED
      BY <3>1, <3>2
  <2>3. Reads'
    BY <1>1, <1>2, <2>1, <2>2 DEF Changing, Reads
  <2>. QED
    BY <1>4, <2>3, FreshSettles DEF Changing
<1>. QED
  BY <1>3, <1>4

(* A request for a path is answered the oldest row there, if it may have it. *)
LEMMA PathMoment ==
    req.kind = "path" =>
    \A r \in Row : r \in Moment <=> r \in DistByUpstreamPath(PathOf[req.row]) /\ Unlocks(req.who, NameOf[r])
<1>. SUFFICES ASSUME req.kind = "path", NEW r \in Row
              PROVE  r \in Moment <=> r \in DistByUpstreamPath(PathOf[req.row]) /\ Unlocks(req.who, NameOf[r])
  OBVIOUS
<1>1. r \in Moment <=> /\ PathOf[r] = PathOf[req.row] /\ OwnOrMember(r) /\ Fetchable(r) /\ Unlocks(req.who, NameOf[r])
                       /\ ~\E s \in Row : /\ PathOf[s] = PathOf[r] /\ RowId[s] < RowId[r]
                                          /\ OwnOrMember(s) /\ Fetchable(s)
  BY DEF Moment
<1>2. \A s \in Row : OwnOrMember(s) /\ Fetchable(s)
          <=> OwnOrMember(s) /\ (home.private \/ public[s]) /\ ver[s].live /\ ~ver[s].yanked
  BY DEF Fetchable, ServedScope, Reaches
<1>3. \A s, t \in Row : RowId[s] <= RowId[t] <=> ~ (RowId[t] < RowId[s])
  BY ServingAssumption
<1>4. r \in DistByUpstreamPath(PathOf[req.row])
          <=> /\ PathOf[r] = PathOf[req.row] /\ OwnOrMember(r) /\ Fetchable(r)
              /\ ~\E s \in Row : /\ PathOf[s] = PathOf[r] /\ RowId[s] < RowId[r]
                                 /\ OwnOrMember(s) /\ Fetchable(s)
  BY <1>2, <1>3 DEF DistByUpstreamPath
<1>. QED
  BY <1>1, <1>4

(* The row that was found is still the one to be sent.                      *)
Found == req.kind = "path" /\ req.at = "allows" => req.row \in DistByUpstreamPath(PathOf[req.row])

(* Less is served to nobody: what was let through was public all the while. *)
LEMMA ShrinkSettles ==
    ASSUME Changing, UNCHANGED <<ver, token, license>>, home'.anonymous = home.anonymous,
           home'.policy = home.policy, req.who = "nobody", req.kind # "path", req.at \notin Ahead,
           \A r \in Row : Reaches(r)' => Reaches(r),
           \A n : GrantPolicy(n)' = GrantPolicy(n)
    PROVE  Settles
<1>1. (LetIn' <=> LetIn) /\ OverNow' = OverNow /\ BoundsNow' = BoundsNow
  BY DEF Changing, LetIn, OverNow, BoundsNow
<1>2. Folded' = Folded /\ Base' = Base /\ Bound' = Bound
  BY <1>1 DEF Changing, Folded, Base, Bound
<1>3. Finals' = Finals
  BY <1>2 DEF Changing, Finals
<1>4. \A r, p : PolicyGate(r, p)' <=> PolicyGate(r, p)
  BY DEF PolicyGate
<1>5. /\ req.at \in {"repo policy", "grant policy", "versions", "summaries", "serves"}
      /\ req.kind \in {"index", "p2", "dist"}
      /\ req.kind = "index" => req.at \in {"repo policy", "summaries"}
      /\ req.kind # "index" => req.at # "summaries"
  BY DEF Changing, RequestRows, RequestRow, Kind, Stages, Ahead, NotIn, Waiting
<1>6. req.kind = "index" => NamesNow' = NamesNow /\ \A n \in NamesNow : Admits(n)
  BY <1>5 DEF Changing, NamesNow, Reads
<1>7. req.kind # "index" => Passed /\ Passed' /\ Admits(req.name)
  BY <1>5 DEF Changing, Passed, Reads
<1>8. ASSUME NEW r \in Row, ServedScope(r)', Admits(NameOf[r])
      PROVE  ServedScope(r)
  <2>1. Reaches(r) /\ NameOf[r] \in AnonymousPackageNames
    BY <1>8 DEF ServedScope, Admits
  <2>. QED
    BY <2>1 DEF ServedScope, AnonymousPackageNames
<1>9. \A r \in Row : r \in Moment' => ServedScope(r)'
  BY <1>5 DEF Changing, Moment, InIndex, Fetchable
<1>10. \A r \in Row : r \in Certain' => r \in Moment'
  BY DEF Certain
<1>11. CASE req.kind = "index"
  <2>1. \A r \in Row, all \in BOOLEAN :
           Gets(r, all) <=> LetIn /\ NameOf[r] \in NamesNow /\ ServedScope(r) /\ PolicyGate(r, Base)
    BY <1>11 DEF Changing, Gets, GetsIndex
  <2>2. \A r \in Row, all \in BOOLEAN :
           Gets(r, all)' <=> LetIn' /\ NameOf[r] \in NamesNow' /\ ServedScope(r)' /\ PolicyGate(r, Base)'
    BY <1>11 DEF Changing, Gets, GetsIndex
  <2>3. \A r \in Row : PolicyGate(r, Base)' <=> PolicyGate(r, Base)
    BY <1>2, <1>4
  <2>. QED
    BY <1>1, <1>6, <1>8, <1>9, <1>10, <1>11, <2>1, <2>2, <2>3 DEF Settles
<1>12. CASE req.kind = "p2"
  <2>1. \A r \in Row : GetsP2(r, FALSE)' => GetsP2(r, FALSE)
    BY <1>2, <1>3, <1>4, <1>7, <1>8, <1>12 DEF Changing, GetsP2, InBound
  <2>2. \A r \in Row : GetsP2(r, TRUE) /\ ServedScope(r)' => GetsP2(r, TRUE)'
    BY <1>2, <1>3, <1>4, <1>7, <1>12 DEF Changing, GetsP2, InBound
  <2>. QED
    BY <1>1, <1>9, <1>10, <1>12, <2>1, <2>2 DEF Changing, Settles, Gets
<1>13. CASE req.kind = "dist"
  <2>1. \A r \in Row : GetsDist(r)' => GetsDist(r)
    BY <1>7, <1>8, <1>13 DEF Changing, GetsDist, RepoServesDist
  <2>2. \A r \in Row : GetsDist(r) /\ ServedScope(r)' => GetsDist(r)'
    BY <1>7, <1>13 DEF Changing, GetsDist, RepoServesDist
  <2>. QED
    BY <1>1, <1>9, <1>10, <1>13, <2>1, <2>2 DEF Changing, Settles, Gets
<1>. QED
  BY <1>5, <1>11, <1>12, <1>13

(* A path leads where it led, or nobody is let see a name that was not shown. *)
LEMMA PathSettles ==
    ASSUME Changing, UNCHANGED <<ver, token, license>>, home'.anonymous = home.anonymous,
           home'.policy = home.policy, req.who = "nobody", req.kind = "path", Found, ~ Crosses,
           Reads' \/ req.at \notin Ahead \ {"allows"}
    PROVE  Settles
<1>1. (LetIn' <=> LetIn) /\ (LetIn <=> home.anonymous)
  BY DEF Changing, LetIn, Reads, Standing
<1>2. CASE req.at \in Ahead \ {"allows"}
  BY <1>2, FreshSettles DEF Changing, Late, Ahead, NotIn, Waiting
<1>3. CASE req.at \notin Ahead \ {"allows"}
  <2>1. req.at \in {"allows", "send"}
    BY <1>3 DEF Changing, RequestRows, RequestRow, Stages, Ahead, NotIn, Waiting
  <2>2. CASE req.at = "send"
    <3>1. \A r \in Row : GetsPath(r)' <=> GetsPath(r)
      BY <2>2 DEF Changing, GetsPath
    <3>. QED
      BY <1>1, <2>2, <3>1, SameSettles DEF Changing, RequestRows, RequestRow
  <2>3. CASE req.at = "allows"
    <3>1. (req.kind = "path" =>
             \A r \in Row : r \in Moment
                <=> r \in DistByUpstreamPath(PathOf[req.row]) /\ Unlocks(req.who, NameOf[r]))'
      BY PathMoment, PTL
    <3>2. LetIn => home.anonymous /\ home'.anonymous /\ req.name = NameOf[req.row]
      BY <1>1, <2>3 DEF Changing, RequestRows
    <3>3. home'.anonymous => \A n : Unlocks(req.who, n)' <=> n \in AnonymousPackageNames'
      BY DEF Changing, Unlocks, AnonymousPackageNames
    <3>4. \A r \in Row, all \in BOOLEAN :
             Gets(r, all) <=> LetIn /\ r = req.row /\ req.name \in AnonymousPackageNames
      BY <2>3 DEF Changing, Gets, GetsPath, Admits
    <3>5. \A r \in Row, all \in BOOLEAN :
             Gets(r, all)' <=> LetIn' /\ r = req.row /\ req.name \in AnonymousPackageNames'
      BY <2>3 DEF Changing, Gets, GetsPath, Admits
    <3>6. \A r \in Row : r \in Moment'
              <=> r \in DistByUpstreamPath(PathOf[req.row])' /\ Unlocks(req.who, NameOf[r])'
      BY <3>1 DEF Changing
    <3>7. \A r \in Row : r \in Certain' => r \in Moment'
      BY DEF Certain
    <3>8. /\ req.row \in DistByUpstreamPath(PathOf[req.row])
          /\ \/ DistByUpstreamPath(PathOf[req.row])' = DistByUpstreamPath(PathOf[req.row])
             \/ AnonymousPackageNames' \subseteq AnonymousPackageNames
      BY <2>3 DEF Found, Crosses
    <3>9. ASSUME NEW r \in Row, Gets(r, FALSE)'
          PROVE  Gets(r, FALSE) \/ r \in Moment'
      BY <1>1, <3>2, <3>3, <3>4, <3>5, <3>6, <3>8, <3>9
    <3>10. ASSUME NEW r \in Row, Gets(r, TRUE), r \in Certain'
           PROVE  Gets(r, TRUE)'
      BY <1>1, <3>2, <3>3, <3>4, <3>5, <3>6, <3>7, <3>10
    <3>. QED
      BY <3>9, <3>10 DEF Settles
  <2>. QED
    BY <2>1, <2>2, <2>3
<1>. QED
  BY <1>2, <1>3

(* More or less is served.                                                  *)
LEMMA ScopeChanges ==
    ASSUME Changing, Found, ~ Crosses, UNCHANGED <<ver, token, license>>, home'.anonymous = home.anonymous,
           home'.policy = home.policy,
           \/ \A n : GrantPolicy(n)' = GrantPolicy(n)
           \/ /\ \A n : GrantPolicy(n) \subseteq GrantPolicy(n)'
              /\ public' = public
              /\ \A r \in Row : Reaches(r) => Reaches(r)'
    PROVE  Settles
<1>1. BoundsNow' = BoundsNow
  BY DEF Changing, BoundsNow
<1>2. \A n : GrantPolicy(n) \subseteq GrantPolicy(n)'
  OBVIOUS
<1>3. CASE req.who # "nobody" \/ AnonymousPackageNames' = AnonymousPackageNames
  <2>1. \A n : Admits(n)' <=> Admits(n)
    BY <1>1, <1>3 DEF Changing, Admits
  <2>. QED
    BY <1>2, <2>1, ScopeSettles
<1>4. ASSUME req.who = "nobody", req.at \in Ahead
      PROVE  Reads'
  <2>1. (/\ RequestRows /\ req.at \in Ahead
         /\ LetIn <=> Standing
         /\ OverNow = CredentialOverride(req.who)
         /\ req.who = "license" => BoundsNow = license.bound
         => Reads)'
    BY AheadReads, PTL
  <2>2. (LetIn' <=> LetIn) /\ (Standing' <=> Standing) /\ OverNow' = OverNow
        /\ CredentialOverride(req.who)' = CredentialOverride(req.who)
    BY DEF Changing, LetIn, Standing, OverNow, CredentialOverride
  <2>. QED
    BY <1>4, <2>1, <2>2 DEF Changing, Reads
<1>5. CASE req.who = "nobody" /\ req.kind = "path"
  BY <1>4, <1>5, PathSettles
<1>6. CASE req.who = "nobody" /\ req.kind # "path" /\ req.at \in Ahead
  BY <1>4, <1>6, FreshSettles DEF Changing, Late
<1>7. CASE req.who = "nobody" /\ req.kind # "path" /\ req.at \notin Ahead
  <2>1. \A r \in Row : Reaches(r)' => Reaches(r)
    BY <1>7 DEF Crosses
  <2>2. CASE \A n : GrantPolicy(n)' = GrantPolicy(n)
    BY <1>7, <2>1, <2>2, ShrinkSettles
  <2>3. CASE public' = public /\ \A r \in Row : Reaches(r) => Reaches(r)'
    <3>1. AnonymousPackageNames' = AnonymousPackageNames
      BY <2>1, <2>3 DEF AnonymousPackageNames
    <3>. QED
      BY <1>3, <3>1
  <2>. QED
    BY <2>2, <2>3
<1>. QED
  BY <1>3, <1>5, <1>6, <1>7

LEMMA GrantPolicySettles ==
    ASSUME Changing, UNCHANGED <<ver, public, home, token, license>>,
           \A r \in Row : grants'[r].given = grants[r].given
    PROVE  Settles
<1>1. (LetIn' <=> LetIn) /\ (Standing' <=> Standing) /\ OverNow' = OverNow /\ BoundsNow' = BoundsNow
      /\ CredentialOverride(req.who)' = CredentialOverride(req.who)
  BY DEF Changing, LetIn, Standing, OverNow, BoundsNow, CredentialOverride
<1>2. Folded' = Folded /\ Base' = Base
  BY <1>1 DEF Changing, Folded, Base
<1>3. \A r \in Row : (Reaches(r)' <=> Reaches(r)) /\ (OwnOrMember(r)' <=> OwnOrMember(r))
  BY DEF Reaches, OwnOrMember, Own, MemberExists, GrantRuleExists
<1>4. CASE req.kind # "p2" \/ req.at = "versions"
  BY <1>1, <1>2, <1>3, <1>4, StaysSettles DEF Changing
<1>5. CASE req.kind = "p2" /\ req.at # "versions"
  <2>1. AnonymousPackageNames' = AnonymousPackageNames
    BY <1>3 DEF AnonymousPackageNames
  <2>2. \A n : Admits(n)' <=> Admits(n)
    BY <1>1, <2>1 DEF Changing, Admits
  <2>3. Passed' <=> Passed
    BY <2>2 DEF Changing, Passed
  <2>4. Finals' = {Effective(g, Base') : g \in GrantPolicy(req.name)'}
    BY <1>5 DEF Changing, Finals
  <2>5. Reads'
    BY <1>1, <1>2, <1>5, <2>2, <2>3, <2>4 DEF Changing, Reads
  <2>. QED
    BY <1>5, <2>5, FreshSettles DEF Changing, Late
<1>. QED
  BY <1>4, <1>5

LEMMA VersionsSettle ==
    ASSUME Changing, UNCHANGED <<public, grants, home, token, license>>
    PROVE  Settles /\ Reads'
<1>1. (LetIn' <=> LetIn) /\ (Standing' <=> Standing) /\ OverNow' = OverNow /\ BoundsNow' = BoundsNow
      /\ CredentialOverride(req.who)' = CredentialOverride(req.who)
  BY DEF Changing, LetIn, Standing, OverNow, BoundsNow, CredentialOverride
<1>2. Folded' = Folded /\ Base' = Base
  BY <1>1 DEF Changing, Folded, Base
<1>3. \A r \in Row : (Reaches(r)' <=> Reaches(r)) /\ (ServedScope(r)' <=> ServedScope(r))
  BY ReachStays DEF ServedScope
<1>4. AnonymousPackageNames' = AnonymousPackageNames /\ AllPackageNames' = AllPackageNames
  BY <1>3 DEF AnonymousPackageNames, AllPackageNames
<1>5. \A n : Admits(n)' <=> Admits(n)
  BY <1>1, <1>4 DEF Changing, Admits
<1>6. NamesThere' = NamesThere /\ NamesNow' = NamesNow /\ (Passed' <=> Passed)
  BY <1>4, <1>5 DEF Changing, NamesThere, NamesNow, Passed
<1>7. \A n : GrantPolicy(n)' = GrantPolicy(n)
  BY GrantsStay
<1>8. Finals' = Finals
  BY <1>2, <1>7 DEF Changing, Finals
<1>9. Reads'
  BY <1>1, <1>2, <1>5, <1>6, <1>7, <1>8 DEF Changing, Reads
<1>10. CASE Late
  <2>1. \A r \in Row : GetsPath(r)' <=> GetsPath(r)
    BY <1>5, <1>10 DEF Changing, Late, GetsPath
  <2>. QED
    BY <1>1, <1>9, <1>10, <2>1, SameSettles DEF Changing, Late, RequestRows, RequestRow
<1>11. CASE ~ Late
  BY <1>9, <1>11, FreshSettles DEF Changing
<1>. QED
  BY <1>9, <1>10, <1>11

-----------------------------------------------------------------------------
(* The changes there are.                                                   *)

SetPolicyOf(n) == \E o \in Override : SetGrantPolicy(n, o)
SetAny(l) ==
    /\ SetLicense(l)
    /\ \/ l.over = license.over /\ l.bound = license.bound
       \/ l.live = license.live /\ l.bound = license.bound
       \/ l.live = license.live /\ l.over = license.over

LEMMA VersionsAre ==
    ASSUME WorldRows, NEW r \in Row, NEW flag \in {"live", "held", "yanked", "approved"}, NEW value \in BOOLEAN
    PROVE  [ver EXCEPT ![r][flag] = value] \in [Row -> Version]
<1>1. ver \in [Row -> Version] /\ ver[r] \in Version
  BY DEF WorldRows
<1>2. [ver[r] EXCEPT ![flag] = value] \in Version
  BY <1>1 DEF Version
<1>. QED
  BY <1>1, <1>2

LEMMA VersionChanges ==
    ASSUME WorldRows,
           \/ \E r \in Row : VersionAction(r) \/ CliVersionAction(r) \/ AddVersion(r)
           \/ ApproveBulk \/ HoldBulk \/ Tick
    PROVE  \E v \in [Row -> Version] : SetVersions(v)
<1>1. ASSUME NEW r \in Row, VersionAction(r) \/ CliVersionAction(r) \/ AddVersion(r)
      PROVE  \E v \in [Row -> Version] : SetVersions(v)
  <2>1. PICK flag \in {"live", "held", "yanked", "approved"}, value \in BOOLEAN :
            SetVersions([ver EXCEPT ![r][flag] = value])
    <3>1. CASE AddVersion(r)
      <4>1. SetVersions([ver EXCEPT ![r]["live"] = TRUE])
        BY <3>1 DEF AddVersion
      <4>. QED
        BY <4>1
    <3>2. CASE VersionAction(r) \/ CliVersionAction(r)
      BY <3>2 DEF VersionAction, CliVersionAction, HoldVersion, UnholdVersion, YankVersion, UnyankVersion,
          ApproveVersion, SetVersionTimestamp
    <3>. QED
      BY <1>1, <3>1, <3>2
  <2>. QED
    BY <2>1, VersionsAre
<1>2. ASSUME NEW r \in Row, HoldVersion(r) \/ ApproveVersion(r)
      PROVE  \E v \in [Row -> Version] : SetVersions(v)
  BY <1>1, <1>2 DEF VersionAction
<1>3. ASSUME NEW o \in Repo, NEW ns, ApproveAllPending(o, ns)
      PROVE  \E v \in [Row -> Version] : SetVersions(v)
  <2>. DEFINE v == [r \in Row |-> IF r \in Undecided(o, ns) THEN [ver[r] EXCEPT !.approved = TRUE] ELSE ver[r]]
  <2>1. \A r \in Row : ver[r] \in Version /\ [ver[r] EXCEPT !.approved = TRUE] \in Version
    BY DEF WorldRows, Version
  <2>2. v \in [Row -> Version] /\ SetVersions(v)
    BY <1>3, <2>1 DEF ApproveAllPending
  <2>. QED
    BY <2>2
<1>4. CASE Tick
  <2>. DEFINE v == [r \in Row |-> [ver[r] EXCEPT !.age = IF @ < MaxCool THEN @ + 1 ELSE @]]
  <2>1. MaxCool \in Nat
    BY ServingAssumption
  <2>2. ASSUME NEW r \in Row
        PROVE  [ver[r] EXCEPT !.age = IF @ < MaxCool THEN @ + 1 ELSE @] \in Version
    <3>1. ver[r] \in Version /\ ver[r].age \in 0..MaxCool
      BY DEF WorldRows, Version
    <3>2. (IF ver[r].age < MaxCool THEN ver[r].age + 1 ELSE ver[r].age) \in 0..MaxCool
      BY <2>1, <3>1
    <3>. QED
      BY <3>1, <3>2 DEF Version
  <2>3. v \in [Row -> Version] /\ SetVersions(v)
    BY <1>4, <2>2 DEF Tick
  <2>. QED
    BY <2>3
<1>5. CASE HoldBulk
  <2>1. PICK r \in Row : HoldVersion(r)
    BY <1>5 DEF HoldBulk, AdminPackageVersions
  <2>. QED
    BY <1>2, <2>1
<1>6. CASE ApproveBulk
  <2>1. CASE \E r \in Row : ApproveVersion(r)
    BY <1>2, <2>1
  <2>2. CASE \E o \in Repo, ns \in {Name} \cup {{n} : n \in Name} : ApproveAllPending(o, ns)
    BY <1>3, <2>2
  <2>3. ASSUME NEW n \in DOMAIN AdminPackageGroups("pending"), NEW r \in AdminPackageGroups("pending")[n]
        PROVE  r \in Row
    BY <2>3 DEF AdminPackageGroups, AdminPackageVersions
  <2>. QED
    BY <1>6, <2>1, <2>2, <2>3 DEF ApproveBulk
<1>. QED
  BY <1>1, <1>4, <1>5, <1>6

LEMMA ChangesAre ==
    ASSUME WorldRows, Operate
    PROVE  \/ \E p \in Policy : SetHome("policy", p)
           \/ SetAnonymous \/ SetAllowPrivate
           \/ AddGrantRule \/ RemoveGrantRule
           \/ \E m \in Repo \ {Home} : AttachMember(m)
           \/ DetachMember
           \/ \E r \in Row : GrantPackage(r)
           \/ \E n \in Name : SetPolicyOf(n)
           \/ \E r \in Row : SetVisibility(r)
           \/ \E t \in TokenRow : SetToken(t)
           \/ \E l \in LicenseRow : SetAny(l)
           \/ \E v \in [Row -> Version] : SetVersions(v)
<1>1. token \in TokenRow /\ license \in LicenseRow /\ PolicyChoice \subseteq Policy /\ OverrideChoice \subseteq Override
  BY ServingAssumption DEF WorldRows
<1>2. CASE TokenPolicy \/ RevokeToken
  <2>1. CASE RevokeToken
    BY <1>1, <2>1 DEF RevokeToken, TokenRow
  <2>2. ASSUME NEW o \in OverrideChoice, SetTokenPolicy(o)
        PROVE  \E t \in TokenRow : SetToken(t)
    <3>1. o \in Override /\ [token EXCEPT !.over = o] \in TokenRow /\ SetToken([token EXCEPT !.over = o])
      BY <1>1, <2>2 DEF SetTokenPolicy, TokenRow
    <3>. QED
      BY <3>1
  <2>. QED
    BY <1>2, <2>1, <2>2 DEF TokenPolicy
<1>3. CASE LicensePolicyForm \/ RevokeLicense \/ \E n \in Name, b \in {NotEntitled, NoBound} \union BoundChoice : SetBound(n, b)
  <2>1. CASE RevokeLicense
    <3>. DEFINE l == [license EXCEPT !.live = FALSE]
    <3>1. l \in LicenseRow /\ l.over = license.over /\ l.bound = license.bound /\ SetLicense(l)
      BY <1>1, <2>1 DEF RevokeLicense, LicenseRow
    <3>. QED
      BY <3>1 DEF SetAny
  <2>2. ASSUME NEW o \in OverrideChoice, SetLicensePolicy(o)
        PROVE  \E l \in LicenseRow : SetAny(l)
    <3>. DEFINE l == [license EXCEPT !.over = o]
    <3>1. l \in LicenseRow /\ l.live = license.live /\ l.bound = license.bound /\ SetLicense(l)
      BY <1>1, <2>2 DEF SetLicensePolicy, LicenseRow
    <3>. QED
      BY <3>1 DEF SetAny
  <2>3. ASSUME NEW n \in Name, NEW b \in {NotEntitled, NoBound} \union BoundChoice, SetBound(n, b)
        PROVE  \E l \in LicenseRow : SetAny(l)
    <3>. DEFINE l == [license EXCEPT !.bound[n] = b]
    <3>1. b \in LicenseBound
      BY BoundFacts
    <3>2. [license.bound EXCEPT ![n] = b] \in [Name -> LicenseBound]
      BY <1>1, <3>1 DEF LicenseRow
    <3>3. l \in LicenseRow /\ l.live = license.live /\ l.over = license.over /\ SetLicense(l)
      BY <1>1, <2>3, <3>2 DEF SetBound, LicenseRow
    <3>. QED
      BY <3>3 DEF SetAny
  <2>. QED
    BY <1>3, <2>1, <2>2, <2>3 DEF LicensePolicyForm
<1>4. CASE PolicySet
  BY <1>1, <1>4 DEF PolicySet, SetUpdatePolicy
<1>5. CASE CliGrant \/ \E o \in Repo \ {Home} : CreateGrant(o)
  BY <1>5 DEF CliGrant, CreateGrant
<1>6. CASE \E n \in Name : SetGrantPolicyAction(n)
  BY <1>1, <1>6 DEF SetGrantPolicyAction, SetPolicyOf
<1>7. CASE AddAutogrant \/ RemoveAutogrant
  BY <1>7 DEF AddAutogrant, RemoveAutogrant
<1>8. CASE (\E r \in Row : VersionAction(r) \/ CliVersionAction(r) \/ AddVersion(r)) \/ ApproveBulk \/ HoldBulk \/ Tick
  BY <1>8, VersionChanges
<1>. QED
  BY <1>2, <1>3, <1>4, <1>5, <1>6, <1>7, <1>8 DEF Operate

HomeBut(field) ==
    /\ \A f \in {"policy", "anonymous", "private", "rule", "members"} \ {field} : home'[f] = home[f]
    /\ UNCHANGED <<ver, public, grants, token, license>> /\ Change(TRUE)

LEMMA HomeSets ==
    ASSUME WorldRows, NEW field \in {"policy", "anonymous", "private", "rule", "members"}, NEW value,
           SetHome(field, value)
    PROVE  home'[field] = value /\ HomeBut(field)
<1>1. home \in HomeRow /\ home' = [home EXCEPT ![field] = value]
  BY DEF WorldRows, SetHome
<1>2. DOMAIN home = {"policy", "anonymous", "private", "rule", "members"}
  BY <1>1 DEF HomeRow
<1>3. home'[field] = value /\ \A f \in DOMAIN home \ {field} : home'[f] = home[f]
  BY <1>1, <1>2
<1>. QED
  BY <1>2, <1>3 DEF HomeBut, SetHome

LEMMA HomeRowIs ==
    ASSUME WorldRows, NEW field, NEW value, SetHome(field, value),
           \/ field = "policy" /\ value \in Policy
           \/ field \in {"anonymous", "private", "rule"} /\ value \in BOOLEAN
           \/ field = "members" /\ value \in Seq(Repo \ {Home})
    PROVE  WorldRows' /\ Change(TRUE)
<1>1. home \in HomeRow /\ home' = [home EXCEPT ![field] = value]
  BY DEF WorldRows, SetHome
<1>2. home' \in HomeRow
  BY <1>1 DEF HomeRow
<1>. QED
  BY <1>2 DEF WorldRows, SetHome

LEMMA GrantsAre ==
    ASSUME WorldRows, NEW granted, NEW o \in Override, SetGrant(granted, [given |-> TRUE, over |-> o])
    PROVE  WorldRows' /\ Change(TRUE)
<1>1. [given |-> TRUE, over |-> o] \in Grant
  BY DEF Grant
<1>2. grants' \in [Row -> Grant]
  BY <1>1 DEF SetGrant, WorldRows
<1>. QED
  BY <1>2 DEF WorldRows, SetGrant

LEMMA Turns ==
    ASSUME WorldRows, Operate
    PROVE  /\ WorldRows'
           /\ \/ Change(TRUE)
              \/ Change(FALSE) /\ \E v : SetVersions(v)
<1>1. CASE \E p \in Policy : SetHome("policy", p)
  BY <1>1, HomeRowIs
<1>2. CASE SetAnonymous \/ SetAllowPrivate \/ AddGrantRule \/ RemoveGrantRule
  <2>1. home.anonymous \in BOOLEAN /\ home.private \in BOOLEAN
    BY DEF WorldRows, HomeRow
  <2>. QED
    BY <1>2, <2>1, HomeRowIs DEF SetAnonymous, SetAllowPrivate, AddGrantRule, RemoveGrantRule
<1>3. CASE (\E m \in Repo \ {Home} : AttachMember(m)) \/ DetachMember
  <2>1. home.members \in Seq(Repo \ {Home})
    BY DEF WorldRows, HomeRow
  <2>2. ASSUME NEW m \in Repo \ {Home}, AttachMember(m)
        PROVE  WorldRows' /\ Change(TRUE)
    <3>1. Append(home.members, m) \in Seq(Repo \ {Home}) /\ SetHome("members", Append(home.members, m))
      BY <2>1, <2>2 DEF AttachMember
    <3>. QED
      BY <3>1, HomeRowIs
  <2>3. CASE DetachMember
    <3>1. Tail(home.members) \in Seq(Repo \ {Home}) /\ SetHome("members", Tail(home.members))
      BY <2>1, <2>3 DEF DetachMember
    <3>. QED
      BY <3>1, HomeRowIs
  <2>. QED
    BY <1>3, <2>2, <2>3
<1>4. CASE \E r \in Row : GrantPackage(r)
  BY <1>4, NoneIsOverride, GrantsAre DEF GrantPackage
<1>5. CASE \E n \in Name : SetPolicyOf(n)
  BY <1>5, GrantsAre DEF SetPolicyOf, SetGrantPolicy
<1>6. CASE \E r \in Row : SetVisibility(r)
  <2>1. PICK r \in Row : SetVisibility(r)
    BY <1>6
  <2>2. public' \in [Row -> BOOLEAN]
    BY <2>1 DEF SetVisibility, WorldRows
  <2>. QED
    BY <2>1, <2>2 DEF SetVisibility, WorldRows
<1>7. CASE \E t \in TokenRow : SetToken(t)
  BY <1>7 DEF SetToken, WorldRows
<1>8. CASE \E l \in LicenseRow : SetAny(l)
  BY <1>8 DEF SetAny, SetLicense, WorldRows
<1>9. CASE \E v \in [Row -> Version] : SetVersions(v)
  BY <1>9 DEF SetVersions, WorldRows
<1>. QED
  BY <1>1, <1>2, <1>3, <1>4, <1>5, <1>6, <1>7, <1>8, <1>9, ChangesAre

-----------------------------------------------------------------------------
(* The first change to something that requests read before the versions.    *)

LEMMA HomeSettles ==
    ASSUME Changing, Found, ~ Crosses, NEW field \in {"private", "rule", "members"}, HomeBut(field)
    PROVE  Settles
<1>1. home'.anonymous = home.anonymous /\ home'.policy = home.policy
  BY DEF HomeBut
<1>2. \A n : GrantPolicy(n)' = GrantPolicy(n)
  BY GrantsStay DEF HomeBut
<1>. QED
  BY <1>1, <1>2, ScopeChanges DEF HomeBut

LEMMA GrantSettles ==
    ASSUME Changing, Found, ~ Crosses, NEW g \in Row, GrantPackage(g)
    PROVE  Settles
<1>. DEFINE row == [given |-> TRUE, over |-> NoOverride]
<1>1. /\ \A r \in Row : grants'[r] = IF r = g THEN row ELSE grants[r]
      /\ UNCHANGED <<ver, public, home, token, license>> /\ ~ grants[g].given
  BY DEF GrantPackage, SetGrant, ListGrants
<1>2. \A r \in Row : /\ grants'[r].given <=> grants[r].given \/ r = g
                     /\ grants'[r].over = IF r = g THEN NoOverride ELSE grants[r].over
  BY <1>1
<1>3. \A r \in Row : Reaches(r) => Reaches(r)'
  BY <1>1, <1>2 DEF Reaches, OwnOrMember, Own, MemberExists, GrantRuleExists
<1>4. ASSUME NEW n
      PROVE  GrantPolicy(n) \subseteq GrantPolicy(n)'
  <2>. DEFINE named == {r \in Row : NameOf[r] = n /\ grants[r].given}
  <2>1. named' = named \union (IF NameOf[g] = n THEN {g} ELSE {}) /\ g \notin named
    BY <1>1, <1>2
  <2>2. GrantPolicy(n) = (IF named = {} THEN {NoOverride} ELSE {grants[r].over : r \in named})
    BY DEF GrantPolicy
  <2>3. GrantPolicy(n)' = (IF named' = {} THEN {NoOverride} ELSE {grants'[r].over : r \in named'})
    BY DEF GrantPolicy
  <2>4. \A r \in named : grants'[r].over = grants[r].over
    BY <1>2, <2>1
  <2>5. grants'[g].over = NoOverride
    BY <1>2
  <2>. HIDE DEF named
  <2>. QED
    BY <2>1, <2>2, <2>3, <2>4, <2>5
<1>. QED
  BY <1>1, <1>3, <1>4, ScopeChanges

LEMMA FirstSettles ==
    ASSUME Changing, Found, ~ Crosses, Operate
    PROVE  Settles
<1>0. WorldRows
  BY DEF Changing
<1>1. CASE \E p \in Policy : SetHome("policy", p)
  <2>1. HomeBut("policy")
    BY <1>0, <1>1, HomeSets
  <2>2. /\ home'.anonymous = home.anonymous /\ home'.private = home.private /\ home'.rule = home.rule
        /\ home'.members = home.members
    BY <2>1 DEF HomeBut
  <2>. QED
    BY <2>1, <2>2, PolicySettles DEF HomeBut
<1>2. CASE SetAnonymous
  <2>1. HomeBut("anonymous")
    BY <1>0, <1>2, HomeSets DEF SetAnonymous
  <2>2. /\ home'.policy = home.policy /\ home'.private = home.private /\ home'.rule = home.rule
        /\ home'.members = home.members
    BY <2>1 DEF HomeBut
  <2>. QED
    BY <2>1, <2>2, AnonymousSettles DEF HomeBut
<1>3. CASE SetAllowPrivate
  <2>1. HomeBut("private")
    BY <1>0, <1>3, HomeSets DEF SetAllowPrivate
  <2>. QED
    BY <2>1, HomeSettles
<1>4. CASE AddGrantRule \/ RemoveGrantRule
  <2>1. HomeBut("rule")
    BY <1>0, <1>4, HomeSets DEF AddGrantRule, RemoveGrantRule
  <2>. QED
    BY <2>1, HomeSettles
<1>5. CASE (\E m \in Repo \ {Home} : AttachMember(m)) \/ DetachMember
  <2>1. HomeBut("members")
    BY <1>0, <1>5, HomeSets DEF AttachMember, DetachMember
  <2>. QED
    BY <2>1, HomeSettles
<1>6. CASE \E r \in Row : GrantPackage(r)
  BY <1>6, GrantSettles
<1>7. CASE \E n \in Name : SetPolicyOf(n)
  <2>1. PICK n \in Name : SetPolicyOf(n)
    BY <1>7
  <2>2. PICK o \in Override : SetGrantPolicy(n, o)
    BY <2>1 DEF SetPolicyOf
  <2>. DEFINE named == {r \in ListGrants : NameOf[r] = n}
              row == [given |-> TRUE, over |-> o]
  <2>3. /\ \A r \in Row : grants'[r] = IF r \in named THEN row ELSE grants[r]
        /\ UNCHANGED <<ver, public, home, token, license>>
    BY <2>2 DEF SetGrantPolicy, SetGrant
  <2>4. \A r \in named : r \in Row /\ NameOf[r] = n /\ grants[r].given = TRUE
    BY DEF ListGrants, Changing, WorldRows, Grant
  <2>5. \A r \in Row : grants'[r].given = grants[r].given
    <3>1. row.given = TRUE
      OBVIOUS
    <3>. HIDE DEF row, named
    <3>. QED
      BY <2>3, <2>4, <3>1
  <2>. QED
    BY <2>3, <2>5, GrantPolicySettles
<1>8. CASE \E r \in Row : SetVisibility(r)
  <2>1. UNCHANGED <<ver, grants, home, token, license>>
    BY <1>8 DEF SetVisibility
  <2>. QED
    BY <2>1, GrantsStay, ScopeChanges
<1>9. CASE \E t \in TokenRow : SetToken(t)
  BY <1>9, TokenSettles DEF SetToken
<1>10. CASE \E l \in LicenseRow : SetAny(l)
  BY <1>10, LicenseSettles DEF SetAny, SetLicense
<1>11. CASE \E v \in [Row -> Version] : SetVersions(v)
  BY <1>11, VersionsSettle DEF SetVersions
<1>. QED
  BY <1>0, <1>1, <1>2, <1>3, <1>4, <1>5, <1>6, <1>7, <1>8, <1>9, <1>10, <1>11, ChangesAre

-----------------------------------------------------------------------------
LEMMA ServeMoment ==
    ASSUME RequestRows, Serve
    PROVE  Moment' = Moment /\ Certain' = Certain /\ (Found => Found') /\ req.at # "done"
<1>1. req \in RequestRow /\ UNCHANGED world
  BY DEF RequestRows, Serve, PackagesJson, P2, Dist, UpstreamDist, DomainRoute, Route, IndexSettings,
      AuthorizeAnonymous, ResolveTokenPolicy, ResolveLicense, EntitledPackageBounds, LicensePolicy,
      CheckAllowed, FindUpstreamPath, ServeRoot, IndexNames, ReadUpdatePolicy, ReadGrantPolicy, ServeP2,
      ServeIndex, ServeDist, ServeUpstreamPath, Step, Answer, Admit
<1>2. /\ UNCHANGED <<ver, public, grants, home, token, license>>
      /\ \A r : Reaches(r)' = Reaches(r) /\ ServedScope(r)' = ServedScope(r) /\ OwnOrMember(r)' = OwnOrMember(r)
      /\ \A p : DistByUpstreamPath(p)' = DistByUpstreamPath(p)
      /\ \A n : GrantPolicy(n)' = GrantPolicy(n)
      /\ \A who : CredentialOverride(who)' = CredentialOverride(who)
  BY <1>1, WorldStays
<1>3. /\ \A who, n : Unlocks(who, n)' <=> Unlocks(who, n)
      /\ \A r, overs : Clears(r, overs)' <=> Clears(r, overs)
      /\ \A r : (InIndex(r)' <=> InIndex(r)) /\ (Fetchable(r)' <=> Fetchable(r))
  BY <1>2 DEF Unlocks, Clears, InIndex, Fetchable
<1>4. CASE FindUpstreamPath
  <2>1. req.at = "find" /\ req.kind = "path"
    BY <1>1, <1>4 DEF FindUpstreamPath, RequestRows, RequestRow, Kind, NotIn, Waiting
  <2>2. /\ req'.kind = "path" /\ req'.who = req.who /\ req'.at \in {"done", "allows"}
        /\ PathOf[req'.row] = PathOf[req.row]
        /\ req'.at = "allows" => req'.row \in DistByUpstreamPath(PathOf[req.row])
    BY <1>1, <1>4, <2>1 DEF FindUpstreamPath, Answer, RequestRow, DistByUpstreamPath
  <2>3. Moment' = Moment
    BY <1>2, <1>3, <2>1, <2>2 DEF Moment
  <2>5. Certain' = Certain
    BY <2>1, <2>2, <2>3 DEF Certain
  <2>4. Found'
    BY <1>2, <2>2 DEF Found
  <2>. QED
    BY <2>1, <2>2, <2>3, <2>4, <2>5
<1>5. CASE ~ FindUpstreamPath
  <2>1. /\ req'.kind = req.kind /\ req'.who = req.who /\ req'.name = req.name /\ req'.row = req.row
        /\ req.at # "done"
        /\ req'.at = "allows" => req.kind # "path"
    <3>1. CASE PackagesJson \/ P2 \/ Dist \/ UpstreamDist \/ DomainRoute \/ IndexSettings
      BY <3>1, <1>1 DEF PackagesJson, P2, Dist, UpstreamDist, DomainRoute, Route, IndexSettings, Step, Answer, RequestRow
    <3>2. CASE AuthorizeAnonymous \/ ResolveTokenPolicy \/ ResolveLicense \/ EntitledPackageBounds \/ LicensePolicy
      BY <3>2, <1>1, AfterAuthorizeIs DEF AuthorizeAnonymous, ResolveTokenPolicy, ResolveLicense,
          EntitledPackageBounds, LicensePolicy, Step, Answer, Admit, RequestRow
    <3>3. CASE CheckAllowed \/ IndexNames \/ ReadUpdatePolicy \/ ReadGrantPolicy
      BY <3>3, <1>1 DEF CheckAllowed, IndexNames, ReadUpdatePolicy, ReadGrantPolicy, Step, Answer, RequestRow
    <3>4. CASE ServeRoot \/ ServeP2 \/ ServeIndex \/ ServeDist \/ ServeUpstreamPath
      BY <3>4, <1>1 DEF ServeRoot, ServeP2, ServeIndex, ServeDist, ServeUpstreamPath, Answer, RequestRow
    <3>. QED
      BY <1>5, <3>1, <3>2, <3>3, <3>4 DEF Serve
  <2>2. Moment' = Moment
    BY <1>2, <1>3, <2>1 DEF Moment, InBound
  <2>3. Certain' = Certain
    BY <1>2, <1>3, <2>1, <2>2 DEF Certain
  <2>. QED
    BY <2>1, <2>2, <2>3 DEF Found
<1>. QED
  BY <1>4, <1>5

(* What it would be answered if nothing more changed was right at a moment. *)
Answered ==
    \A r \in Row : /\ Gets(r, FALSE) => r \in seen.could
                   /\ r \in seen.always => Gets(r, TRUE)

Counts ==
    /\ seen.changes \in Nat /\ seen.early \in BOOLEAN /\ seen.crossed \in BOOLEAN
    /\ seen.early => seen.changes >= 1
    /\ Moment \subseteq seen.could /\ seen.always \subseteq Certain

ServingIInv ==
    /\ WorldRows /\ RequestRows /\ Counts
    /\ ~ Skewed => Answered
    /\ ~ seen.early /\ req.at # "done" => Reads
    /\ seen.changes = 0 => Found

LEMMA ServingBegins ==
    ASSUME ServingInit
    PROVE  ServingIInv
<1>1. MaxCool \in Nat /\ NoOverride \in Override
  BY ServingAssumption, NoneIsOverride
<1>2. WorldRows
  <2>1. PICK c \in StartCatalogs : /\ ver = c.ver /\ public = c.public /\ grants = c.grants
                                   /\ home = c.home /\ token = c.token /\ license = c.license
    BY DEF ServingInit
  <2>2. c \in Catalog
    BY ServingAssumption
  <2>. QED
    BY <2>1, <2>2 DEF Catalog, WorldRows
<1>3. PICK q \in Requests :
          req = [at |-> "arrived", kind |-> q[1], who |-> q[2], name |-> q[3], row |-> q[4],
                 access |-> "none", over |-> NoOverride, bounds |-> [n \in Name |-> NotEntitled],
                 policy |-> [mode |-> "auto", cool |-> 0], names |-> {}, got |-> {}]
  BY DEF ServingInit
<1>4. req \in RequestRow /\ req.at = "arrived" /\ req.over = NoOverride
  <2>1. q[1] \in Kind /\ q[2] \in Who /\ q[3] \in Name /\ q[4] \in Row
    BY ServingAssumption
  <2>2. [n \in Name |-> NotEntitled] \in [Name -> LicenseBound]
    BY BoundFacts
  <2>3. [mode |-> "auto", cool |-> 0] \in Policy
    BY <1>1 DEF Policy, Mode
  <2>. QED
    BY <1>1, <1>3, <2>1, <2>2, <2>3 DEF RequestRow, Stages, NotIn, Waiting
<1>5. RequestRows
  BY <1>4 DEF RequestRows, NotIn, Waiting
<1>6. Reads
  BY <1>4, <1>5, WaitingReads DEF Waiting
<1>7. /\ seen.could = Moment /\ seen.always = Certain /\ seen.changes = 0 /\ seen.early = FALSE
      /\ seen.crossed = FALSE
  BY DEF ServingInit
<1>8. Answered
  <2>1. UpToDate
    BY <1>2, <1>4, <1>5, <1>6 DEF UpToDate
  <2>2. \A r \in Row : Known(r)
    BY <1>4 DEF Known
  <2>3. \A r \in Row : (Gets(r, FALSE) => r \in Moment) /\ (r \in Certain => Gets(r, TRUE))
    BY <2>1, <2>2, FreshAgrees
  <2>. QED
    BY <1>7, <2>3 DEF Answered
<1>9. Counts
  <2>1. 0 \in Nat /\ FALSE \in BOOLEAN
    OBVIOUS
  <2>2. seen.changes \in Nat
    BY <1>7, <2>1
  <2>3. seen.early \in BOOLEAN /\ seen.crossed \in BOOLEAN
    BY <1>7, <2>1
  <2>4. ~ seen.early
    BY <1>7
  <2>5. Moment \subseteq seen.could /\ seen.always \subseteq Certain
    BY <1>7
  <2>. QED
    BY <2>2, <2>3, <2>4, <2>5 DEF Counts
<1>10. Found
  BY <1>4 DEF Found
<1>. QED
  BY <1>2, <1>5, <1>6, <1>8, <1>9, <1>10 DEF ServingIInv

LEMMA ServeStep ==
    ASSUME ServingIInv, Serve
    PROVE  ServingIInv'
<1>1. WorldRows /\ RequestRows
  BY DEF ServingIInv
<1>2. Preserves /\ UNCHANGED <<world, seen>>
  BY <1>1, ServeKeeps
<1>3. Moment' = Moment /\ Certain' = Certain /\ (Found => Found') /\ req.at # "done"
  BY <1>1, ServeMoment
<1>4. WorldRows' /\ RequestRows'
  <2>1. UNCHANGED <<ver, public, grants, home, token, license>>
    BY <1>2, WorldStays
  <2>. QED
    BY <1>1, <1>2, <2>1 DEF WorldRows, Preserves
<1>5. (Skewed' <=> Skewed) /\ (Answered => Answered')
  BY <1>2, <1>3 DEF Skewed, Answered, Preserves
<1>6. Counts'
  BY <1>2, <1>3 DEF ServingIInv, Counts
<1>. QED
  BY <1>2, <1>3, <1>4, <1>5, <1>6 DEF ServingIInv, Preserves

LEMMA OperateStep ==
    ASSUME ServingIInv, Operate
    PROVE  ServingIInv'
<1>1. WorldRows /\ RequestRows /\ Counts
  BY DEF ServingIInv
<1>2. WorldRows' /\ (Change(TRUE) \/ (Change(FALSE) /\ \E v : SetVersions(v)))
  BY <1>1, Turns
<1>3. /\ req' = req /\ req.at # "done"
      /\ seen'.could = seen.could \cup Moment' /\ seen'.always = seen.always \cap Certain'
      /\ seen'.changes = seen.changes + 1
      /\ seen.early => seen'.early
      /\ seen'.crossed <=> seen.crossed \/ Crosses
      /\ seen'.early \in BOOLEAN /\ seen'.crossed \in BOOLEAN
  <2>1. ASSUME NEW early \in BOOLEAN, Change(early)
        PROVE  /\ req' = req /\ req.at # "done"
               /\ seen'.could = seen.could \cup Moment' /\ seen'.always = seen.always \cap Certain'
               /\ seen'.changes = seen.changes + 1 /\ seen'.early = (seen.early \/ early)
               /\ seen'.crossed = (seen.crossed \/ Crosses)
    BY <2>1 DEF Change
  <2>2. PICK early \in BOOLEAN : Change(early)
    BY <1>2
  <2>3. seen.early \in BOOLEAN /\ seen.crossed \in BOOLEAN
    BY <1>1 DEF Counts
  <2>. QED
    BY <2>1, <2>2, <2>3
<1>4. RequestRows'
  BY <1>1, <1>3 DEF RequestRows
<1>5. Counts' /\ seen'.changes # 0
  BY <1>1, <1>3 DEF Counts
<1>6. ~ Skewed' => ~ Skewed
  BY <1>1, <1>3 DEF Skewed, Counts
<1>7. ASSUME ~ seen.early
      PROVE  Changing
  BY <1>1, <1>2, <1>3, <1>4, <1>7 DEF ServingIInv, Changing
<1>8. ASSUME ~ seen'.early
      PROVE  Settles /\ Reads'
  <2>1. ~ seen.early /\ \E v : SetVersions(v)
    BY <1>2, <1>3, <1>8 DEF Change
  <2>2. UNCHANGED <<public, grants, home, token, license>>
    BY <2>1 DEF SetVersions
  <2>. QED
    BY <1>7, <2>1, <2>2, VersionsSettle
<1>9. ASSUME ~ Skewed', seen'.early
      PROVE  Settles
  <2>1. seen.changes = 0 /\ ~ seen.early
    BY <1>1, <1>3, <1>9 DEF Skewed, Counts
  <2>2. ~ Crosses
    BY <1>3, <1>9 DEF Skewed
  <2>. QED
    BY <1>7, <2>1, <2>2, FirstSettles DEF ServingIInv
<1>10. ~ Skewed' => Answered'
  <2>. SUFFICES ASSUME ~ Skewed'
       PROVE  Answered'
    OBVIOUS
  <2>1. Settles
    BY <1>3, <1>8, <1>9
  <2>2. Answered
    BY <1>6 DEF ServingIInv
  <2>. QED
    BY <1>1, <1>3, <2>1, <2>2 DEF Answered, Settles, Counts
<1>. QED
  BY <1>2, <1>4, <1>5, <1>8, <1>10 DEF ServingIInv

LEMMA ServingStutters ==
    ASSUME ServingIInv, UNCHANGED servingVars
    PROVE  ServingIInv'
<1>1. (UNCHANGED <<ver, public, grants, home, token, license>>) /\ req' = req /\ seen' = seen
  BY DEF servingVars
<1>2. UNCHANGED world
  BY <1>1 DEF world
<1>3. /\ \A r : Reaches(r)' = Reaches(r) /\ ServedScope(r)' = ServedScope(r) /\ OwnOrMember(r)' = OwnOrMember(r)
      /\ \A r, p : PolicyGate(r, p)' = PolicyGate(r, p)
      /\ AnonymousPackageNames' = AnonymousPackageNames /\ AllPackageNames' = AllPackageNames
      /\ \A n : GrantPolicy(n)' = GrantPolicy(n)
      /\ \A p : DistByUpstreamPath(p)' = DistByUpstreamPath(p)
      /\ \A n, b : RepoServesDist(n, b)' = RepoServesDist(n, b)
      /\ \A who : CredentialOverride(who)' = CredentialOverride(who)
  BY <1>2, WorldStays
<1>4. /\ \A who, n : Unlocks(who, n)' <=> Unlocks(who, n)
      /\ \A r, overs : Clears(r, overs)' <=> Clears(r, overs)
      /\ \A r : (InIndex(r)' <=> InIndex(r)) /\ (Fetchable(r)' <=> Fetchable(r))
  BY <1>1, <1>3 DEF Unlocks, Clears, InIndex, Fetchable
<1>5. Moment' = Moment /\ Certain' = Certain /\ (Found => Found')
  <2>1. Moment' = Moment
    BY <1>1, <1>3, <1>4 DEF Moment, InBound
  <2>2. Certain' = Certain
    BY <2>1, <1>1, <1>3, <1>4 DEF Certain
  <2>. QED
    BY <2>1, <2>2, <1>1, <1>3 DEF Found
<1>6. (LetIn' <=> LetIn) /\ (Standing' <=> Standing) /\ OverNow' = OverNow /\ BoundsNow' = BoundsNow
  BY <1>1 DEF LetIn, Standing, OverNow, BoundsNow
<1>7. \A n : Admits(n)' <=> Admits(n)
  BY <1>1, <1>3, <1>6 DEF Admits
<1>8. NamesThere' = NamesThere /\ NamesNow' = NamesNow /\ (Passed' <=> Passed) /\ Bound' = Bound
  BY <1>1, <1>3, <1>6, <1>7 DEF NamesThere, NamesNow, Passed, Bound
<1>9. Folded' = Folded /\ Base' = Base /\ Finals' = Finals
  <2>1. Folded' = Folded /\ Base' = Base
    BY <1>1, <1>6 DEF Folded, Base
  <2>. QED
    BY <2>1, <1>1, <1>3 DEF Finals
<1>10. \A r \in Row : /\ Gets(r, FALSE)' <=> Gets(r, FALSE)
                      /\ Gets(r, TRUE)' <=> Gets(r, TRUE)
  <2>. SUFFICES ASSUME NEW r \in Row
       PROVE  (Gets(r, FALSE)' <=> Gets(r, FALSE)) /\ (Gets(r, TRUE)' <=> Gets(r, TRUE))
    OBVIOUS
  <2>1. (GetsRoot(r)' <=> GetsRoot(r)) /\ (GetsIndex(r)' <=> GetsIndex(r))
    BY <1>3, <1>8, <1>9 DEF GetsRoot, GetsIndex
  <2>2. (GetsP2(r, TRUE)' <=> GetsP2(r, TRUE)) /\ (GetsP2(r, FALSE)' <=> GetsP2(r, FALSE))
    BY <1>1, <1>3, <1>8, <1>9 DEF GetsP2, InBound
  <2>3. (GetsDist(r)' <=> GetsDist(r)) /\ (GetsPath(r)' <=> GetsPath(r))
    BY <1>1, <1>3, <1>7, <1>8 DEF GetsDist, GetsPath
  <2>. QED
    BY <1>1, <1>6, <2>1, <2>2, <2>3 DEF Gets
<1>11. (Skewed' <=> Skewed) /\ (Answered => Answered') /\ (Counts => Counts')
  BY <1>1, <1>5, <1>10 DEF Skewed, Answered, Counts
<1>12. (WorldRows => WorldRows') /\ (RequestRows => RequestRows')
  BY <1>1 DEF WorldRows, RequestRows
<1>13. Reads => Reads'
  BY <1>1, <1>3, <1>6, <1>7, <1>8, <1>9 DEF Reads
<1>. QED
  BY <1>1, <1>5, <1>11, <1>12, <1>13 DEF ServingIInv

(* A request that is served while settings, policies and versions change    *)
(* lists and sends what a request answered in one instant of its life would *)
(* have had (serve_p2, serve_dist, serve_upstream_path).                    *)
THEOREM OneMoment == ServingSpec => []AnswerFromOneMoment
<1>1. ServingInit => ServingIInv
  BY ServingBegins
<1>2. ServingIInv /\ [ServingNext]_servingVars => ServingIInv'
  BY ServeStep, OperateStep, ServingStutters DEF ServingNext
<1>3. ServingIInv => AnswerFromOneMoment
  <2>. SUFFICES ASSUME ServingIInv, req.at = "done", ~ Skewed
       PROVE  req.got \subseteq seen.could /\ seen.always \subseteq req.got
    BY DEF AnswerFromOneMoment
  <2>1. req.got \subseteq Row /\ Answered /\ seen.always \subseteq Moment
    BY DEF ServingIInv, RequestRows, RequestRow, Counts, Certain
  <2>2. \A r \in Row : (Gets(r, FALSE) <=> r \in req.got) /\ (Gets(r, TRUE) <=> r \in req.got)
    BY DEF Gets
  <2>3. Moment \subseteq Row
    BY DEF Moment, ServingIInv, RequestRows, RequestRow, Kind
  <2>. QED
    BY <2>1, <2>2, <2>3 DEF Answered
<1>. QED
  BY <1>1, <1>2, <1>3, PTL DEF ServingSpec

(* What a request works with are policies, names, rows and answers of the   *)
(* catalog at every await, whatever the operators change meanwhile.         *)
THEOREM ServingTypesCorrect == ServingSpec => []ServingTypes
<1>1. ServingInit => ServingIInv /\ seen.changes \in 0..MaxChanges
  <2>. SUFFICES ASSUME ServingInit
       PROVE  ServingIInv /\ seen.changes \in 0..MaxChanges
    OBVIOUS
  <2>1. seen = [could |-> Moment, always |-> Certain, changes |-> 0, early |-> FALSE,
                crossed |-> FALSE]
    BY DEF ServingInit
  <2>2. seen.changes = 0
    BY <2>1
  <2>. QED
    BY <2>2, ServingBegins, ServingAssumption
<1>2. ServingIInv /\ seen.changes \in 0..MaxChanges /\ [ServingNext]_servingVars
        => ServingIInv' /\ (seen.changes \in 0..MaxChanges)'
  <2>. SUFFICES ASSUME ServingIInv, seen.changes \in 0..MaxChanges, [ServingNext]_servingVars
       PROVE  ServingIInv' /\ (seen.changes \in 0..MaxChanges)'
    OBVIOUS
  <2>1. WorldRows /\ RequestRows /\ Counts
    BY DEF ServingIInv
  <2>2. CASE Serve
    BY <2>1, <2>2, ServeStep, ServeKeeps
  <2>3. CASE Operate
    <3>1. Change(TRUE) \/ Change(FALSE)
      BY <2>1, <2>3, Turns
    <3>2. seen'.changes = seen.changes + 1 /\ seen.changes < MaxChanges
      BY <3>1 DEF Change
    <3>. QED
      BY <2>3, <3>2, OperateStep, ServingAssumption
  <2>4. CASE UNCHANGED servingVars
    BY <2>4, ServingStutters DEF servingVars
  <2>. QED
    BY <2>2, <2>3, <2>4 DEF ServingNext
<1>3. ServingIInv /\ seen.changes \in 0..MaxChanges => ServingTypes
  BY DEF ServingIInv, WorldRows, RequestRows, RequestRow, ServingTypes
<1>. QED
  BY <1>1, <1>2, <1>3, PTL DEF ServingSpec
=============================================================================
