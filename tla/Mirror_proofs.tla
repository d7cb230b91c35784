---------------------------- MODULE Mirror_proofs ----------------------------
(* What a sync may do to stored bytes, to flags and to archived packages, for *)
(* any upstreams, packages, versions and workers and without a bound on what  *)
(* registries and operators do; and what a dependency plan holds, for any     *)
(* upstreams and requirements.                                                *)
EXTENDS Mirror, Closure, FiniteSetTheorems, SequenceTheorems, TLAPS

PV == Pkg \X Version
VerRecs == [bytes : Bytes \cup {Nothing}, ref : Bytes \cup {Nothing}, path : BOOLEAN]
RowRecs == [there : BOOLEAN, up : Upstream \cup {Nothing}, broken : BOOLEAN,
            archived : BOOLEAN, ver : [Version -> VerRecs]]
RemoteRecs == [root : Answers, listed : (SUBSET Pkg) \cup {Patterns}, doc : [Pkg -> Answers],
               bytes : [Pkg -> [Version -> Bytes \cup {Nothing}]]]
RequireLists == Subs \cup {Malformed, {}}
Docs == UNION {[S -> Bytes] : S \in SUBSET PV}
Stores == UNION {[S -> VerRecs] : S \in SUBSET PV}

Early == {"clone", "root", "archived"}
Storing == {"upsert", "bind", "insert"}
InPackage == {"stored", "versions"} \cup Storing
OnTheList == {"next", "flag"} \cup InPackage
Places == Early \cup OnTheList \cup {"reconcile"}

SyncRecs == [at : Places, up : Upstream, single : BOOLEAN, requires : RequireLists,
             listed : (SUBSET Pkg) \cup {Patterns}, todo : SUBSET Pkg, pkg : Pkg \cup {Nothing},
             doc : Docs \cup {<<>>}, stored : Stores \cup {<<>>}, left : SUBSET PV,
             dist : (PV \X Bytes) \cup {<<>>}]

Has(rows, pv) == rows[pv[1]].ver[pv[2]] # NoVer
Gone(rem, u, pv) == rem[u].bytes[pv[1]][pv[2]] = Nothing

RowsOK(rows, ups) ==
  /\ rows \in [Pkg -> RowRecs]
  /\ \A p \in Pkg :
       /\ rows[p].archived => rows[p].there
       /\ rows[p].up # Nothing => ups[rows[p].up].made \in {"bare", "ready"}
       /\ \A v \in Version : rows[p].ver[v] # NoVer => rows[p].there /\ rows[p].ver[v].bytes \in Bytes

(* What a sync works on is of the package it is at.                           *)
DocOK(s) ==
  /\ s.at = "clone" => Kind[s.up] = "git"
  /\ s.at \in InPackage =>
       /\ s.doc \in Docs
       /\ Kind[s.up] = "composer" => \A pv \in DOMAIN s.doc : pv[1] = s.pkg

(* A version of the document that is wanted and not left is stored, or is the *)
(* one on its way.                                                            *)
StoredOK(s, rows) ==
  /\ s.at \in {"versions"} \cup Storing =>
       /\ s.left \subseteq DOMAIN s.doc
       /\ Kind[s.up] = "composer" => \A pv \in DOMAIN s.stored : Has(rows, pv)
       /\ \A pv \in Wanted(s.requires, DOMAIN s.doc) \ s.left :
            Has(rows, pv) \/ (s.at \in Storing /\ pv = s.dist[1])
  /\ s.at \in Storing => s.dist \in PV \X Bytes /\ s.dist[1] \in DOMAIN s.doc
  /\ s.at \in {"bind", "insert"} => rows[s.dist[1][1]].there

(* What a sync may flag, now or later, its upstream has refused.              *)
FlagOK(s, r, rem) ==
  /\ \A p \in Pkg : rem[s.up].doc[p] = "refused" \/ ~Lists(rem[s.up], p) => p \in r
  /\ s.listed # Patterns => \A p \in Pkg \ s.listed : p \in r
  /\ s.at = "flag" => s.pkg \in Pkg /\ s.pkg \in r
  /\ s.at = "reconcile" => s.todo \subseteq r
  /\ s.at \in InPackage => \A pv \in DOMAIN s.doc : Gone(rem, s.up, pv) => pv[1] \in r

(* What a registry sync has before it was not archived when it looked.        *)
FreezeOK(s, l, rows) ==
  /\ s.at \in Early => s.pkg = Nothing
  /\ (s.at \in OnTheList /\ Kind[s.up] = "composer" /\ ~s.single) =>
       \A p \in Pkg : (p \in s.todo \/ p = s.pkg) /\ rows[p].archived => p \in l

WorkerOK(s, r, l, rows, rem) ==
  \/ s = Free
  \/ s \in SyncRecs /\ DocOK(s) /\ StoredOK(s, rows) /\ FlagOK(s, r, rem) /\ FreezeOK(s, l, rows)

UpstreamRecs == [made : {"never", "bare", "ready", "gone"}, requires : RequireLists]

Tables ==
  /\ remote \in [Upstream -> RemoteRecs]
  /\ upstream \in [Upstream -> UpstreamRecs]
  /\ RowsOK(row, upstream)

Histories == refused \in [Worker -> SUBSET Pkg] /\ late \in [Worker -> SUBSET Pkg]

Workers(rows, rem) ==
  \A w \in Worker : WorkerOK(sync[w], refused[w], late[w], rows, rem)

IInv ==
  /\ Tables
  /\ Histories
  /\ DOMAIN sync = Worker /\ sync = [w \in Worker |-> sync[w]]
  /\ Workers(row, remote)

-----------------------------------------------------------------------------
(* Facts about the data.                                                      *)

LEMMA NothingFacts == Nothing \notin Bytes /\ Nothing \notin Pkg /\ Nothing \notin Upstream
BY MirrorAssumption

LEMMA KindFacts == \A u \in Upstream : Kind[u] \in {"composer", "git"}
BY MirrorAssumption

LEMMA NoVerType == NoVer \in VerRecs
BY DEF NoVer, VerRecs

LEMMA DocIntro ==
  ASSUME NEW S \in SUBSET PV, NEW f \in [S -> Bytes]
  PROVE  f \in Docs /\ DOMAIN f = S
BY DEF Docs

LEMMA DocFacts ==
  ASSUME NEW d \in Docs
  PROVE  DOMAIN d \subseteq PV /\ \A pv \in DOMAIN d : d[pv] \in Bytes
<1>1. PICK S \in SUBSET PV : d \in [S -> Bytes]
  BY DEF Docs
<1>. QED
  BY <1>1

LEMMA StoreIntro ==
  ASSUME NEW S \in SUBSET PV, NEW f \in [S -> VerRecs]
  PROVE  f \in Stores /\ DOMAIN f = S
BY DEF Stores

LEMMA WantedSubset ==
  ASSUME NEW sub, NEW pvs
  PROVE  Wanted(sub, pvs) \subseteq pvs
BY DEF Wanted

LEMMA FreeFacts ==
  /\ Free.at = "idle"
  /\ \A s \in SyncRecs : s.at # "idle" /\ s # Free
BY DEF Free, SyncRecs, Places, Early, OnTheList, InPackage, Storing

-----------------------------------------------------------------------------
(* What the others do to the rows takes nothing from a sync: rows and         *)
(* versions stay, and what is newly archived is noted.                        *)
Grows(rows, new) ==
  \A p \in Pkg :
    /\ rows[p].there => new[p].there
    /\ new[p].archived => rows[p].archived
    /\ \A v \in Version : rows[p].ver[v] # NoVer => new[p].ver[v] # NoVer

LEMMA LateNoted ==
  ASSUME NEW s, NEW r, NEW l, NEW k, NEW rows, NEW new, NEW rem,
         WorkerOK(s, r, l, rows, rem), l \subseteq k,
         \A p \in Pkg : /\ rows[p].there => new[p].there
                        /\ \A v \in Version : rows[p].ver[v] # NoVer => new[p].ver[v] # NoVer,
         s.at \in OnTheList => \A p \in Pkg : new[p].archived => rows[p].archived \/ p \in k
  PROVE  WorkerOK(s, r, k, new, rem)
<1>1. CASE s = Free
  BY <1>1 DEF WorkerOK
<1>2. CASE s # Free
  <2>1. s \in SyncRecs /\ DocOK(s) /\ StoredOK(s, rows) /\ FlagOK(s, r, rem) /\ FreezeOK(s, l, rows)
    BY <1>2 DEF WorkerOK
  <2>2. \A pv \in PV : Has(rows, pv) => Has(new, pv)
    BY DEF Has, PV
  <2>3. StoredOK(s, new)
    <3>1. CASE s.at \in {"versions"} \cup Storing
      <4>1. DOMAIN s.doc \subseteq PV
        BY <2>1, <3>1, DocFacts DEF DocOK, InPackage
      <4>2. DOMAIN s.stored \subseteq PV \/ Kind[s.up] # "composer" \/ \A pv \in DOMAIN s.stored : Has(new, pv)
        <5>1. CASE s.stored = <<>>
          BY <5>1
        <5>2. CASE s.stored # <<>>
          <6>1. s.stored \in Stores
            BY <2>1, <5>2 DEF SyncRecs
          <6>. QED
            BY <6>1 DEF Stores
        <5>. QED
          BY <5>1, <5>2
      <4>3. \A pv \in Wanted(s.requires, DOMAIN s.doc) : pv \in PV
        BY <4>1, WantedSubset
      <4>4. s.at \in Storing => s.dist[1][1] \in Pkg
        BY <2>1 DEF StoredOK, PV
      <4>5. s.at \in {"bind", "insert"} => new[s.dist[1][1]].there
        BY <2>1, <4>4 DEF StoredOK, Storing
      <4>. QED
        BY <2>1, <2>2, <4>2, <4>3, <4>5 DEF StoredOK
    <3>2. CASE s.at \notin {"versions"} \cup Storing
      BY <3>2 DEF StoredOK, Storing
    <3>. QED
      BY <3>1, <3>2
  <2>4. FreezeOK(s, k, new)
    BY <2>1 DEF FreezeOK
  <2>. QED
    BY <2>1, <2>3, <2>4 DEF WorkerOK
<1>. QED
  BY <1>1, <1>2

LEMMA OthersKeep ==
  ASSUME NEW s, NEW r, NEW l, NEW rows, NEW new, NEW rem,
         WorkerOK(s, r, l, rows, rem), Grows(rows, new)
  PROVE  WorkerOK(s, r, l, new, rem)
BY LateNoted DEF Grows

LEMMA InitIInv == MirrorInit => IInv
<1>. SUFFICES ASSUME MirrorInit PROVE IInv
  OBVIOUS
<1>1. remote \in [Upstream -> RemoteRecs]
  BY MirrorAssumption DEF MirrorInit, RemoteRecs
<1>2. upstream \in [Upstream -> UpstreamRecs]
  BY DEF MirrorInit, UpstreamRecs, RequireLists
<1>3. NoRow \in RowRecs
  BY NoVerType DEF NoRow, RowRecs
<1>4. RowsOK(row, upstream)
  BY <1>3 DEF MirrorInit, RowsOK, NoRow
<1>5. Histories
  BY DEF MirrorInit, Histories
<1>6. Workers(row, remote) /\ DOMAIN sync = Worker /\ sync = [w \in Worker |-> sync[w]]
  BY DEF MirrorInit, Workers, WorkerOK
<1>. QED
  BY <1>1, <1>2, <1>4, <1>5, <1>6 DEF IInv, Tables

-----------------------------------------------------------------------------
(* One worker moves.                                                          *)

LEMMA WorkerFacts ==
  ASSUME IInv, NEW w \in Worker, sync[w].at # "idle"
  PROVE  /\ sync[w] \in SyncRecs /\ DocOK(sync[w]) /\ StoredOK(sync[w], row)
         /\ FlagOK(sync[w], refused[w], remote) /\ FreezeOK(sync[w], late[w], row)
BY FreeFacts DEF IInv, Workers, WorkerOK

LEMMA Same == Grows(row, row)
BY DEF Grows

LEMMA Conclude ==
  ASSUME IInv, NEW w \in Worker, NEW m, sync' = [sync EXCEPT ![w] = m],
         Tables', Histories', remote' = remote, Grows(row, row'),
         \A x \in Worker \ {w} : refused'[x] = refused[x] /\ late'[x] = late[x],
         WorkerOK(m, refused'[w], late'[w], row', remote)
  PROVE  IInv'
<1>1. DOMAIN sync' = Worker /\ sync' = [x \in Worker |-> sync'[x]]
  BY DEF IInv
<1>2. ASSUME NEW x \in Worker
      PROVE  WorkerOK(sync'[x], refused'[x], late'[x], row', remote')
  <2>1. CASE x = w
    BY <2>1 DEF IInv
  <2>2. CASE x # w
    <3>1. WorkerOK(sync[x], refused[x], late[x], row, remote)
      BY DEF IInv, Workers
    <3>2. WorkerOK(sync[x], refused[x], late[x], row', remote)
      BY <3>1, OthersKeep
    <3>. QED
      BY <2>2, <3>2 DEF IInv
  <2>. QED
    BY <2>1, <2>2
<1>. QED
  BY <1>1, <1>2 DEF IInv, Workers

LEMMA Move ==
  ASSUME IInv, NEW w \in Worker, NEW m, sync' = [sync EXCEPT ![w] = m],
         UNCHANGED <<remote, upstream, refused, late>>,
         RowsOK(row', upstream), Grows(row, row'),
         WorkerOK(m, refused[w], late[w], row', remote)
  PROVE  IInv'
<1>1. Tables' /\ Histories'
  BY DEF IInv, Tables, Histories
<1>. QED
  BY <1>1, Conclude

LEMMA Stop ==
  ASSUME IInv, NEW w \in Worker, Ends(w), UNCHANGED <<remote, upstream>>,
         RowsOK(row', upstream), Grows(row, row')
  PROVE  IInv'
<1>1. Tables'
  BY DEF IInv, Tables
<1>2. /\ Histories' /\ sync' = [sync EXCEPT ![w] = Free]
      /\ \A x \in Worker \ {w} : refused'[x] = refused[x] /\ late'[x] = late[x]
  BY DEF IInv, Histories, Ends, Goes
<1>3. WorkerOK(Free, refused'[w], late'[w], row', remote)
  BY DEF WorkerOK
<1>. QED
  BY <1>1, <1>2, <1>3, Conclude

LEMMA GiveUp ==
  ASSUME IInv, NEW w \in Worker, Abandon(w), sync[w].at \in OnTheList,
         UNCHANGED <<remote, upstream>>, RowsOK(row', upstream), Grows(row, row')
  PROVE  IInv'
<1>1. CASE Kind[sync[w].up] = "git"
  BY <1>1, Stop DEF Abandon
<1>2. CASE Kind[sync[w].up] # "git"
  <2>. DEFINE s == sync[w]
              m == [s EXCEPT !.at = "next", !.doc = <<>>, !.stored = <<>>, !.left = {}, !.dist = <<>>]
  <2>0. s.at # "idle"
    BY DEF OnTheList, InPackage, Storing
  <2>1. s \in SyncRecs /\ FlagOK(s, refused[w], remote) /\ FreezeOK(s, late[w], row')
    <3>1. WorkerOK(s, refused[w], late[w], row', remote)
      BY OthersKeep DEF IInv, Workers
    <3>. QED
      BY <2>0, <3>1, FreeFacts DEF WorkerOK
  <2>2. m \in SyncRecs /\ m.at = "next" /\ m.up = s.up /\ m.listed = s.listed
          /\ m.todo = s.todo /\ m.pkg = s.pkg /\ m.single = s.single
    BY <2>1 DEF SyncRecs, Places, OnTheList
  <2>3. sync' = [sync EXCEPT ![w] = m] /\ UNCHANGED <<refused, late>>
    BY <1>2 DEF Abandon, Goes, History
  <2>. HIDE DEF m
  <2>4. DocOK(m) /\ StoredOK(m, row') /\ FlagOK(m, refused[w], remote) /\ FreezeOK(m, late[w], row')
    BY <2>1, <2>2 DEF DocOK, StoredOK, FlagOK, FreezeOK, InPackage, Storing, Early, OnTheList
  <2>. QED
    BY <2>2, <2>3, <2>4, Move DEF WorkerOK
<1>. QED
  BY <1>1, <1>2

-----------------------------------------------------------------------------
(* The tables.                                                                *)

LEMMA VerKept ==
  ASSUME IInv, NEW p \in Pkg, NEW v \in Version
  PROVE  row[p] \in RowRecs /\ row[p].ver \in [Version -> VerRecs] /\ row[p].ver[v] \in VerRecs
BY DEF IInv, Tables, RowsOK, RowRecs

LEMMA FlaggedRows ==
  ASSUME IInv, NEW p \in Pkg, row' = Flagged(p)
  PROVE  /\ RowsOK(row', upstream) /\ Grows(row, row')
         /\ \A q \in Pkg : row'[q].ver = row[q].ver /\ (q # p => row'[q] = row[q])
<1>1. /\ row \in [Pkg -> RowRecs]
      /\ row' = [row EXCEPT ![p].broken = @ \/ (row[p].there /\ ~row[p].archived)]
  BY DEF IInv, Tables, RowsOK, Flagged
<1>2. row' \in [Pkg -> RowRecs]
  BY <1>1 DEF RowRecs
<1>3. \A q \in Pkg : /\ row'[q].ver = row[q].ver /\ row'[q].up = row[q].up
                     /\ row'[q].there = row[q].there /\ row'[q].archived = row[q].archived
                     /\ q # p => row'[q] = row[q]
  BY <1>1 DEF RowRecs
<1>. QED
  BY <1>2, <1>3 DEF IInv, Tables, RowsOK, Grows

LEMMA SyncedRows ==
  ASSUME IInv, NEW marked, row' = Synced(marked)
  PROVE  /\ RowsOK(row', upstream) /\ Grows(row, row')
         /\ \A q \in Pkg : row'[q].ver = row[q].ver /\ (row'[q].broken => row[q].broken)
<1>1. /\ row \in [Pkg -> RowRecs]
      /\ row' = [q \in Pkg |-> [row[q] EXCEPT !.broken = @ /\ q \notin marked]]
  BY DEF IInv, Tables, RowsOK, Synced
<1>2. row' \in [Pkg -> RowRecs]
  <2>1. ASSUME NEW q \in Pkg PROVE [row[q] EXCEPT !.broken = @ /\ q \notin marked] \in RowRecs
    <3>1. row[q] \in RowRecs /\ (row[q].broken /\ q \notin marked) \in BOOLEAN
      BY <1>1
    <3>. QED
      BY <3>1 DEF RowRecs
  <2>. QED
    BY <1>1, <2>1
<1>3. \A q \in Pkg : /\ row'[q].ver = row[q].ver /\ row'[q].up = row[q].up
                     /\ row'[q].there = row[q].there /\ row'[q].archived = row[q].archived
                     /\ row'[q].broken => row[q].broken
  BY <1>1 DEF RowRecs
<1>. QED
  BY <1>2, <1>3 DEF IInv, Tables, RowsOK, Grows

LEMMA UpsertedRows ==
  ASSUME IInv, NEW p \in Pkg, row' = [row EXCEPT ![p].there = TRUE]
  PROVE  /\ RowsOK(row', upstream) /\ Grows(row, row') /\ row'[p].there
         /\ \A q \in Pkg : row'[q].ver = row[q].ver /\ row'[q].broken = row[q].broken
<1>1. row \in [Pkg -> RowRecs]
  BY DEF IInv, Tables, RowsOK
<1>2. row' \in [Pkg -> RowRecs] /\ row'[p].there
  BY <1>1 DEF RowRecs
<1>3. \A q \in Pkg : /\ row'[q].ver = row[q].ver /\ row'[q].up = row[q].up
                     /\ row[q].there => row'[q].there
                     /\ row'[q].archived = row[q].archived /\ row'[q].broken = row[q].broken
  BY <1>1 DEF RowRecs
<1>. QED
  BY <1>2, <1>3 DEF IInv, Tables, RowsOK, Grows

LEMMA BoundRows ==
  ASSUME IInv, NEW p \in Pkg, NEW u \in Upstream, Live(u), row' = [row EXCEPT ![p].up = u]
  PROVE  /\ RowsOK(row', upstream) /\ Grows(row, row')
         /\ \A q \in Pkg : row'[q].ver = row[q].ver /\ row'[q].broken = row[q].broken
<1>1. row \in [Pkg -> RowRecs]
  BY DEF IInv, Tables, RowsOK
<1>2. row' \in [Pkg -> RowRecs]
  BY <1>1 DEF RowRecs
<1>3. \A q \in Pkg : /\ row'[q].ver = row[q].ver /\ row'[q].up \in {row[q].up, u}
                     /\ row'[q].there = row[q].there
                     /\ row'[q].archived = row[q].archived /\ row'[q].broken = row[q].broken
  BY <1>1 DEF RowRecs
<1>. QED
  BY <1>2, <1>3 DEF IInv, Tables, RowsOK, Grows, Live

LEMMA InsertedRows ==
  ASSUME IInv, NEW p \in Pkg, NEW v \in Version, NEW x \in VerRecs, x.bytes \in Bytes, row[p].there,
         row' = [row EXCEPT ![p].ver[v] = x]
  PROVE  /\ RowsOK(row', upstream) /\ Grows(row, row') /\ row'[p].ver[v] = x /\ x # NoVer
         /\ \A q \in Pkg : /\ row'[q].broken = row[q].broken
                           /\ \A y \in Version : q # p \/ y # v => row'[q].ver[y] = row[q].ver[y]
                           /\ q # p => row'[q] = row[q]
<1>1. row \in [Pkg -> RowRecs]
  BY DEF IInv, Tables, RowsOK
<1>2. row' \in [Pkg -> RowRecs]
  BY <1>1 DEF RowRecs
<1>3. x # NoVer
  BY NothingFacts DEF NoVer
<1>4. /\ \A q \in Pkg : /\ row'[q].up = row[q].up /\ row'[q].there = row[q].there
                        /\ row'[q].archived = row[q].archived /\ row'[q].broken = row[q].broken
                        /\ \A y \in Version : q # p \/ y # v => row'[q].ver[y] = row[q].ver[y]
                        /\ q # p => row'[q] = row[q]
      /\ row'[p].ver[v] = x
  BY <1>1 DEF RowRecs
<1>. QED
  BY <1>2, <1>3, <1>4 DEF IInv, Tables, RowsOK, Grows

-----------------------------------------------------------------------------
(* The steps of a sync.                                                       *)

LEMMA BeginKeeps ==
  ASSUME IInv, NEW w \in Worker, NEW u \in Upstream, NEW single \in SUBSET Pkg, Begin(w, u, single)
  PROVE  IInv'
<1>. DEFINE at == IF single # {} THEN "next" ELSE IF Kind[u] = "git" THEN "clone" ELSE "root"
            one == single # {}
            m == [at |-> at, up |-> u, single |-> one, requires |-> upstream[u].requires,
                  listed |-> Patterns, todo |-> single,
                  pkg |-> Nothing, doc |-> <<>>, stored |-> <<>>, left |-> {}, dist |-> <<>>]
            r == RefusedBy(u, remote[u], remote[u])
<1>1. upstream[u].requires \in RequireLists
  BY DEF IInv, Tables, UpstreamRecs
<1>2. m \in SyncRecs
  <2>1. at \in Places
    BY DEF Places, Early, OnTheList
  <2>2. one \in BOOLEAN
    OBVIOUS
  <2>. HIDE DEF at, one
  <2>. QED
    BY <1>1, <2>1, <2>2 DEF SyncRecs
<1>3. /\ m.up = u /\ m.single = (single # {}) /\ m.listed = Patterns /\ m.todo = single
      /\ m.pkg = Nothing
      /\ \/ m.at = "next" /\ m.single
         \/ m.at = "clone" /\ Kind[u] = "git"
         \/ m.at = "root"
  OBVIOUS
<1>4. /\ sync' = [sync EXCEPT ![w] = m] /\ refused' = [refused EXCEPT ![w] = r]
      /\ UNCHANGED <<remote, upstream, row, late>>
  BY DEF Begin, Goes, Catalog
<1>5. r \in SUBSET Pkg /\ \A p \in Pkg : remote[u].doc[p] = "refused" \/ ~Lists(remote[u], p) => p \in r
  BY DEF RefusedBy
<1>. HIDE DEF m, r
<1>6. FlagOK(m, r, remote)
  BY <1>3, <1>5 DEF FlagOK, InPackage, Storing
<1>7. DocOK(m) /\ StoredOK(m, row) /\ FreezeOK(m, late[w], row)
  BY <1>3 DEF DocOK, StoredOK, FreezeOK, InPackage, Storing, OnTheList
<1>8. WorkerOK(m, r, late[w], row, remote)
  BY <1>2, <1>6, <1>7 DEF WorkerOK
<1>9. Tables' /\ Histories' /\ refused'[w] = r
  BY <1>4, <1>5 DEF IInv, Tables, Histories, RowsOK
<1>. QED
  BY <1>4, <1>8, <1>9, Same, Conclude DEF IInv, Histories

LEMMA FetchRootKeeps ==
  ASSUME IInv, NEW w \in Worker, FetchRoot(w)
  PROVE  IInv'
<1>. DEFINE s == sync[w]
            r == remote[s.up]
            t == IF r.listed = Patterns THEN {}
                 ELSE {p \in r.listed : MatchesName(s.requires, p)}
            m == [s EXCEPT !.at = "archived", !.listed = r.listed, !.todo = t]
<1>1. s.at = "root" /\ UNCHANGED <<remote, upstream, row>> /\ RowsOK(row', upstream)
  BY DEF FetchRoot, Catalog, Outside, IInv, Tables
<1>2. s \in SyncRecs /\ FlagOK(s, refused[w], remote) /\ FreezeOK(s, late[w], row)
  BY <1>1, WorkerFacts
<1>3. CASE r.root # "ok"
  BY <1>1, <1>3, Stop, Same DEF FetchRoot
<1>4. CASE r.root = "ok"
  <2>1. r.listed \in (SUBSET Pkg) \cup {Patterns}
    BY <1>2 DEF IInv, Tables, RemoteRecs, SyncRecs
  <2>2. m \in SyncRecs /\ m.at = "archived" /\ m.up = s.up /\ m.listed = r.listed /\ m.pkg = s.pkg
    <3>1. t \in SUBSET Pkg
      <4>1. CASE r.listed = Patterns
        BY <4>1
      <4>2. CASE r.listed # Patterns
        BY <2>1, <4>2
      <4>. QED
        BY <4>1, <4>2
    <3>. HIDE DEF t
    <3>. QED
      BY <1>2, <2>1, <3>1 DEF SyncRecs, Places, Early
  <2>3. sync' = [sync EXCEPT ![w] = m] /\ UNCHANGED <<refused, late>>
    BY <1>4 DEF FetchRoot, Goes, History
  <2>. HIDE DEF m
  <2>4. DocOK(m) /\ StoredOK(m, row) /\ FlagOK(m, refused[w], remote) /\ FreezeOK(m, late[w], row)
    BY <1>1, <1>2, <2>2 DEF DocOK, StoredOK, FlagOK, FreezeOK, InPackage, Storing, Early, OnTheList, Lists
  <2>. QED
    BY <1>1, <2>2, <2>3, <2>4, Same, Move DEF WorkerOK
<1>. QED
  BY <1>3, <1>4

LEMMA ReadArchivedKeeps ==
  ASSUME IInv, NEW w \in Worker, ReadArchived(w)
  PROVE  IInv'
<1>. DEFINE s == sync[w]
            m == [s EXCEPT !.at = "next", !.todo = @ \ ArchivedNames]
<1>1. s.at = "archived" /\ UNCHANGED <<remote, upstream, row, refused, late>> /\ RowsOK(row, upstream)
  BY DEF ReadArchived, Catalog, Outside, History, IInv, Tables
<1>2. s \in SyncRecs /\ FlagOK(s, refused[w], remote) /\ FreezeOK(s, late[w], row)
  BY <1>1, WorkerFacts
<1>3. m \in SyncRecs /\ m.at = "next" /\ m.up = s.up /\ m.listed = s.listed /\ m.pkg = s.pkg
        /\ m.todo = s.todo \ ArchivedNames
  BY <1>2 DEF SyncRecs, Places, OnTheList
<1>4. sync' = [sync EXCEPT ![w] = m]
  BY DEF ReadArchived, Goes
<1>. HIDE DEF m
<1>5. \A p \in Pkg : p \in m.todo => ~row[p].archived
  BY <1>1, <1>3 DEF ArchivedNames, ListPackages, RowsOK
<1>6. m.pkg = Nothing
  BY <1>1, <1>2, <1>3 DEF FreezeOK, Early
<1>7. DocOK(m) /\ StoredOK(m, row) /\ FlagOK(m, refused[w], remote)
  BY <1>1, <1>2, <1>3 DEF DocOK, StoredOK, FlagOK, InPackage, Storing
<1>8. FreezeOK(m, late[w], row)
  BY <1>3, <1>5, <1>6, NothingFacts DEF FreezeOK, Early
<1>. QED
  BY <1>1, <1>3, <1>4, <1>7, <1>8, Same, Move DEF WorkerOK

LEMMA PublishedDoc ==
  ASSUME IInv, NEW u \in Upstream, NEW p \in Pkg
  PROVE  /\ Published(u, p) \subseteq PV
         /\ \A pv \in Published(u, p) : pv[1] = p /\ ~Gone(remote, u, pv)
                                          /\ remote[u].bytes[pv[1]][pv[2]] \in Bytes
<1>1. remote[u].bytes \in [Pkg -> [Version -> Bytes \cup {Nothing}]]
  BY DEF IInv, Tables, RemoteRecs
<1>. QED
  BY <1>1 DEF Published, PV, Gone

(* A document is of its package, and what is published is in it.              *)
LEMMA DocumentIs ==
  ASSUME IInv, NEW u \in Upstream, NEW p \in Pkg, NEW d \in Documents(u, p)
  PROVE  d \in Docs /\ Published(u, p) \subseteq DOMAIN d /\ \A pv \in DOMAIN d : pv[1] = p
<1>1. PICK dead \in SUBSET ({p} \X Version \ Published(u, p)) : d \in [Published(u, p) \cup dead -> Bytes]
  BY DEF Documents
<1>2. Published(u, p) \cup dead \subseteq PV
        /\ \A pv \in Published(u, p) \cup dead : pv[1] = p
  BY <1>1, PublishedDoc DEF PV
<1>. QED
  BY <1>1, <1>2, DocIntro

LEMMA FetchDocumentKeeps ==
  ASSUME IInv, NEW w \in Worker, NEW p \in Pkg, FetchDocument(w, p)
  PROVE  IInv'
<1>. DEFINE s == sync[w]
            u == s.up
            a == remote[u].doc[p]
            on == [s EXCEPT !.todo = @ \ {p}, !.pkg = p]
<1>1. /\ s.at = "next" /\ p \in s.todo /\ UNCHANGED <<remote, upstream, row, late>>
      /\ RowsOK(row, upstream)
  BY DEF FetchDocument, Catalog, Outside, IInv, Tables
<1>2. s \in SyncRecs /\ FlagOK(s, refused[w], remote) /\ FreezeOK(s, late[w], row) /\ u \in Upstream
  <2>1. s \in SyncRecs /\ FlagOK(s, refused[w], remote) /\ FreezeOK(s, late[w], row)
    BY <1>1, WorkerFacts
  <2>. QED
    BY <2>1 DEF SyncRecs
<1>4. on \in SyncRecs /\ on.at = "next" /\ on.up = u /\ on.listed = s.listed /\ on.single = s.single
        /\ on.pkg = p /\ on.todo = s.todo \ {p}
  BY <1>1, <1>2 DEF SyncRecs
<1>5. CASE a # "ok"
  <2>. DEFINE m == IF a = "down" THEN on ELSE [on EXCEPT !.at = "flag"]
  <2>1. sync' = [sync EXCEPT ![w] = m] /\ UNCHANGED refused
    BY <1>5 DEF FetchDocument, Goes
  <2>. HIDE DEF on
  <2>2. a = "down" \/ a = "refused"
    BY <1>2, <1>5 DEF IInv, Tables, RemoteRecs, Answers
  <2>3. /\ m \in SyncRecs /\ m.up = u /\ m.listed = s.listed /\ m.single = s.single
        /\ m.pkg = p /\ m.todo = s.todo \ {p}
        /\ m.at = "next" \/ (m.at = "flag" /\ a = "refused")
    BY <1>4, <2>2 DEF SyncRecs, Places, OnTheList, InPackage
  <2>. HIDE DEF m
  <2>4. DocOK(m) /\ StoredOK(m, row) /\ FlagOK(m, refused[w], remote)
    BY <1>2, <2>3 DEF DocOK, StoredOK, FlagOK, InPackage, Storing
  <2>5. FreezeOK(m, late[w], row)
    BY <1>1, <1>2, <2>3 DEF FreezeOK, Early, OnTheList
  <2>. QED
    BY <1>1, <2>1, <2>3, <2>4, <2>5, Same, Move DEF WorkerOK
<1>6. CASE a = "ok"
  <2>1. PICK d \in Documents(u, p) :
          /\ sync' = [sync EXCEPT ![w] = [on EXCEPT !.at = "stored", !.doc = d]]
          /\ refused' = IF Lists404(u, p, d) THEN [refused EXCEPT ![w] = @ \cup {p}] ELSE refused
    BY <1>6 DEF FetchDocument, Goes
  <2>. DEFINE m == [on EXCEPT !.at = "stored", !.doc = d]
              r == IF Lists404(u, p, d) THEN refused[w] \cup {p} ELSE refused[w]
  <2>2. d \in Docs /\ Published(u, p) \subseteq DOMAIN d /\ \A pv \in DOMAIN d : pv[1] = p
    BY <1>2, <2>1, DocumentIs
  <2>. HIDE DEF on
  <2>3. /\ m \in SyncRecs /\ m.up = u /\ m.listed = s.listed /\ m.single = s.single
        /\ m.pkg = p /\ m.todo = s.todo \ {p} /\ m.at = "stored" /\ m.doc = d
    BY <1>4, <2>2 DEF SyncRecs, Places, OnTheList, InPackage
  <2>. HIDE DEF m
  <2>4. /\ refused'[w] = r /\ Histories' /\ refused[w] \subseteq r
        /\ \A x \in Worker \ {w} : refused'[x] = refused[x]
    BY <1>1, <2>1 DEF IInv, Histories
  <2>5. \A pv \in DOMAIN d : Gone(remote, u, pv) => pv[1] \in r
    BY <1>2, <2>2, PublishedDoc DEF Lists404
  <2>. HIDE DEF r
  <2>6. DocOK(m) /\ StoredOK(m, row)
    BY <1>2, <2>2, <2>3 DEF DocOK, StoredOK, InPackage, Storing
  <2>7. FlagOK(m, r, remote)
    BY <1>2, <2>3, <2>4, <2>5 DEF FlagOK, InPackage, Storing
  <2>8. FreezeOK(m, late[w], row)
    BY <1>1, <1>2, <2>3 DEF FreezeOK, Early, OnTheList
  <2>9. WorkerOK(m, refused'[w], late'[w], row', remote) /\ Tables' /\ Grows(row, row')
    BY <1>1, <2>3, <2>4, <2>6, <2>7, <2>8, Same DEF WorkerOK, IInv, Tables
  <2>. QED
    BY <1>1, <2>1, <2>4, <2>9, Conclude DEF m
<1>. QED
  BY <1>5, <1>6

LEMMA MarkBrokenKeeps ==
  ASSUME IInv, NEW w \in Worker, MarkBroken(w)
  PROVE  IInv'
<1>1. sync[w].at = "flag" /\ UNCHANGED <<remote, upstream>> /\ Abandon(w)
  BY DEF MarkBroken, Outside
<1>2. sync[w].pkg \in Pkg
  BY <1>1, WorkerFacts DEF FlagOK
<1>3. RowsOK(row', upstream) /\ Grows(row, row')
  BY <1>2, FlaggedRows, Same DEF MarkBroken, IInv, Tables
<1>. QED
  BY <1>1, <1>3, GiveUp DEF OnTheList

LEMMA ReadStoredKeeps ==
  ASSUME IInv, NEW w \in Worker, ReadStored(w)
  PROVE  IInv'
<1>. DEFINE s == sync[w]
            S == {x \in DOMAIN s.doc : row[x[1]].ver[x[2]] # NoVer}
            f == [pv \in S |-> row[pv[1]].ver[pv[2]]]
            m == [s EXCEPT !.at = "versions", !.stored = f, !.left = Wanted(s.requires, DOMAIN s.doc)]
<1>1. s.at = "stored" /\ UNCHANGED <<remote, upstream, row, refused, late>> /\ RowsOK(row, upstream)
  BY DEF ReadStored, Catalog, Outside, History, IInv, Tables
<1>2. s \in SyncRecs /\ DocOK(s) /\ FlagOK(s, refused[w], remote) /\ FreezeOK(s, late[w], row)
  BY <1>1, WorkerFacts
<1>3. s.doc \in Docs /\ DOMAIN s.doc \subseteq PV
  BY <1>1, <1>2, DocFacts DEF DocOK, InPackage
<1>4. f \in Stores /\ DOMAIN f = S
  <2>1. f \in [S -> VerRecs]
    BY <1>3, VerKept DEF PV
  <2>. QED
    BY <1>3, <2>1, StoreIntro
<1>. HIDE DEF f
<1>5. Wanted(s.requires, DOMAIN s.doc) \in SUBSET PV
  BY <1>3, WantedSubset
<1>6. m \in SyncRecs /\ m.at = "versions" /\ m.up = s.up /\ m.listed = s.listed /\ m.pkg = s.pkg
        /\ m.todo = s.todo /\ m.single = s.single /\ m.doc = s.doc /\ m.requires = s.requires
        /\ m.stored = f /\ m.left = Wanted(s.requires, DOMAIN s.doc)
  BY <1>2, <1>4, <1>5 DEF SyncRecs, Places, OnTheList, InPackage
<1>7. sync' = [sync EXCEPT ![w] = m]
  BY DEF ReadStored, Goes, f
<1>. HIDE DEF m
<1>8. StoredOK(m, row)
  BY <1>4, <1>6, WantedSubset DEF StoredOK, Storing, Has
<1>9. DocOK(m) /\ FlagOK(m, refused[w], remote) /\ FreezeOK(m, late[w], row)
  BY <1>1, <1>2, <1>6 DEF DocOK, FlagOK, FreezeOK, InPackage, Early, OnTheList
<1>. QED
  BY <1>1, <1>6, <1>7, <1>8, <1>9, Same, Move DEF WorkerOK

LEMMA FactsAfter ==
  ASSUME IInv, NEW w \in Worker, sync[w].at # "idle", Grows(row, row')
  PROVE  /\ sync[w] \in SyncRecs /\ DocOK(sync[w]) /\ StoredOK(sync[w], row')
         /\ FlagOK(sync[w], refused[w], remote) /\ FreezeOK(sync[w], late[w], row')
<1>1. WorkerOK(sync[w], refused[w], late[w], row', remote)
  BY OthersKeep DEF IInv, Workers
<1>. QED
  BY <1>1, FreeFacts DEF WorkerOK

LEMMA PathRows ==
  ASSUME IInv, NEW p \in Pkg, NEW v \in Version, row[p].ver[v] # NoVer,
         row' = [row EXCEPT ![p].ver[v].path = TRUE]
  PROVE  /\ RowsOK(row', upstream) /\ Grows(row, row') /\ row'[p].ver[v] # NoVer
         /\ \A q \in Pkg : /\ row'[q].broken = row[q].broken
                           /\ \A y \in Version : row'[q].ver[y].bytes = row[q].ver[y].bytes
                           /\ q # p => row'[q] = row[q]
<1>. DEFINE x == [row[p].ver[v] EXCEPT !.path = TRUE]
<1>1. /\ row[p].there /\ row[p].ver[v].bytes \in Bytes
      /\ row \in [Pkg -> RowRecs] /\ row[p].ver[v] \in VerRecs
  BY VerKept DEF IInv, Tables, RowsOK
<1>2. x \in VerRecs /\ x.bytes = row[p].ver[v].bytes
  BY <1>1 DEF VerRecs
<1>3. row' = [row EXCEPT ![p].ver[v] = x]
  BY <1>1 DEF RowRecs
<1>. HIDE DEF x
<1>4. /\ RowsOK(row', upstream) /\ Grows(row, row') /\ row'[p].ver[v] = x /\ x # NoVer
      /\ \A q \in Pkg : /\ row'[q].broken = row[q].broken
                        /\ \A y \in Version : q # p \/ y # v => row'[q].ver[y] = row[q].ver[y]
                        /\ q # p => row'[q] = row[q]
  BY <1>1, <1>2, <1>3, InsertedRows
<1>5. ASSUME NEW q \in Pkg, NEW y \in Version
      PROVE  row'[q].ver[y].bytes = row[q].ver[y].bytes
  <2>1. CASE q = p /\ y = v
    BY <2>1, <1>2, <1>4
  <2>2. CASE q # p \/ y # v
    BY <2>2, <1>4
  <2>. QED
    BY <2>1, <2>2
<1>. QED
  BY <1>4, <1>5

(* A version that was stored when the sync looked is stored.                  *)
LEMMA StoredStays ==
  ASSUME IInv, NEW w \in Worker, NEW p \in Pkg, NEW v \in Version, KeepStored(w, <<p, v>>)
  PROVE  row[p].ver[v] # NoVer
<1>1. sync[w].at = "versions" /\ Kind[sync[w].up] = "composer" /\ <<p, v>> \in DOMAIN sync[w].stored
  BY DEF KeepStored
<1>2. StoredOK(sync[w], row)
  BY <1>1, WorkerFacts
<1>. QED
  BY <1>1, <1>2 DEF StoredOK, Has

LEMMA KeepStoredRows ==
  ASSUME IInv, NEW w \in Worker, NEW p \in Pkg, NEW v \in Version, KeepStored(w, <<p, v>>)
  PROVE  \/ row' = row
         \/ row' = [row EXCEPT ![p].ver[v].path = TRUE]
BY DEF KeepStored

LEMMA KeepStoredKeeps ==
  ASSUME IInv, NEW w \in Worker, NEW p \in Pkg, NEW v \in Version, KeepStored(w, <<p, v>>)
  PROVE  IInv'
<1>. DEFINE s == sync[w]
            m == [s EXCEPT !.left = @ \ {<<p, v>>}]
<1>1. s.at = "versions" /\ UNCHANGED <<remote, upstream, refused, late>>
  BY DEF KeepStored, Outside, History
<1>2. RowsOK(row', upstream) /\ Grows(row, row') /\ Has(row', <<p, v>>)
  <2>1. CASE row' = row
    BY <2>1, StoredStays, Same DEF IInv, Tables, Has
  <2>2. CASE row' = [row EXCEPT ![p].ver[v].path = TRUE]
    <3>1. row[p].ver[v] # NoVer
      BY StoredStays
    <3>2. RowsOK(row', upstream) /\ Grows(row, row') /\ row'[p].ver[v] # NoVer
      BY <2>2, <3>1, PathRows
    <3>. QED
      BY <3>2 DEF Has
  <2>. QED
    BY <2>1, <2>2, KeepStoredRows
<1>3. /\ s \in SyncRecs /\ DocOK(s) /\ StoredOK(s, row')
      /\ FlagOK(s, refused[w], remote) /\ FreezeOK(s, late[w], row')
  BY <1>1, <1>2, FactsAfter
<1>4. m \in SyncRecs /\ m.at = "versions" /\ m.up = s.up /\ m.listed = s.listed /\ m.pkg = s.pkg
        /\ m.todo = s.todo /\ m.single = s.single /\ m.doc = s.doc /\ m.requires = s.requires
        /\ m.stored = s.stored /\ m.left = s.left \ {<<p, v>>}
  BY <1>1, <1>3 DEF SyncRecs
<1>5. sync' = [sync EXCEPT ![w] = m]
  BY DEF KeepStored, Goes
<1>. HIDE DEF m
<1>6. StoredOK(m, row')
  BY <1>1, <1>2, <1>3, <1>4 DEF StoredOK, Storing
<1>7. DocOK(m) /\ FlagOK(m, refused[w], remote) /\ FreezeOK(m, late[w], row')
  BY <1>1, <1>3, <1>4 DEF DocOK, FlagOK, FreezeOK, Early
<1>. QED
  BY <1>1, <1>2, <1>4, <1>5, <1>6, <1>7, Move DEF WorkerOK

(* From the versions to one that is on its way: fetched or archived.          *)
LEMMA OnItsWay ==
  ASSUME IInv, NEW w \in Worker, NEW pv \in PV, NEW b \in Bytes,
         sync[w].at = "versions", pv \in sync[w].left,
         sync' = [sync EXCEPT ![w] =
                    [sync[w] EXCEPT !.at = "upsert", !.left = @ \ {pv}, !.dist = <<pv, b>>]],
         UNCHANGED <<remote, upstream, row, refused, late>>
  PROVE  IInv'
<1>. DEFINE s == sync[w]
            m == [s EXCEPT !.at = "upsert", !.left = @ \ {pv}, !.dist = <<pv, b>>]
<1>1. RowsOK(row, upstream)
  BY DEF IInv, Tables
<1>2. /\ s \in SyncRecs /\ DocOK(s) /\ StoredOK(s, row)
      /\ FlagOK(s, refused[w], remote) /\ FreezeOK(s, late[w], row)
  BY WorkerFacts
<1>3. m \in SyncRecs /\ m.at = "upsert" /\ m.up = s.up /\ m.listed = s.listed /\ m.pkg = s.pkg
        /\ m.todo = s.todo /\ m.single = s.single /\ m.doc = s.doc /\ m.requires = s.requires
        /\ m.stored = s.stored /\ m.left = s.left \ {pv} /\ m.dist = <<pv, b>>
  BY <1>2 DEF SyncRecs, Places, OnTheList, InPackage, Storing
<1>7. sync' = [sync EXCEPT ![w] = m]
  OBVIOUS
<1>. HIDE DEF m
<1>4. s.left \subseteq DOMAIN s.doc
  BY <1>2 DEF StoredOK
<1>5. StoredOK(m, row)
  BY <1>2, <1>3, <1>4 DEF StoredOK, Storing
<1>6. DocOK(m) /\ FlagOK(m, refused[w], remote) /\ FreezeOK(m, late[w], row)
  BY <1>2, <1>3 DEF DocOK, FlagOK, FreezeOK, InPackage, Storing, OnTheList, Early
<1>. QED
  BY <1>1, <1>3, <1>5, <1>6, <1>7, Same, Move DEF WorkerOK

LEMMA DownloadKeeps ==
  ASSUME IInv, NEW w \in Worker, NEW p \in Pkg, NEW v \in Version, Download(w, <<p, v>>)
  PROVE  IInv'
<1>. DEFINE s == sync[w]
            b == remote[s.up].bytes[p][v]
<1>1. /\ s.at = "versions" /\ Kind[s.up] = "composer" /\ <<p, v>> \in s.left
      /\ UNCHANGED <<remote, upstream, row>> /\ RowsOK(row', upstream)
  BY DEF Download, Outside, Catalog, IInv, Tables
<1>2. /\ s \in SyncRecs /\ DocOK(s) /\ StoredOK(s, row)
      /\ FlagOK(s, refused[w], remote) /\ FreezeOK(s, late[w], row)
  BY <1>1, WorkerFacts
<1>3. b \in Bytes \cup {Nothing}
  BY <1>2 DEF IInv, Tables, RemoteRecs, SyncRecs
<1>4. <<p, v>> \in DOMAIN s.doc
  BY <1>1, <1>2 DEF StoredOK
<1>5. CASE b = Nothing
  <2>. DEFINE m == [s EXCEPT !.at = "flag"]
  <2>1. p = s.pkg /\ p \in refused[w]
    BY <1>1, <1>2, <1>4, <1>5 DEF DocOK, FlagOK, InPackage, Gone
  <2>2. m \in SyncRecs /\ m.at = "flag" /\ m.up = s.up /\ m.listed = s.listed /\ m.pkg = s.pkg
          /\ m.todo = s.todo /\ m.single = s.single
    BY <1>2 DEF SyncRecs, Places, OnTheList
  <2>3. sync' = [sync EXCEPT ![w] = m] /\ UNCHANGED <<refused, late>>
    BY <1>5 DEF Download, To, Goes, History
  <2>. HIDE DEF m
  <2>4. DocOK(m) /\ StoredOK(m, row) /\ FlagOK(m, refused[w], remote) /\ FreezeOK(m, late[w], row)
    BY <1>1, <1>2, <2>1, <2>2 DEF DocOK, StoredOK, FlagOK, FreezeOK, InPackage, Storing, Early, OnTheList
  <2>. QED
    BY <1>1, <2>2, <2>3, <2>4, Same, Move DEF WorkerOK
<1>6. CASE b # Nothing /\ Claim[s.up] = "shasum" /\ b # s.doc[<<p, v>>]
  <2>1. Abandon(w)
    BY <1>6 DEF Download
  <2>. QED
    BY <1>1, <2>1, Same, GiveUp DEF OnTheList, InPackage
<1>7. CASE b # Nothing /\ ~(Claim[s.up] = "shasum" /\ b # s.doc[<<p, v>>])
  <2>1. /\ sync' = [sync EXCEPT ![w] =
                      [s EXCEPT !.at = "upsert", !.left = @ \ {<<p, v>>}, !.dist = <<<<p, v>>, b>>]]
        /\ UNCHANGED <<refused, late>>
    BY <1>7 DEF Download, Goes, History
  <2>2. <<p, v>> \in PV /\ b \in Bytes
    BY <1>3, <1>7 DEF PV
  <2>. HIDE DEF b
  <2>. QED
    BY <1>1, <2>1, <2>2, OnItsWay
<1>. QED
  BY <1>5, <1>6, <1>7

LEMMA ArchiveTagKeeps ==
  ASSUME IInv, NEW w \in Worker, NEW p \in Pkg, NEW v \in Version, ArchiveTag(w, <<p, v>>)
  PROVE  IInv'
<1>. DEFINE s == sync[w]
            b == s.doc[<<p, v>>]
<1>1. /\ s.at = "versions" /\ <<p, v>> \in s.left
      /\ UNCHANGED <<remote, upstream, row, refused, late>>
      /\ sync' = [sync EXCEPT ![w] =
                    [s EXCEPT !.at = "upsert", !.left = @ \ {<<p, v>>}, !.dist = <<<<p, v>>, b>>]]
  BY DEF ArchiveTag, Outside, Catalog, History, Goes
<1>2. DocOK(s) /\ StoredOK(s, row)
  BY <1>1, WorkerFacts
<1>3. <<p, v>> \in PV /\ b \in Bytes
  BY <1>1, <1>2, DocFacts DEF PV, DocOK, StoredOK, InPackage
<1>. HIDE DEF b
<1>. QED
  BY <1>1, <1>3, OnItsWay

LEMMA CloneKeeps ==
  ASSUME IInv, NEW w \in Worker, Clone(w)
  PROVE  IInv'
<1>. DEFINE s == sync[w]
            u == s.up
            tags == UNION {Published(u, p) : p \in Pkg}
            d == [pv \in tags |-> remote[u].bytes[pv[1]][pv[2]]]
            m == [s EXCEPT !.at = "versions", !.doc = d, !.left = Wanted(s.requires, tags)]
<1>1. s.at = "clone" /\ UNCHANGED <<remote, upstream, row>> /\ RowsOK(row', upstream)
  BY DEF Clone, Catalog, Outside, IInv, Tables
<1>2. /\ s \in SyncRecs /\ FlagOK(s, refused[w], remote) /\ FreezeOK(s, late[w], row)
      /\ Kind[u] = "git" /\ u \in Upstream
  <2>1. s \in SyncRecs /\ FlagOK(s, refused[w], remote) /\ FreezeOK(s, late[w], row) /\ DocOK(s)
    BY <1>1, WorkerFacts
  <2>. QED
    BY <1>1, <2>1 DEF SyncRecs, DocOK
<1>3. CASE remote[u].root # "ok"
  BY <1>1, <1>3, Stop, Same DEF Clone
<1>4. CASE remote[u].root = "ok"
  <2>1. /\ tags \in SUBSET PV
        /\ \A pv \in tags : ~Gone(remote, u, pv) /\ remote[u].bytes[pv[1]][pv[2]] \in Bytes
    BY <1>2, PublishedDoc
  <2>. HIDE DEF tags
  <2>2. d \in Docs /\ DOMAIN d = tags
    BY <2>1, DocIntro
  <2>3. sync' = [sync EXCEPT ![w] = m] /\ UNCHANGED <<refused, late>>
    BY <1>4 DEF Clone, Goes, History, tags
  <2>. HIDE DEF d
  <2>4. Wanted(s.requires, tags) \subseteq tags
    BY WantedSubset
  <2>5. m \in SyncRecs /\ m.at = "versions" /\ m.up = u /\ m.listed = s.listed /\ m.doc = d
          /\ m.requires = s.requires /\ m.left = Wanted(s.requires, tags)
    BY <1>2, <2>1, <2>2, <2>4 DEF SyncRecs, Places, OnTheList, InPackage
  <2>. HIDE DEF m
  <2>6. DocOK(m) /\ StoredOK(m, row) /\ FreezeOK(m, late[w], row)
    BY <1>2, <2>2, <2>4, <2>5 DEF DocOK, StoredOK, FreezeOK, Storing, Early
  <2>7. FlagOK(m, refused[w], remote)
    BY <1>2, <2>1, <2>2, <2>5 DEF FlagOK
  <2>. QED
    BY <1>1, <2>3, <2>5, <2>6, <2>7, Same, Move DEF WorkerOK
<1>. QED
  BY <1>3, <1>4

LEMMA OnTheWayFacts ==
  ASSUME IInv, NEW w \in Worker, sync[w].at \in Storing
  PROVE  /\ sync[w].up \in Upstream /\ sync[w].dist \in PV \X Bytes
         /\ sync[w].dist[1] \in PV /\ sync[w].dist[1][1] \in Pkg /\ sync[w].dist[1][2] \in Version
         /\ sync[w].dist[2] \in Bytes
         /\ sync[w].dist[1] \in DOMAIN sync[w].doc /\ sync[w].doc[sync[w].dist[1]] \in Bytes
         /\ Kind[sync[w].up] = "composer" => sync[w].dist[1][1] = sync[w].pkg
<1>. DEFINE s == sync[w]
<1>1. s \in SyncRecs /\ DocOK(s) /\ StoredOK(s, row)
  BY WorkerFacts DEF Storing
<1>2. /\ s.up \in Upstream /\ s.dist \in PV \X Bytes /\ s.dist[1] \in DOMAIN s.doc
      /\ s.doc \in Docs
      /\ Kind[s.up] = "composer" => s.dist[1][1] = s.pkg
  BY <1>1 DEF SyncRecs, DocOK, StoredOK, InPackage
<1>3. s.dist[1] \in PV /\ s.dist[2] \in Bytes
  BY <1>2
<1>4. s.dist[1][1] \in Pkg /\ s.dist[1][2] \in Version
  BY <1>3 DEF PV
<1>5. s.doc[s.dist[1]] \in Bytes
  BY <1>2, DocFacts
<1>. QED
  BY <1>2, <1>3, <1>4, <1>5

LEMMA UpsertPackageKeeps ==
  ASSUME IInv, NEW w \in Worker, UpsertPackage(w)
  PROVE  IInv'
<1>. DEFINE s == sync[w]
            m == [s EXCEPT !.at = "bind"]
            p == s.dist[1][1]
<1>1. s.at = "upsert" /\ UNCHANGED <<remote, upstream, refused, late>>
  BY DEF UpsertPackage, Outside, History
<1>2. RowsOK(row', upstream) /\ Grows(row, row') /\ row'[p].there
  BY <1>1, OnTheWayFacts, UpsertedRows DEF UpsertPackage, Storing
<1>3. /\ s \in SyncRecs /\ DocOK(s) /\ StoredOK(s, row')
      /\ FlagOK(s, refused[w], remote) /\ FreezeOK(s, late[w], row')
  BY <1>1, <1>2, FactsAfter
<1>4. m \in SyncRecs /\ m.at = "bind" /\ m.up = s.up /\ m.listed = s.listed /\ m.pkg = s.pkg
        /\ m.todo = s.todo /\ m.single = s.single /\ m.doc = s.doc /\ m.requires = s.requires
        /\ m.stored = s.stored /\ m.left = s.left /\ m.dist = s.dist
  BY <1>3 DEF SyncRecs, Places, OnTheList, InPackage, Storing
<1>5. sync' = [sync EXCEPT ![w] = m]
  BY DEF UpsertPackage, To, Goes
<1>. HIDE DEF m
<1>6. DocOK(m) /\ StoredOK(m, row') /\ FlagOK(m, refused[w], remote) /\ FreezeOK(m, late[w], row')
  BY <1>1, <1>2, <1>3, <1>4
    DEF DocOK, StoredOK, FlagOK, FreezeOK, InPackage, Storing, OnTheList, Early
<1>. QED
  BY <1>1, <1>2, <1>4, <1>5, <1>6, Move DEF WorkerOK

LEMMA BindUpstreamKeeps ==
  ASSUME IInv, NEW w \in Worker, BindUpstream(w)
  PROVE  IInv'
<1>. DEFINE s == sync[w]
            m == [s EXCEPT !.at = "insert"]
<1>1. s.at = "bind" /\ UNCHANGED <<remote, upstream>> /\ RowsOK(row, upstream)
  BY DEF BindUpstream, Outside, IInv, Tables
<1>2. CASE ~Live(s.up)
  <2>1. Abandon(w) /\ row' = row
    BY <1>2 DEF BindUpstream
  <2>. QED
    BY <1>1, <2>1, Same, GiveUp DEF OnTheList, InPackage, Storing
<1>3. CASE Live(s.up)
  <2>1. RowsOK(row', upstream) /\ Grows(row, row')
    BY <1>1, <1>3, OnTheWayFacts, BoundRows DEF BindUpstream, Storing
  <2>2. /\ s \in SyncRecs /\ DocOK(s) /\ StoredOK(s, row')
        /\ FlagOK(s, refused[w], remote) /\ FreezeOK(s, late[w], row')
    BY <1>1, <2>1, FactsAfter
  <2>3. m \in SyncRecs /\ m.at = "insert" /\ m.up = s.up /\ m.listed = s.listed /\ m.pkg = s.pkg
          /\ m.todo = s.todo /\ m.single = s.single /\ m.doc = s.doc /\ m.requires = s.requires
          /\ m.stored = s.stored /\ m.left = s.left /\ m.dist = s.dist
    BY <2>2 DEF SyncRecs, Places, OnTheList, InPackage, Storing
  <2>4. sync' = [sync EXCEPT ![w] = m] /\ UNCHANGED <<refused, late>>
    BY <1>3 DEF BindUpstream, To, Goes, History
  <2>. HIDE DEF m
  <2>5. DocOK(m) /\ StoredOK(m, row') /\ FlagOK(m, refused[w], remote) /\ FreezeOK(m, late[w], row')
    BY <1>1, <2>2, <2>3 DEF DocOK, StoredOK, FlagOK, FreezeOK, InPackage, Storing, OnTheList, Early
  <2>. QED
    BY <1>1, <2>1, <2>3, <2>4, <2>5, Move DEF WorkerOK
<1>. QED
  BY <1>2, <1>3

(* Only a git upstream's insert changes bytes that are there.                 *)
LEMMA InsertRows ==
  ASSUME IInv, NEW w \in Worker, InsertVersion(w)
  PROVE  LET pv == sync[w].dist[1] IN
         /\ RowsOK(row', upstream) /\ Grows(row, row') /\ Has(row', pv)
         /\ \A q \in Pkg : row'[q].broken = row[q].broken /\ (q # pv[1] => row'[q] = row[q])
         /\ Kind[sync[w].up] = "composer" =>
              \A q \in Pkg, y \in Version :
                row[q].ver[y] # NoVer => row'[q].ver[y].bytes = row[q].ver[y].bytes
<1>. DEFINE s == sync[w]
            pv == s.dist[1]
            p == pv[1]
            v == pv[2]
            b == s.dist[2]
            ref == IF Claim[s.up] = "reference" THEN s.doc[pv] ELSE Nothing
            own == s.up \in OwnDists
            new == [bytes |-> b, ref |-> ref, path |-> own]
            over == [bytes |-> b, ref |-> Nothing, path |-> row[p].ver[v].path]
<1>1. /\ s.at = "insert" /\ s.up \in Upstream /\ p \in Pkg /\ v \in Version /\ b \in Bytes
      /\ s.doc[pv] \in Bytes
  BY OnTheWayFacts DEF InsertVersion, Storing
<1>2. row[p].there /\ RowsOK(row, upstream) /\ row \in [Pkg -> RowRecs] /\ row[p].ver[v] \in VerRecs
  <2>1. StoredOK(s, row)
    BY <1>1, WorkerFacts
  <2>. QED
    BY <1>1, <2>1, VerKept DEF StoredOK, IInv, Tables, RowsOK
<1>3. new \in VerRecs /\ new.bytes \in Bytes /\ over \in VerRecs /\ over.bytes \in Bytes
  <2>1. ref \in Bytes \cup {Nothing} /\ own \in BOOLEAN
    BY <1>1
  <2>. HIDE DEF ref, own
  <2>. QED
    BY <1>1, <1>2, <2>1 DEF VerRecs
<1>4. CASE Kind[s.up] = "git"
  <2>1. row' = [row EXCEPT ![p].ver[v] = over]
    BY <1>2, <1>4 DEF InsertVersion, Overwrite, RowRecs
  <2>. HIDE DEF over, p, v
  <2>2. /\ RowsOK(row', upstream) /\ Grows(row, row') /\ row'[p].ver[v] # NoVer
        /\ \A q \in Pkg : row'[q].broken = row[q].broken /\ (q # p => row'[q] = row[q])
    <3>1. over \in VerRecs /\ over.bytes \in Bytes /\ p \in Pkg /\ v \in Version /\ row[p].there
      BY <1>1, <1>2, <1>3
    <3>2. /\ RowsOK(row', upstream) /\ Grows(row, row') /\ row'[p].ver[v] = over /\ over # NoVer
          /\ \A q \in Pkg : /\ row'[q].broken = row[q].broken
                            /\ \A y \in Version : q # p \/ y # v => row'[q].ver[y] = row[q].ver[y]
                            /\ q # p => row'[q] = row[q]
      BY <2>1, <3>1, InsertedRows
    <3>. QED
      BY <3>2
  <2>3. Kind[s.up] # "composer"
    BY <1>4
  <2>. QED
    BY <2>2, <2>3 DEF Has, p, v
<1>5. CASE Kind[s.up] # "git" /\ row[p].ver[v] # NoVer
  <2>1. row' = row
    BY <1>5 DEF InsertVersion, InsertMirrored, InsertOnce
  <2>. QED
    BY <1>2, <1>5, <2>1, Same DEF Has
<1>6. CASE Kind[s.up] # "git" /\ row[p].ver[v] = NoVer
  <2>1. row' = [row EXCEPT ![p].ver[v] = new]
    BY <1>6 DEF InsertVersion, InsertMirrored, InsertOnce
  <2>. HIDE DEF new, p, v
  <2>2. /\ RowsOK(row', upstream) /\ Grows(row, row') /\ row'[p].ver[v] # NoVer
        /\ \A q \in Pkg : row'[q].broken = row[q].broken /\ (q # p => row'[q] = row[q])
    <3>1. new \in VerRecs /\ new.bytes \in Bytes /\ p \in Pkg /\ v \in Version /\ row[p].there
      BY <1>1, <1>2, <1>3
    <3>2. /\ RowsOK(row', upstream) /\ Grows(row, row') /\ row'[p].ver[v] = new /\ new # NoVer
          /\ \A q \in Pkg : /\ row'[q].broken = row[q].broken
                            /\ \A y \in Version : q # p \/ y # v => row'[q].ver[y] = row[q].ver[y]
                            /\ q # p => row'[q] = row[q]
      BY <2>1, <3>1, InsertedRows
    <3>. QED
      BY <3>2
  <2>3. \A y \in Version : y # v => row'[p].ver[y] = row[p].ver[y]
    BY <1>1, <1>2, <2>1 DEF RowRecs
  <2>. QED
    BY <1>6, <2>2, <2>3 DEF Has, p, v
<1>. QED
  BY <1>4, <1>5, <1>6

LEMMA InsertVersionKeeps ==
  ASSUME IInv, NEW w \in Worker, InsertVersion(w)
  PROVE  IInv'
<1>. DEFINE s == sync[w]
            m == [s EXCEPT !.at = "versions", !.dist = <<>>]
<1>1. s.at = "insert" /\ UNCHANGED <<remote, upstream, refused, late>>
  BY DEF InsertVersion, Outside, History
<1>2. RowsOK(row', upstream) /\ Grows(row, row') /\ Has(row', s.dist[1])
  BY InsertRows
<1>3. /\ s \in SyncRecs /\ DocOK(s) /\ StoredOK(s, row')
      /\ FlagOK(s, refused[w], remote) /\ FreezeOK(s, late[w], row')
  BY <1>1, <1>2, FactsAfter
<1>4. m \in SyncRecs /\ m.at = "versions" /\ m.up = s.up /\ m.listed = s.listed /\ m.pkg = s.pkg
        /\ m.todo = s.todo /\ m.single = s.single /\ m.doc = s.doc /\ m.requires = s.requires
        /\ m.stored = s.stored /\ m.left = s.left
  BY <1>3 DEF SyncRecs, Places, OnTheList, InPackage
<1>5. sync' = [sync EXCEPT ![w] = m]
  BY DEF InsertVersion, Goes
<1>. HIDE DEF m
<1>6. StoredOK(m, row')
  BY <1>1, <1>2, <1>3, <1>4 DEF StoredOK, Storing
<1>7. DocOK(m) /\ FlagOK(m, refused[w], remote) /\ FreezeOK(m, late[w], row')
  BY <1>1, <1>3, <1>4 DEF DocOK, FlagOK, FreezeOK, InPackage, Storing, OnTheList, Early
<1>. QED
  BY <1>1, <1>2, <1>4, <1>5, <1>6, <1>7, Move DEF WorkerOK

LEMMA MarkSyncedKeeps ==
  ASSUME IInv, NEW w \in Worker, MarkSynced(w)
  PROVE  IInv'
<1>1. sync[w].at = "versions" /\ UNCHANGED <<remote, upstream>> /\ Abandon(w)
  BY DEF MarkSynced, Outside
<1>2. PICK marked : row' = Synced(marked)
  BY DEF MarkSynced
<1>3. RowsOK(row', upstream) /\ Grows(row, row')
  BY <1>2, SyncedRows
<1>. QED
  BY <1>1, <1>3, GiveUp DEF OnTheList, InPackage

LEMMA ReconcileKeeps ==
  ASSUME IInv, NEW w \in Worker, Reconcile(w)
  PROVE  IInv'
<1>. DEFINE s == sync[w]
            t == {p \in Pkg : row[p].up = s.up /\ ~row[p].archived /\ p \notin s.listed}
            m == [s EXCEPT !.at = "reconcile", !.todo = t]
<1>1. /\ s.at = "next" /\ s.listed # Patterns /\ UNCHANGED <<remote, upstream, row, refused, late>>
      /\ RowsOK(row, upstream) /\ sync' = [sync EXCEPT ![w] = m]
  BY DEF Reconcile, Catalog, Outside, History, Goes, IInv, Tables
<1>2. s \in SyncRecs /\ FlagOK(s, refused[w], remote)
  BY <1>1, WorkerFacts
<1>3. t \in SUBSET Pkg /\ t \subseteq refused[w]
  BY <1>1, <1>2 DEF FlagOK
<1>. HIDE DEF t
<1>4. m \in SyncRecs /\ m.at = "reconcile" /\ m.up = s.up /\ m.listed = s.listed /\ m.todo = t
  BY <1>2, <1>3 DEF SyncRecs, Places
<1>. HIDE DEF m
<1>5. DocOK(m) /\ StoredOK(m, row) /\ FlagOK(m, refused[w], remote) /\ FreezeOK(m, late[w], row)
  BY <1>2, <1>3, <1>4 DEF DocOK, StoredOK, FlagOK, FreezeOK, InPackage, Storing, Early, OnTheList
<1>. QED
  BY <1>1, <1>4, <1>5, Same, Move DEF WorkerOK

LEMMA FlagVanishedKeeps ==
  ASSUME IInv, NEW w \in Worker, NEW p \in Pkg, FlagVanished(w, p)
  PROVE  IInv'
<1>. DEFINE s == sync[w]
            m == [s EXCEPT !.todo = @ \ {p}]
<1>1. s.at = "reconcile" /\ UNCHANGED <<remote, upstream, refused, late>>
        /\ sync' = [sync EXCEPT ![w] = m]
  BY DEF FlagVanished, Outside, History, Goes
<1>2. RowsOK(row', upstream) /\ Grows(row, row')
  BY FlaggedRows DEF FlagVanished
<1>3. s \in SyncRecs /\ FlagOK(s, refused[w], remote)
  BY <1>1, WorkerFacts
<1>4. m \in SyncRecs /\ m.at = "reconcile" /\ m.up = s.up /\ m.listed = s.listed
        /\ m.todo = s.todo \ {p}
  BY <1>1, <1>3 DEF SyncRecs
<1>. HIDE DEF m
<1>5. DocOK(m) /\ StoredOK(m, row') /\ FlagOK(m, refused[w], remote) /\ FreezeOK(m, late[w], row')
  BY <1>1, <1>3, <1>4 DEF DocOK, StoredOK, FlagOK, FreezeOK, InPackage, Storing, Early, OnTheList
<1>. QED
  BY <1>1, <1>2, <1>4, <1>5, Move DEF WorkerOK

(* A sync that ends, or fails, or dies, has changed no table in that step.    *)
LEMMA EndingKeeps ==
  ASSUME IInv, NEW w \in Worker, Finish(w) \/ Fail(w) \/ Die(w)
  PROVE  IInv' /\ row' = row
<1>1. UNCHANGED <<remote, upstream, row>> /\ RowsOK(row', upstream) /\ Grows(row, row')
  BY Same DEF Finish, Fail, Die, Catalog, Outside, IInv, Tables
<1>2. CASE Ends(w)
  BY <1>1, <1>2, Stop
<1>3. CASE ~Ends(w)
  <2>1. Abandon(w) /\ sync[w].at \in OnTheList
    BY <1>3 DEF Finish, Fail, Die, OnTheList, InPackage, Storing
  <2>. QED
    BY <1>1, <2>1, GiveUp
<1>. QED
  BY <1>1, <1>2, <1>3

-----------------------------------------------------------------------------
(* What happens around the syncs.                                             *)

LEMMA RemoteType ==
  ASSUME IInv, World
  PROVE  remote' \in [Upstream -> RemoteRecs]
<1>1. remote \in [Upstream -> RemoteRecs]
  BY DEF IInv, Tables
<1>2. ASSUME NEW u \in Upstream, NEW a \in {"ok", "down"}, TurnRoot(u, a)
      PROVE  remote' \in [Upstream -> RemoteRecs]
  BY <1>1, <1>2 DEF TurnRoot, RemoteRecs, Answers
<1>3. ASSUME NEW u \in Upstream, NEW l \in (SUBSET Pkg) \cup {Patterns}, TurnListing(u, l)
      PROVE  remote' \in [Upstream -> RemoteRecs]
  BY <1>1, <1>3 DEF TurnListing, RemoteRecs
<1>4. ASSUME NEW u \in Upstream, NEW p \in Pkg, NEW a \in Answers, TurnDocument(u, p, a)
      PROVE  remote' \in [Upstream -> RemoteRecs]
  BY <1>1, <1>4 DEF TurnDocument, RemoteRecs
<1>5. ASSUME NEW u \in Upstream, NEW p \in Pkg, NEW v \in Version, NEW b \in Bytes \cup {Nothing},
             TurnDist(u, p, v, b)
      PROVE  remote' \in [Upstream -> RemoteRecs]
  BY <1>1, <1>5 DEF TurnDist, RemoteRecs
<1>. QED
  BY <1>2, <1>3, <1>4, <1>5 DEF World

(* What an upstream comes to refuse is noted for every sync of it.            *)
LEMMA RefusalNoted ==
  ASSUME NEW s \in SyncRecs, NEW r, NEW rem, NEW new, DocOK(s), FlagOK(s, r, rem)
  PROVE  FlagOK(s, r \cup RefusedBy(s.up, new[s.up], rem[s.up]), new)
<1>. DEFINE k == r \cup RefusedBy(s.up, new[s.up], rem[s.up])
<1>1. \A p \in Pkg : new[s.up].doc[p] = "refused" \/ ~Lists(new[s.up], p) => p \in k
  BY DEF RefusedBy
<1>2. ASSUME s.at \in InPackage, NEW pv \in DOMAIN s.doc, Gone(new, s.up, pv)
      PROVE  pv[1] \in k
  <2>1. pv \in PV
    BY <1>2, DocFacts DEF DocOK
  <2>2. pv[1] \in Pkg /\ pv[2] \in Version
    BY <2>1 DEF PV
  <2>3. CASE Gone(rem, s.up, pv)
    BY <1>2, <2>3 DEF FlagOK
  <2>4. CASE ~Gone(rem, s.up, pv)
    BY <1>2, <2>2, <2>4 DEF RefusedBy, Gone
  <2>. QED
    BY <2>3, <2>4
<1>. QED
  BY <1>1, <1>2 DEF FlagOK

LEMMA WorldKeeps ==
  ASSUME IInv, World
  PROVE  IInv'
<1>1. UNCHANGED <<upstream, row, sync, late>>
  BY DEF World
<1>2. Tables'
  BY <1>1, RemoteType DEF IInv, Tables
<1>3. refused' = [w \in Worker |->
         IF sync[w] = Free THEN {}
         ELSE refused[w] \cup RefusedBy(sync[w].up, remote'[sync[w].up], remote[sync[w].up])]
  BY DEF World
<1>4. Histories'
  BY <1>1, <1>3 DEF IInv, Histories, RefusedBy
<1>5. ASSUME NEW w \in Worker
      PROVE  WorkerOK(sync[w], refused'[w], late[w], row, remote')
  <2>1. CASE sync[w] = Free
    BY <2>1 DEF WorkerOK
  <2>2. CASE sync[w] # Free
    <3>1. /\ sync[w] \in SyncRecs /\ DocOK(sync[w]) /\ StoredOK(sync[w], row)
          /\ FlagOK(sync[w], refused[w], remote) /\ FreezeOK(sync[w], late[w], row)
      BY <2>2 DEF IInv, Workers, WorkerOK
    <3>2. FlagOK(sync[w], refused'[w], remote')
      BY <1>3, <2>2, <3>1, RefusalNoted
    <3>. QED
      BY <3>1, <3>2 DEF WorkerOK
  <2>. QED
    BY <2>1, <2>2
<1>. QED
  BY <1>1, <1>2, <1>4, <1>5 DEF IInv, Workers

LEMMA Beside ==
  ASSUME IInv, UNCHANGED <<remote, sync, refused>>, Tables', late' \in [Worker -> SUBSET Pkg],
         \A p \in Pkg : /\ row[p].there => row'[p].there
                        /\ \A v \in Version : row[p].ver[v] # NoVer => row'[p].ver[v] # NoVer,
         \A w \in Worker : /\ late[w] \subseteq late'[w]
                           /\ sync[w].at \in OnTheList =>
                                \A p \in Pkg : row'[p].archived => row[p].archived \/ p \in late'[w]
  PROVE  IInv'
<1>1. Histories'
  BY DEF IInv, Histories
<1>2. ASSUME NEW w \in Worker
      PROVE  WorkerOK(sync[w], refused[w], late'[w], row', remote)
  <2>1. WorkerOK(sync[w], refused[w], late[w], row, remote)
    BY DEF IInv, Workers
  <2>. QED
    BY <2>1, LateNoted
<1>. QED
  BY <1>1, <1>2 DEF IInv, Workers

LEMMA DeletedRows ==
  ASSUME IInv, NEW u \in Upstream, DeleteUpstream(u)
  PROVE  /\ RowsOK(row', upstream') /\ upstream' \in [Upstream -> UpstreamRecs] /\ Grows(row, row')
         /\ \A q \in Pkg : row'[q].ver = row[q].ver /\ row'[q].broken = row[q].broken
<1>1. /\ row \in [Pkg -> RowRecs] /\ upstream \in [Upstream -> UpstreamRecs]
      /\ upstream' = [upstream EXCEPT ![u] = [made |-> "gone", requires |-> {}]]
      /\ row' = [p \in Pkg |-> IF row[p].up = u THEN [row[p] EXCEPT !.up = Nothing] ELSE row[p]]
  BY DEF DeleteUpstream, IInv, Tables, RowsOK
<1>2. upstream' \in [Upstream -> UpstreamRecs]
  BY <1>1 DEF UpstreamRecs, RequireLists
<1>3. ASSUME NEW q \in Pkg
      PROVE  /\ row'[q] \in RowRecs /\ row'[q].ver = row[q].ver /\ row'[q].there = row[q].there
             /\ row'[q].archived = row[q].archived /\ row'[q].broken = row[q].broken
             /\ row'[q].up # u /\ row'[q].up \in {row[q].up, Nothing}
  <2>1. row[q] \in RowRecs /\ u # Nothing
    BY <1>1, NothingFacts
  <2>2. CASE row[q].up = u
    <3>1. row'[q] = [row[q] EXCEPT !.up = Nothing]
      BY <1>1, <2>2
    <3>. QED
      BY <2>1, <3>1 DEF RowRecs
  <2>3. CASE row[q].up # u
    BY <1>1, <2>1, <2>3
  <2>. QED
    BY <2>2, <2>3
<1>4. \A q \in Pkg : row'[q].up # Nothing => upstream'[row'[q].up].made \in {"bare", "ready"}
  <2>1. \A q \in Pkg : row[q].up # Nothing => upstream[row[q].up].made \in {"bare", "ready"}
    BY DEF IInv, Tables, RowsOK
  <2>2. \A q \in Pkg : row[q].up \in Upstream \cup {Nothing}
    BY <1>1 DEF RowRecs
  <2>. QED
    BY <1>1, <1>3, <2>1, <2>2
<1>5. row' \in [Pkg -> RowRecs]
  BY <1>1, <1>3
<1>. QED
  BY <1>2, <1>3, <1>4, <1>5 DEF RowsOK, IInv, Tables, Grows

LEMMA ArchivedRows ==
  ASSUME IInv, NEW p \in Pkg, NEW a \in BOOLEAN, row[p].there, row' = [row EXCEPT ![p].archived = a]
  PROVE  /\ RowsOK(row', upstream)
         /\ \A q \in Pkg : /\ row'[q].ver = row[q].ver /\ row'[q].broken = row[q].broken
                           /\ row'[q].there = row[q].there
                           /\ row'[q].archived => row[q].archived \/ (q = p /\ a)
<1>1. row \in [Pkg -> RowRecs]
  BY DEF IInv, Tables, RowsOK
<1>2. row' \in [Pkg -> RowRecs]
  BY <1>1 DEF RowRecs
<1>3. \A q \in Pkg : /\ row'[q].ver = row[q].ver /\ row'[q].broken = row[q].broken
                     /\ row'[q].there = row[q].there /\ row'[q].up = row[q].up
                     /\ row'[q].archived = (IF q = p THEN a ELSE row[q].archived)
  BY <1>1 DEF RowRecs
<1>. QED
  BY <1>2, <1>3 DEF IInv, Tables, RowsOK

LEMMA OperatorKeeps ==
  ASSUME IInv, Operator
  PROVE  IInv' /\ \A q \in Pkg : row'[q].ver = row[q].ver /\ row'[q].broken = row[q].broken
<1>1. UNCHANGED <<remote, sync, refused>> /\ late \in [Worker -> SUBSET Pkg]
  BY DEF Operator, IInv, Histories
<1>2. ASSUME NEW u \in Upstream, DeleteUpstream(u)
      PROVE  IInv' /\ \A q \in Pkg : row'[q].ver = row[q].ver /\ row'[q].broken = row[q].broken
  <2>1. late' = late
    BY <1>2 DEF DeleteUpstream
  <2>2. /\ RowsOK(row', upstream') /\ upstream' \in [Upstream -> UpstreamRecs] /\ Grows(row, row')
        /\ \A q \in Pkg : row'[q].ver = row[q].ver /\ row'[q].broken = row[q].broken
    BY <1>2, DeletedRows
  <2>3. Tables'
    BY <1>1, <2>2 DEF IInv, Tables
  <2>. QED
    BY <1>1, <2>1, <2>2, <2>3, Beside DEF Grows
<1>3. ASSUME NEW p \in Pkg, Archive(p)
      PROVE  IInv' /\ \A q \in Pkg : row'[q].ver = row[q].ver /\ row'[q].broken = row[q].broken
  <2>1. /\ row[p].there /\ row' = [row EXCEPT ![p].archived = TRUE] /\ upstream' = upstream
        /\ late' = [w \in Worker |-> IF PastReading(w) THEN late[w] \cup {p} ELSE late[w]]
    BY <1>3 DEF Archive
  <2>2. /\ RowsOK(row', upstream)
        /\ \A q \in Pkg : /\ row'[q].ver = row[q].ver /\ row'[q].broken = row[q].broken
                          /\ row'[q].there = row[q].there
                          /\ row'[q].archived => row[q].archived \/ q = p
    BY <2>1, ArchivedRows
  <2>3. Tables'
    BY <1>1, <2>1, <2>2 DEF IInv, Tables
  <2>4. late' \in [Worker -> SUBSET Pkg]
    BY <1>1, <2>1
  <2>5. \A w \in Worker : sync[w].at \in OnTheList => PastReading(w)
    BY DEF OnTheList, InPackage, Storing, PastReading
  <2>6. \A w \in Worker : late[w] \subseteq late'[w] /\ (sync[w].at \in OnTheList => p \in late'[w])
    BY <2>1, <2>5
  <2>. QED
    BY <1>1, <2>2, <2>3, <2>4, <2>6, Beside
<1>4. ASSUME NEW p \in Pkg, Unarchive(p)
      PROVE  IInv' /\ \A q \in Pkg : row'[q].ver = row[q].ver /\ row'[q].broken = row[q].broken
  <2>1. row[p].there /\ row' = [row EXCEPT ![p].archived = FALSE] /\ UNCHANGED <<upstream, late>>
    BY <1>4 DEF Unarchive
  <2>2. /\ RowsOK(row', upstream)
        /\ \A q \in Pkg : /\ row'[q].ver = row[q].ver /\ row'[q].broken = row[q].broken
                          /\ row'[q].there = row[q].there
                          /\ row'[q].archived => row[q].archived
    BY <2>1, ArchivedRows
  <2>3. Tables'
    BY <1>1, <2>1, <2>2 DEF IInv, Tables
  <2>. QED
    BY <1>1, <2>1, <2>2, <2>3, Beside
<1>. QED
  BY <1>2, <1>3, <1>4 DEF Operator

LEMMA RegisterKeeps ==
  ASSUME IInv,
         \/ \E u \in Upstream : CreateUpstream(u)
         \/ \E u \in Upstream, s \in Subs \cup {Malformed} : StoreRequires(u, s)
  PROVE  IInv' /\ row' = row
<1>1. PICK u \in Upstream, x \in UpstreamRecs :
        /\ x.made \in {"bare", "ready"} /\ upstream' = [upstream EXCEPT ![u] = x]
        /\ UNCHANGED <<remote, row, sync, refused, late>>
  <2>1. ASSUME NEW u \in Upstream, CreateUpstream(u)
        PROVE  \E x \in UpstreamRecs :
                 /\ x.made \in {"bare", "ready"} /\ upstream' = [upstream EXCEPT ![u] = x]
                 /\ UNCHANGED <<remote, row, sync, refused, late>>
    <3>. DEFINE x == [upstream[u] EXCEPT !.made = "bare"]
    <3>1. x \in UpstreamRecs /\ x.made = "bare"
      BY DEF IInv, Tables, UpstreamRecs
    <3>2. upstream' = [upstream EXCEPT ![u] = x] /\ UNCHANGED <<remote, row, sync, refused, late>>
      BY <2>1 DEF CreateUpstream
    <3>. QED
      BY <3>1, <3>2
  <2>2. ASSUME NEW u \in Upstream, NEW s \in Subs \cup {Malformed}, StoreRequires(u, s)
        PROVE  \E x \in UpstreamRecs :
                 /\ x.made \in {"bare", "ready"} /\ upstream' = [upstream EXCEPT ![u] = x]
                 /\ UNCHANGED <<remote, row, sync, refused, late>>
    <3>. DEFINE x == [made |-> "ready", requires |-> s]
    <3>1. x \in UpstreamRecs /\ x.made = "ready"
      BY DEF UpstreamRecs, RequireLists
    <3>2. upstream' = [upstream EXCEPT ![u] = x] /\ UNCHANGED <<remote, row, sync, refused, late>>
      BY <2>2 DEF StoreRequires
    <3>. QED
      BY <3>1, <3>2
  <2>. QED
    BY <2>1, <2>2
<1>2. upstream' \in [Upstream -> UpstreamRecs] /\ upstream'[u] = x
        /\ \A y \in Upstream \ {u} : upstream'[y] = upstream[y]
  BY <1>1 DEF IInv, Tables
<1>3. RowsOK(row', upstream')
  <2>1. \A p \in Pkg : row[p].up \in Upstream \cup {Nothing}
    BY DEF IInv, Tables, RowsOK, RowRecs
  <2>. QED
    BY <1>1, <1>2, <2>1 DEF IInv, Tables, RowsOK
<1>4. Tables' /\ late' \in [Worker -> SUBSET Pkg]
  BY <1>1, <1>2, <1>3 DEF IInv, Tables, Histories
<1>. QED
  BY <1>1, <1>4, Beside

-----------------------------------------------------------------------------
(* What one step of a sync does to the rows, for each of the properties.      *)
StepOK(w) ==
  /\ Acts(w)
  /\ \A p \in Pkg, v \in Version :
       row[p].ver[v] # NoVer => row'[p].ver[v].bytes = row[p].ver[v].bytes \/ FromGit(w)
  /\ \A p \in Pkg : ~row[p].broken /\ row'[p].broken => p \in refused[w]
  /\ \A p \in Pkg : row[p].archived /\ row'[p].ver # row[p].ver
                      => sync[w].single \/ FromGit(w) \/ p \in late[w]

LEMMA ActsAt ==
  ASSUME IInv, NEW w \in Worker, NEW m, sync' = [sync EXCEPT ![w] = m], m # sync[w]
  PROVE  Acts(w)
BY DEF Acts, IInv

LEMMA ActsGivingUp ==
  ASSUME IInv, NEW w \in Worker, Abandon(w), sync[w].at \in OnTheList \ {"next"}
  PROVE  Acts(w)
<1>. DEFINE s == sync[w]
            m == [s EXCEPT !.at = "next", !.doc = <<>>, !.stored = <<>>, !.left = {}, !.dist = <<>>]
<1>1. s.at # "idle" /\ s.at # "next"
  BY DEF OnTheList, InPackage, Storing
<1>2. CASE Kind[s.up] = "git"
  BY <1>1, <1>2, ActsAt, FreeFacts DEF Abandon, Ends, Goes
<1>3. CASE Kind[s.up] # "git"
  <2>1. s \in SyncRecs
    BY <1>1, WorkerFacts
  <2>2. m.at = "next"
    BY <2>1 DEF SyncRecs
  <2>3. sync' = [sync EXCEPT ![w] = m]
    BY <1>3 DEF Abandon, Goes
  <2>. HIDE DEF m
  <2>. QED
    BY <1>1, <2>2, <2>3, ActsAt
<1>. QED
  BY <1>2, <1>3

LEMMA MarkBrokenStep ==
  ASSUME IInv, NEW w \in Worker, MarkBroken(w)
  PROVE  row' = row \/ StepOK(w)
<1>. SUFFICES ASSUME row' # row PROVE StepOK(w)
  OBVIOUS
<1>1. sync[w].at = "flag" /\ Abandon(w) /\ row' = Flagged(sync[w].pkg)
  BY DEF MarkBroken
<1>2. sync[w].pkg \in Pkg /\ sync[w].pkg \in refused[w]
  BY <1>1, WorkerFacts DEF FlagOK
<1>3. \A q \in Pkg : row'[q].ver = row[q].ver /\ (q # sync[w].pkg => row'[q] = row[q])
  BY <1>1, <1>2, FlaggedRows
<1>4. Acts(w)
  BY <1>1, ActsGivingUp DEF OnTheList
<1>. QED
  BY <1>2, <1>3, <1>4 DEF StepOK

LEMMA FlagVanishedStep ==
  ASSUME IInv, NEW w \in Worker, NEW p \in Pkg, FlagVanished(w, p)
  PROVE  StepOK(w)
<1>. DEFINE s == sync[w]
            m == [s EXCEPT !.todo = @ \ {p}]
<1>1. s.at = "reconcile" /\ p \in s.todo /\ row' = Flagged(p) /\ sync' = [sync EXCEPT ![w] = m]
  BY DEF FlagVanished, Goes
<1>2. s \in SyncRecs /\ p \in refused[w]
  BY <1>1, WorkerFacts DEF FlagOK
<1>3. \A q \in Pkg : row'[q].ver = row[q].ver /\ (q # p => row'[q] = row[q])
  BY <1>1, FlaggedRows
<1>4. p \notin m.todo
  BY <1>2 DEF SyncRecs
<1>. HIDE DEF m
<1>5. Acts(w)
  BY <1>1, <1>4, ActsAt
<1>. QED
  BY <1>2, <1>3, <1>5 DEF StepOK

(* A registry sync that stores something was not too late to see the archive. *)
LEMMA NotFrozen ==
  ASSUME IInv, NEW w \in Worker, sync[w].at \in OnTheList, ~FromGit(w), ~sync[w].single,
         sync[w].pkg \in Pkg, row[sync[w].pkg].archived
  PROVE  sync[w].pkg \in late[w]
<1>1. sync[w].at # "idle"
  BY DEF OnTheList, InPackage, Storing
<1>2. sync[w] \in SyncRecs /\ sync[w] # Free /\ FreezeOK(sync[w], late[w], row)
  BY <1>1, WorkerFacts, FreeFacts
<1>3. Kind[sync[w].up] = "composer"
  BY <1>2, KindFacts DEF FromGit, SyncRecs
<1>. QED
  BY <1>2, <1>3 DEF FreezeOK

LEMMA KeepStoredStep ==
  ASSUME IInv, NEW w \in Worker, NEW p \in Pkg, NEW v \in Version, KeepStored(w, <<p, v>>)
  PROVE  row' = row \/ StepOK(w)
<1>. SUFFICES ASSUME row' # row PROVE StepOK(w)
  OBVIOUS
<1>. DEFINE s == sync[w]
            m == [s EXCEPT !.left = @ \ {<<p, v>>}]
<1>1. /\ s.at = "versions" /\ Kind[s.up] = "composer" /\ <<p, v>> \in s.left
      /\ sync' = [sync EXCEPT ![w] = m]
  BY DEF KeepStored, Goes
<1>2. s \in SyncRecs /\ DocOK(s) /\ StoredOK(s, row)
  BY <1>1, WorkerFacts
<1>3. p = s.pkg
  <2>1. <<p, v>> \in DOMAIN s.doc
    BY <1>1, <1>2 DEF StoredOK
  <2>. QED
    BY <1>1, <1>2, <2>1 DEF DocOK, InPackage
<1>4. row[p].ver[v] # NoVer /\ row' = [row EXCEPT ![p].ver[v].path = TRUE]
  BY StoredStays, KeepStoredRows
<1>5. \A q \in Pkg : /\ row'[q].broken = row[q].broken
                     /\ \A y \in Version : row'[q].ver[y].bytes = row[q].ver[y].bytes
                     /\ q # p => row'[q] = row[q]
  BY <1>4, PathRows
<1>6. <<p, v>> \notin m.left
  BY <1>2 DEF SyncRecs
<1>. HIDE DEF m
<1>7. Acts(w)
  BY <1>1, <1>6, ActsAt
<1>8. row[p].archived => s.single \/ FromGit(w) \/ p \in late[w]
  BY <1>1, <1>3, NotFrozen DEF OnTheList, InPackage
<1>. QED
  BY <1>5, <1>7, <1>8 DEF StepOK

LEMMA InsertVersionStep ==
  ASSUME IInv, NEW w \in Worker, InsertVersion(w)
  PROVE  StepOK(w)
<1>. DEFINE s == sync[w]
            pv == s.dist[1]
            m == [s EXCEPT !.at = "versions", !.dist = <<>>]
<1>1. s.at = "insert" /\ sync' = [sync EXCEPT ![w] = m]
  BY DEF InsertVersion, Goes
<1>2. s \in SyncRecs /\ s # Free
  BY <1>1, WorkerFacts, FreeFacts
<1>3. s.up \in Upstream /\ pv[1] \in Pkg /\ (Kind[s.up] = "composer" => pv[1] = s.pkg)
  BY <1>1, OnTheWayFacts DEF Storing
<1>4. /\ \A q \in Pkg : row'[q].broken = row[q].broken /\ (q # pv[1] => row'[q] = row[q])
      /\ Kind[s.up] = "composer" =>
           \A q \in Pkg, y \in Version :
             row[q].ver[y] # NoVer => row'[q].ver[y].bytes = row[q].ver[y].bytes
  BY InsertRows
<1>5. Kind[s.up] = "composer" \/ FromGit(w)
  BY <1>2, <1>3, KindFacts DEF FromGit
<1>6. m.at = "versions"
  BY <1>2 DEF SyncRecs
<1>. HIDE DEF m
<1>7. Acts(w)
  BY <1>1, <1>6, ActsAt
<1>8. row[pv[1]].archived => s.single \/ FromGit(w) \/ pv[1] \in late[w]
  BY <1>1, <1>3, <1>5, NotFrozen DEF OnTheList, InPackage, Storing
<1>. HIDE DEF pv
<1>. QED
  BY <1>4, <1>5, <1>7, <1>8 DEF StepOK

(* The other steps that write the rows touch no version and flag nothing.     *)
LEMMA QuietStep ==
  ASSUME IInv, NEW w \in Worker, UpsertPackage(w) \/ BindUpstream(w) \/ MarkSynced(w)
  PROVE  row' = row \/ StepOK(w)
<1>1. ASSUME Acts(w),
             \A q \in Pkg : row'[q].ver = row[q].ver /\ (row'[q].broken => row[q].broken)
      PROVE  StepOK(w)
  BY <1>1 DEF StepOK
<1>2. CASE UpsertPackage(w)
  <2>. DEFINE m == [sync[w] EXCEPT !.at = "bind"]
  <2>1. sync[w].at = "upsert" /\ sync' = [sync EXCEPT ![w] = m]
          /\ row' = [row EXCEPT ![sync[w].dist[1][1]].there = TRUE]
    BY <1>2 DEF UpsertPackage, To, Goes
  <2>2. m.at = "bind"
    BY <2>1, WorkerFacts DEF SyncRecs
  <2>. HIDE DEF m
  <2>3. Acts(w)
    BY <2>1, <2>2, ActsAt
  <2>4. \A q \in Pkg : row'[q].ver = row[q].ver /\ row'[q].broken = row[q].broken
    BY <2>1, OnTheWayFacts, UpsertedRows DEF Storing
  <2>. QED
    BY <1>1, <2>3, <2>4
<1>3. CASE BindUpstream(w)
  <2>. SUFFICES ASSUME row' # row PROVE StepOK(w)
    OBVIOUS
  <2>. DEFINE m == [sync[w] EXCEPT !.at = "insert"]
  <2>1. sync[w].at = "bind" /\ Live(sync[w].up) /\ sync' = [sync EXCEPT ![w] = m]
          /\ row' = [row EXCEPT ![sync[w].dist[1][1]].up = sync[w].up]
    BY <1>3 DEF BindUpstream, To, Goes
  <2>2. m.at = "insert"
    BY <2>1, WorkerFacts DEF SyncRecs
  <2>. HIDE DEF m
  <2>3. Acts(w)
    BY <2>1, <2>2, ActsAt
  <2>4. \A q \in Pkg : row'[q].ver = row[q].ver /\ row'[q].broken = row[q].broken
    BY <2>1, OnTheWayFacts, BoundRows DEF Storing
  <2>. QED
    BY <1>1, <2>3, <2>4
<1>4. CASE MarkSynced(w)
  <2>1. sync[w].at = "versions" /\ Abandon(w)
    BY <1>4 DEF MarkSynced
  <2>2. PICK marked : row' = Synced(marked)
    BY <1>4 DEF MarkSynced
  <2>3. \A q \in Pkg : row'[q].ver = row[q].ver /\ (row'[q].broken => row[q].broken)
    BY <2>2, SyncedRows
  <2>4. Acts(w)
    BY <2>1, ActsGivingUp DEF OnTheList, InPackage
  <2>. QED
    BY <1>1, <2>3, <2>4
<1>. QED
  BY <1>2, <1>3, <1>4

(* One disjunct of SyncStep at a time: the invariant and the step's effect.   *)
LEMMA SyncStepKeeps ==
  ASSUME IInv, NEW w \in Worker, SyncStep(w)
  PROVE  IInv' /\ (row' = row \/ StepOK(w))
<1>1. ASSUME NEW u \in Upstream, NEW single \in SUBSET Pkg, Begin(w, u, single)
      PROVE  IInv' /\ row' = row
  BY <1>1, BeginKeeps DEF Begin, Catalog
<1>2. ASSUME NEW u \in Upstream, MirrorUpstream(w, u) \/ MirrorRegistry(w, u)
      PROVE  IInv' /\ row' = row
  BY <1>1, <1>2 DEF MirrorUpstream, MirrorRegistry
<1>3. ASSUME NEW u \in Upstream, NEW p \in Pkg, MirrorPackage(w, u, p)
      PROVE  IInv' /\ row' = row
  BY <1>1, <1>3 DEF MirrorPackage
<1>4. CASE FetchRoot(w) \/ ReadArchived(w) \/ Clone(w) \/ ReadStored(w) \/ Reconcile(w)
  <2>1. row' = row
    BY <1>4 DEF FetchRoot, ReadArchived, Clone, ReadStored, Reconcile, Catalog
  <2>. QED
    BY <1>4, <2>1, FetchRootKeeps, ReadArchivedKeeps, CloneKeeps, ReadStoredKeeps, ReconcileKeeps
<1>5. ASSUME NEW p \in Pkg, FetchDocument(w, p)
      PROVE  IInv' /\ row' = row
  BY <1>5, FetchDocumentKeeps DEF FetchDocument, Catalog
<1>6. ASSUME NEW p \in Pkg, NEW v \in Version, Download(w, <<p, v>>) \/ ArchiveTag(w, <<p, v>>)
      PROVE  IInv' /\ row' = row
  <2>1. row' = row
    BY <1>6 DEF Download, ArchiveTag, Catalog
  <2>. QED
    BY <1>6, <2>1, DownloadKeeps, ArchiveTagKeeps
<1>7. ASSUME NEW p \in Pkg, NEW v \in Version, KeepStored(w, <<p, v>>)
      PROVE  IInv' /\ (row' = row \/ StepOK(w))
  BY <1>7, KeepStoredKeeps, KeepStoredStep
<1>8. CASE UpsertPackage(w) \/ BindUpstream(w) \/ MarkSynced(w)
  BY <1>8, UpsertPackageKeeps, BindUpstreamKeeps, MarkSyncedKeeps, QuietStep
<1>9. CASE InsertVersion(w)
  BY <1>9, InsertVersionKeeps, InsertVersionStep
<1>10. CASE MarkBroken(w)
  BY <1>10, MarkBrokenKeeps, MarkBrokenStep
<1>11. ASSUME NEW p \in Pkg, FlagVanished(w, p)
       PROVE  IInv' /\ StepOK(w)
  BY <1>11, FlagVanishedKeeps, FlagVanishedStep
<1>12. CASE Finish(w) \/ Fail(w) \/ Die(w)
  BY <1>12, EndingKeeps
<1>. QED
  BY <1>2, <1>3, <1>4, <1>5, <1>6, <1>7, <1>8, <1>9, <1>10, <1>11, <1>12 DEF SyncStep

LEMMA NextKeeps ==
  ASSUME IInv, [MirrorNext]_mirrorVars
  PROVE  /\ IInv'
         /\ \/ \A q \in Pkg : row'[q].ver = row[q].ver /\ row'[q].broken = row[q].broken
            \/ \E w \in Worker : StepOK(w)
<1>1. CASE World
  <2>1. row' = row
    BY <1>1 DEF World
  <2>. QED
    BY <1>1, <2>1, WorldKeeps
<1>2. CASE Operator
  BY <1>2, OperatorKeeps
<1>3. CASE \/ \E u \in Upstream : CreateUpstream(u)
           \/ \E u \in Upstream, s \in Subs \cup {Malformed} : StoreRequires(u, s)
  BY <1>3, RegisterKeeps
<1>4. CASE \E w \in Worker : SyncStep(w)
  BY <1>4, SyncStepKeeps
<1>5. CASE UNCHANGED mirrorVars
  BY <1>5 DEF mirrorVars, IInv, Tables, Histories, Workers
<1>. QED
  BY <1>1, <1>2, <1>3, <1>4, <1>5 DEF MirrorNext

THEOREM Invariant == MirrorSpec => []IInv
<1>1. IInv /\ [MirrorNext]_mirrorVars => IInv'
  BY NextKeeps
<1>. QED
  BY InitIInv, <1>1, PTL DEF MirrorSpec

-----------------------------------------------------------------------------

(* Every row is bound to an upstream that is there, or to none, and stores    *)
(* versions only if it is there (the foreign key and the order of the         *)
(* inserts); a sync works on an upstream and on packages.                     *)
THEOREM TypeCorrect == MirrorSpec => []MirrorTypes
<1>1. IInv => MirrorTypes
  <2>. SUFFICES ASSUME IInv PROVE MirrorTypes
    OBVIOUS
  <2>1. \A p \in Pkg :
          /\ row[p].up \in Upstream \cup {Nothing} /\ row[p].broken \in BOOLEAN
          /\ \A v \in Version : row[p].ver[v] # NoVer => row[p].there /\ row[p].ver[v].bytes \in Bytes
          /\ row[p].up # Nothing => Live(row[p].up)
    BY DEF IInv, Tables, RowsOK, RowRecs, Live
  <2>2. \A w \in Worker : sync[w] # Free => sync[w].up \in Upstream /\ sync[w].todo \subseteq Pkg
    BY DEF IInv, Workers, WorkerOK, SyncRecs
  <2>. QED
    BY <2>1, <2>2 DEF MirrorTypes
<1>. QED
  BY Invariant, <1>1, PTL

(* Whatever a sync has dealt with of what its require-list wants is stored    *)
(* (mirror_one_package and mirror_git_url pass over nothing on their way).    *)
THEOREM SyncedStored == MirrorSpec => []SyncedIsStored
<1>1. IInv => SyncedIsStored
  <2>. SUFFICES ASSUME IInv, NEW w \in Worker, sync[w].at = "versions",
                       NEW pv \in Wanted(sync[w].requires, DOMAIN sync[w].doc) \ sync[w].left
                PROVE  row[pv[1]].ver[pv[2]] # NoVer
    BY DEF SyncedIsStored
  <2>1. StoredOK(sync[w], row)
    BY WorkerFacts
  <2>. QED
    BY <2>1 DEF StoredOK, Storing, Has
<1>. QED
  BY Invariant, <1>1, PTL

(* The first bytes of a version stay, however many syncs overlap and whatever *)
(* the registry serves by then (insert_mirrored_version); only a git tag      *)
(* replaces them.                                                             *)
THEOREM FirstBytes == MirrorSpec => FirstBytesStay
<1>1. ASSUME IInv, [MirrorNext]_mirrorVars
      PROVE  [\A p \in Pkg, v \in Version :
                row[p].ver[v] # NoVer =>
                  \/ row'[p].ver[v].bytes = row[p].ver[v].bytes
                  \/ \E w \in Worker : Acts(w) /\ FromGit(w)]_mirrorVars
  BY <1>1, NextKeeps DEF StepOK
<1>. QED
  BY Invariant, <1>1, PTL DEF MirrorSpec, FirstBytesStay

(* A package turns broken only by a sync whose upstream refused it for good,  *)
(* no longer listed it, or withdrew a dist of it (mark_package_broken and the *)
(* reconciliation of what vanished).                                          *)
THEOREM FlagsGrounded == MirrorSpec => FlagsHaveGrounds
<1>1. ASSUME IInv, [MirrorNext]_mirrorVars
      PROVE  [\A p \in Pkg :
                (~row[p].broken /\ row'[p].broken)
                  => \E w \in Worker : Acts(w) /\ p \in refused[w]]_mirrorVars
  BY <1>1, NextKeeps DEF StepOK
<1>. QED
  BY Invariant, <1>1, PTL DEF MirrorSpec, FlagsHaveGrounds

(* An archived package stays as it is, but for a sync that had read the       *)
(* archived ones before, one of that package alone, and a git sync.           *)
THEOREM FreezeConfined == MirrorSpec => FreezeNeedsRace
<1>1. ASSUME IInv, [MirrorNext]_mirrorVars
      PROVE  [\A p \in Pkg :
                (row[p].archived /\ row'[p].ver # row[p].ver)
                  => \E w \in Worker :
                       Acts(w) /\ (sync[w].single \/ FromGit(w) \/ p \in late[w])]_mirrorVars
  BY <1>1, NextKeeps DEF StepOK
<1>. QED
  BY Invariant, <1>1, PTL DEF MirrorSpec, FreezeNeedsRace

-----------------------------------------------------------------------------
(* The dependency plan.                                                     *)

Ups == Range(Registry)

Entries == [name : Dep, status : {"present", "private", "public", "missing"},
            resolver : Ups \union {Nobody}]

Resolved(found) == {e \in found : e.status \in {"private", "public"}}
ClosureOf(w, found) == w.roots \union UNION {w.needs[e.name] : e \in Resolved(found)}

(* Upstreams in the order they are asked.                                   *)
Sorted(ups) == \A i, j \in DOMAIN ups : i < j => (ups[j] \in Private => ups[i] \in Private)

WalkRow ==
    [at : {"idle", "reading", "sorted", "walking"} \union Dep, has : SUBSET Dep, ups : Seq(Ups),
     queue : Seq(Dep), seen : SUBSET Dep, found : SUBSET Entries, left : Seq(Ups),
     roots : SUBSET Dep, needs : [Dep -> SUBSET Dep]]

ClosureRows ==
    /\ known \subseteq Ups /\ present \subseteq Dep /\ walk \in WalkRow
    /\ missed \in [Dep -> SUBSET Ups] /\ plan \subseteq Entries /\ jobs \subseteq Ups \X Dep
    /\ adding \in {<<>>} \union (Ups \X Dep)

(* While a name is asked for, a private upstream still has to answer or did *)
(* not come up with it.                                                     *)
Asking ==
    /\ Sorted(walk.ups) /\ Sorted(walk.left)
    /\ walk.at \in Dep =>
         \A u \in Range(walk.ups) \intersect Private :
           u \in Range(walk.left) \/ u \in missed[walk.at]

Met ==
    /\ walk.at \in {"idle", "reading", "sorted"} => walk.found = {} /\ walk.seen = {}
    /\ walk.seen = Names(walk.found) \union ({walk.at} \intersect Dep)
    /\ walk.at \notin Names(walk.found)
    /\ IsFiniteSet(walk.found) /\ IsFiniteSet(Names(walk.found))
    /\ Cardinality(Names(walk.found)) = Cardinality(walk.found)

(* Below the cap whatever is wanted was met or waits, and nothing else.     *)
Waiting ==
    walk.at \in {"walking"} \union Dep /\ Cardinality(walk.found) < MaxClosure =>
      walk.seen \union Range(walk.queue) = ClosureOf(walk, walk.found)

ClosureIInv == ClosureRows /\ Asking /\ Met /\ Waiting /\ PublicNeedsMiss

-----------------------------------------------------------------------------
LEMMA SeqsOf ==
    ASSUME NEW S, IsFiniteSet(S), NEW s \in SetToSeqs(S)
    PROVE  s \in Seq(S) /\ Range(s) = S
<1>. DEFINE n == Cardinality(S)
            D == 1..n
<1>1. n \in Nat
  BY FS_CardinalityType
<1>2. s \in [D -> S] /\ \A i, j \in D : i # j => s[i] # s[j]
  BY DEF SetToSeqs
<1>3. IsFiniteSet(D) /\ Cardinality(D) = n
  BY <1>1, FS_Interval
<1>4. s \in Injection(D, S)
  BY <1>2 DEF Injection, IsInjective
<1>5. s \in Surjection(D, S)
  BY <1>3, <1>4, FS_Injection
<1>6. Range(s) = S
  BY <1>5 DEF Surjection, Range
<1>. QED
  BY <1>1, <1>2, <1>6

LEMMA RegistryFinite == IsFiniteSet(Ups)
<1>1. Registry \in [1..Len(Registry) -> Ups] /\ Len(Registry) \in Nat
  BY ClosureAssumption DEF Ups
<1>2. Registry \in Surjection(1..Len(Registry), Ups)
  BY <1>1 DEF Surjection, Ups, Range
<1>. QED
  BY <1>1, <1>2, FS_Interval, FS_Surjection

(* The order upstreams are asked in: private ones first.                    *)
LEMMA AskedInOrder ==
    ASSUME known \subseteq Ups, NEW ups \in ListUpstreams, NEW s \in PrivateFirst(ups)
    PROVE  s \in Seq(Ups) /\ Sorted(s)
<1>1. IsFiniteSet(known)
  BY RegistryFinite, FS_Subset
<1>2. Range(ups) = known
  BY <1>1, SeqsOf DEF ListUpstreams
<1>3. s \in SetToSeqs(known)
  BY <1>2 DEF PrivateFirst
<1>4. s \in Seq(Ups)
  BY <1>1, <1>3, SeqsOf
<1>. QED
  BY <1>4 DEF PrivateFirst, Sorted

LEMMA RangeTail ==
    ASSUME NEW S, NEW s \in Seq(S), s # <<>>
    PROVE  /\ Head(s) \in S /\ Tail(s) \in Seq(S)
           /\ Range(s) = {Head(s)} \union Range(Tail(s))
<1>1. /\ Head(s) \in S /\ Tail(s) \in Seq(S) /\ Len(Tail(s)) = Len(s) - 1
      /\ \A i \in 1..Len(Tail(s)) : Tail(s)[i] = s[i + 1]
  BY HeadTailProperties
<1>2. Len(s) \in Nat \ {0} /\ DOMAIN s = 1..Len(s) /\ DOMAIN Tail(s) = 1..(Len(s) - 1) /\ Head(s) = s[1]
  <2>1. Len(s) \in Nat /\ Len(s) # 0 /\ DOMAIN s = 1..Len(s)
    BY EmptySeq, LenProperties
  <2>2. DOMAIN Tail(s) = 1..(Len(s) - 1)
    BY <1>1, LenProperties
  <2>3. Head(s) = s[1]
    OBVIOUS
  <2>. QED
    BY <2>1, <2>2, <2>3
<1>3. \A x \in Range(s) : x = Head(s) \/ x \in Range(Tail(s))
  <2>. SUFFICES ASSUME NEW i \in 1..Len(s), i # 1
       PROVE  s[i] \in Range(Tail(s))
    BY <1>2 DEF Range
  <2>1. i - 1 \in 1..(Len(s) - 1) /\ (i - 1) + 1 = i
    BY <1>2
  <2>2. Tail(s)[i - 1] = s[i]
    BY <1>1, <2>1
  <2>. QED
    BY <1>2, <2>1, <2>2 DEF Range
<1>4. \A x \in Range(Tail(s)) : x \in Range(s)
  <2>. SUFFICES ASSUME NEW i \in 1..(Len(s) - 1)
       PROVE  Tail(s)[i] \in Range(s)
    BY <1>2 DEF Range
  <2>1. i + 1 \in 1..Len(s) /\ Tail(s)[i] = s[i + 1]
    BY <1>1, <1>2
  <2>. QED
    BY <1>2, <2>1 DEF Range
<1>5. Head(s) \in Range(s)
  BY <1>2 DEF Range
<1>. QED
  BY <1>1, <1>3, <1>4, <1>5

LEMMA RangeConcat ==
    ASSUME NEW S, NEW s \in Seq(S), NEW t \in Seq(S)
    PROVE  s \o t \in Seq(S) /\ Range(s \o t) = Range(s) \union Range(t)
<1>1. /\ s \o t \in Seq(S) /\ Len(s \o t) = Len(s) + Len(t)
      /\ \A i \in 1..Len(s) + Len(t) : (s \o t)[i] = IF i <= Len(s) THEN s[i] ELSE t[i - Len(s)]
  BY ConcatProperties
<1>2. /\ Len(s) \in Nat /\ Len(t) \in Nat /\ DOMAIN s = 1..Len(s) /\ DOMAIN t = 1..Len(t)
      /\ DOMAIN (s \o t) = 1..Len(s) + Len(t)
  BY <1>1
<1>3. \A x \in Range(s \o t) : x \in Range(s) \/ x \in Range(t)
  <2>. SUFFICES ASSUME NEW i \in 1..Len(s) + Len(t)
       PROVE  (s \o t)[i] \in Range(s) \union Range(t)
    BY <1>2 DEF Range
  <2>1. CASE i <= Len(s)
    <3>1. i \in 1..Len(s) /\ (s \o t)[i] = s[i]
      BY <1>1, <1>2, <2>1
    <3>. QED
      BY <1>2, <3>1 DEF Range
  <2>2. CASE ~(i <= Len(s))
    <3>1. i - Len(s) \in 1..Len(t) /\ (s \o t)[i] = t[i - Len(s)]
      BY <1>1, <1>2, <2>2
    <3>. QED
      BY <1>2, <3>1 DEF Range
  <2>. QED
    BY <2>1, <2>2
<1>4. \A x \in Range(s) : x \in Range(s \o t)
  <2>. SUFFICES ASSUME NEW i \in 1..Len(s)
       PROVE  s[i] \in Range(s \o t)
    BY <1>2 DEF Range
  <2>1. i \in 1..Len(s) + Len(t) /\ (s \o t)[i] = s[i]
    BY <1>1, <1>2
  <2>. QED
    BY <1>2, <2>1 DEF Range
<1>5. \A x \in Range(t) : x \in Range(s \o t)
  <2>. SUFFICES ASSUME NEW i \in 1..Len(t)
       PROVE  t[i] \in Range(s \o t)
    BY <1>2 DEF Range
  <2>1. i + Len(s) \in 1..Len(s) + Len(t) /\ ~(i + Len(s) <= Len(s)) /\ (i + Len(s)) - Len(s) = i
    BY <1>2
  <2>2. (s \o t)[i + Len(s)] = t[i]
    BY <1>1, <2>1
  <2>. QED
    BY <1>2, <2>1, <2>2 DEF Range
<1>. QED
  BY <1>1, <1>3, <1>4, <1>5

LEMMA SortedTail ==
    ASSUME NEW s \in Seq(Ups), s # <<>>, Sorted(s)
    PROVE  /\ Sorted(Tail(s))
           /\ Head(s) \notin Private => Range(s) \intersect Private = {}
<1>1. /\ Tail(s) \in Seq(Ups) /\ Len(Tail(s)) = Len(s) - 1
      /\ \A i \in 1..Len(Tail(s)) : Tail(s)[i] = s[i + 1]
  BY HeadTailProperties
<1>2. Len(s) \in Nat \ {0} /\ DOMAIN s = 1..Len(s) /\ DOMAIN Tail(s) = 1..(Len(s) - 1) /\ Head(s) = s[1]
  <2>1. Len(s) \in Nat /\ Len(s) # 0 /\ DOMAIN s = 1..Len(s)
    BY EmptySeq, LenProperties
  <2>2. DOMAIN Tail(s) = 1..(Len(s) - 1)
    BY <1>1, LenProperties
  <2>3. Head(s) = s[1]
    OBVIOUS
  <2>. QED
    BY <2>1, <2>2, <2>3
<1>3. Sorted(Tail(s))
  <2>. SUFFICES ASSUME NEW i \in 1..(Len(s) - 1), NEW j \in 1..(Len(s) - 1), i < j, Tail(s)[j] \in Private
       PROVE  Tail(s)[i] \in Private
    BY <1>2 DEF Sorted
  <2>1. i + 1 \in 1..Len(s) /\ j + 1 \in 1..Len(s) /\ i + 1 < j + 1
    BY <1>2
  <2>. QED
    BY <1>1, <1>2, <2>1 DEF Sorted
<1>4. ASSUME s[1] \notin Private, NEW i \in 1..Len(s)
      PROVE  s[i] \notin Private
  BY <1>2, <1>4 DEF Sorted
<1>. QED
  BY <1>2, <1>3, <1>4 DEF Range

(* An entry more.                                                           *)
LEMMA FoundMore ==
    ASSUME NEW found \in SUBSET Entries, NEW e \in Entries, NEW d, e.name = d, d \notin Names(found),
           IsFiniteSet(found), IsFiniteSet(Names(found)),
           Cardinality(Names(found)) = Cardinality(found), NEW more, more = found \union {e}
    PROVE  /\ Names(more) = Names(found) \union {d}
           /\ IsFiniteSet(more) /\ IsFiniteSet(Names(more))
           /\ Cardinality(Names(more)) = Cardinality(more)
           /\ Cardinality(more) = Cardinality(found) + 1 /\ Cardinality(found) \in Nat
<1>1. Names(more) = Names(found) \union {d}
  BY DEF Names
<1>2. e \notin found
  BY DEF Names
<1>3. IsFiniteSet(more) /\ Cardinality(more) = Cardinality(found) + 1
  BY <1>2, FS_AddElement
<1>4. /\ IsFiniteSet(Names(found) \union {d})
      /\ Cardinality(Names(found) \union {d}) = Cardinality(Names(found)) + 1
  BY FS_AddElement
<1>5. Cardinality(found) \in Nat
  BY FS_CardinalityType
<1>. QED
  BY <1>1, <1>3, <1>4, <1>5

LEMMA ClosureMore ==
    ASSUME NEW v, NEW w, NEW found \in SUBSET Entries, NEW e \in Entries,
           w.roots = v.roots, w.needs = v.needs, e.status \notin {"private", "public"}
    PROVE  ClosureOf(w, found \union {e}) = ClosureOf(v, found)
<1>1. Resolved(found \union {e}) = Resolved(found)
  BY DEF Resolved
<1>. QED
  BY <1>1 DEF ClosureOf

LEMMA ClosureFurther ==
    ASSUME NEW v \in WalkRow, NEW w, NEW found \in SUBSET Entries, NEW e \in Entries,
           e.status \in {"private", "public"}, NEW more, e.name \notin Names(found),
           w.roots = v.roots, w.needs = [v.needs EXCEPT ![e.name] = more]
    PROVE  ClosureOf(w, found \union {e}) = ClosureOf(v, found) \union more
<1>1. Resolved(found \union {e}) = Resolved(found) \union {e}
  BY DEF Resolved
<1>2. v.needs \in [Dep -> SUBSET Dep] /\ e.name \in Dep
  BY DEF WalkRow, Entries
<1>3. w.needs[e.name] = more /\ \A f \in Resolved(found) : w.needs[f.name] = v.needs[f.name]
  BY <1>2 DEF Resolved, Names, Entries
<1>. DEFINE R == Resolved(found)
            new == w.roots \union UNION {w.needs[f.name] : f \in R \union {e}}
            old == v.roots \union UNION {v.needs[f.name] : f \in R}
<1>. HIDE DEF R
<1>4. ASSUME NEW x
      PROVE  x \in new <=> x \in old \union more
  <2>1. x \in new <=> x \in w.roots \/ \E f \in R \union {e} : x \in w.needs[f.name]
    OBVIOUS
  <2>2. x \in old <=> x \in v.roots \/ \E f \in R : x \in v.needs[f.name]
    OBVIOUS
  <2>. HIDE DEF new, old
  <2>3. \A f \in R : w.needs[f.name] = v.needs[f.name]
    BY <1>3 DEF R
  <2>4. (\E f \in R \union {e} : x \in w.needs[f.name])
          <=> (\E f \in R : x \in v.needs[f.name]) \/ x \in more
    BY <1>3, <2>3
  <2>. QED
    BY <2>1, <2>2, <2>4
<1>5. new = old \union more
  <2>. HIDE DEF new, old
  <2>. QED
    BY <1>4
<1>. QED
  BY <1>1, <1>5 DEF ClosureOf, R

LEMMA IdleWalk == Idle \in WalkRow /\ Idle.at = "idle"
BY DEF Idle, WalkRow

LEMMA IdleKeeps ==
    ASSUME ClosureRows', walk' = Idle
    PROVE  ClosureIInv'
<1>1. walk'.at = "idle" /\ walk'.found = {} /\ walk'.seen = {} /\ walk'.ups = <<>> /\ walk'.left = <<>>
  BY DEF Idle
<1>2. Names({}) = {} /\ IsFiniteSet({}) /\ "idle" \notin Dep
  BY FS_EmptySet, ClosureAssumption DEF Names
<1>3. Asking'
  BY <1>1, <1>2 DEF Asking, Sorted
<1>4. Met'
  BY <1>1, <1>2 DEF Met
<1>5. Waiting' /\ PublicNeedsMiss'
  BY <1>1, <1>2 DEF Waiting, PublicNeedsMiss
<1>. QED
  BY <1>3, <1>4, <1>5 DEF ClosureIInv

(* A walk that starts over has met nothing.                                 *)
LEMMA ReadPresentKeeps ==
    ASSUME ClosureIInv, ReadPresent
    PROVE  ClosureIInv'
<1>. DEFINE w == [Idle EXCEPT !.at = "reading", !.has = present]
<1>1. /\ walk' = w /\ missed' = [d \in Dep |-> {}] /\ ClosureRows
      /\ UNCHANGED <<present, known, plan, adding, jobs>>
  BY DEF ReadPresent, ClosureIInv
<1>2. w \in WalkRow /\ w.at = "reading" /\ w.found = {} /\ w.seen = {} /\ w.ups = <<>> /\ w.left = <<>>
  <2>1. Idle \in WalkRow /\ present \subseteq Dep
    BY <1>1, IdleWalk DEF ClosureRows
  <2>2. /\ w \in WalkRow /\ w.at = "reading" /\ w.found = Idle.found /\ w.seen = Idle.seen
        /\ w.ups = Idle.ups /\ w.left = Idle.left
    BY <2>1 DEF WalkRow
  <2>. QED
    BY <2>2 DEF Idle
<1>. HIDE DEF w
<1>3. Names({}) = {} /\ IsFiniteSet({}) /\ "reading" \notin Dep
  BY FS_EmptySet, ClosureAssumption DEF Names
<1>4. ClosureRows'
  BY <1>1, <1>2 DEF ClosureRows
<1>5. Asking'
  BY <1>1, <1>2, <1>3 DEF Asking, Sorted
<1>6. Met'
  BY <1>1, <1>2, <1>3 DEF Met
<1>7. Waiting' /\ PublicNeedsMiss'
  BY <1>1, <1>2, <1>3 DEF Waiting, PublicNeedsMiss
<1>. QED
  BY <1>4, <1>5, <1>6, <1>7 DEF ClosureIInv

LEMMA ReadUpstreamsKeeps ==
    ASSUME ClosureIInv, ReadUpstreams
    PROVE  ClosureIInv'
<1>1. PICK ups \in ListUpstreams : \E sorted \in PrivateFirst(ups) :
        walk' = [walk EXCEPT !.at = "sorted", !.ups = sorted]
  BY DEF ReadUpstreams
<1>2. PICK sorted \in PrivateFirst(ups) : walk' = [walk EXCEPT !.at = "sorted", !.ups = sorted]
  BY <1>1
<1>3. /\ walk.at = "reading" /\ UNCHANGED <<present, known, plan, adding, jobs, missed>>
      /\ ClosureRows /\ Asking /\ Met
  BY DEF ReadUpstreams, ClosureIInv
<1>4. sorted \in Seq(Ups) /\ Sorted(sorted)
  BY <1>3, AskedInOrder DEF ClosureRows
<1>5. walk.found = {} /\ walk.seen = {} /\ Names({}) = {} /\ "sorted" \notin Dep
  BY <1>3, ClosureAssumption DEF Met, Names
<1>6. walk' \in WalkRow
  BY <1>2, <1>3, <1>4 DEF ClosureRows, WalkRow
<1>7. /\ walk'.at = "sorted" /\ walk'.ups = sorted /\ walk'.left = walk.left
      /\ walk'.found = {} /\ walk'.seen = {}
  BY <1>2, <1>3, <1>5 DEF ClosureRows, WalkRow
<1>8. ClosureRows' /\ PublicNeedsMiss' /\ Waiting'
  BY <1>3, <1>5, <1>6, <1>7 DEF ClosureRows, PublicNeedsMiss, Waiting
<1>9. Asking' /\ Met'
  BY <1>3, <1>4, <1>5, <1>7, FS_EmptySet DEF Asking, Met
<1>. QED
  BY <1>8, <1>9 DEF ClosureIInv

LEMMA ReadRequiresKeeps ==
    ASSUME ClosureIInv, ReadRequires
    PROVE  ClosureIInv'
<1>1. PICK roots \in {Direct \cup s : s \in SUBSET Carried} : \E first \in SetToSeqs(roots) :
        walk' = [walk EXCEPT !.at = "walking", !.queue = first, !.roots = roots]
  BY DEF ReadRequires
<1>2. PICK first \in SetToSeqs(roots) :
        walk' = [walk EXCEPT !.at = "walking", !.queue = first, !.roots = roots]
  BY <1>1
<1>3. /\ walk.at = "sorted" /\ UNCHANGED <<present, known, plan, adding, jobs, missed>>
      /\ ClosureRows /\ Asking /\ Met
  BY DEF ReadRequires, ClosureIInv
<1>4. Carried \subseteq Dep
  <2>1. \A u \in Range(Registry), d \in Dep : UNION Requires[u][d] \subseteq Dep
    BY ClosureAssumption
  <2>. QED
    BY <2>1, <1>3 DEF Carried, ClosureRows
<1>5. roots \subseteq Dep /\ IsFiniteSet(roots)
  <2>1. roots \subseteq Dep
    BY <1>1, <1>4, ClosureAssumption
  <2>. QED
    BY <2>1, ClosureAssumption, FS_Subset
<1>6. first \in Seq(roots) /\ Range(first) = roots
  BY <1>5, SeqsOf
<1>7. first \in Seq(Dep)
  BY <1>5, <1>6
<1>8. walk.found = {} /\ walk.seen = {} /\ Names({}) = {} /\ "walking" \notin Dep
  BY <1>3, ClosureAssumption DEF Met, Names
<1>9. walk' \in WalkRow
  BY <1>2, <1>3, <1>5, <1>7 DEF ClosureRows, WalkRow
<1>10. /\ walk'.at = "walking" /\ walk'.queue = first /\ walk'.ups = walk.ups /\ walk'.left = walk.left
       /\ walk'.found = {} /\ walk'.seen = {} /\ walk'.roots = roots
  BY <1>2, <1>3, <1>8 DEF ClosureRows, WalkRow
<1>11. ClosureRows' /\ PublicNeedsMiss'
  BY <1>3, <1>9, <1>10 DEF ClosureRows, PublicNeedsMiss
<1>12. Asking' /\ Met'
  BY <1>3, <1>8, <1>10, FS_EmptySet DEF Asking, Met
<1>13. ClosureOf(walk', {}) = roots
  BY <1>10 DEF ClosureOf, Resolved
<1>14. Waiting'
  BY <1>6, <1>10, <1>13 DEF Waiting
<1>. QED
  BY <1>11, <1>12, <1>14 DEF ClosureIInv

LEMMA TakeKeeps ==
    ASSUME ClosureIInv, Take
    PROVE  ClosureIInv'
<1>1. /\ walk.at = "walking" /\ walk.queue # <<>> /\ UNCHANGED <<present, known, plan, adding, jobs, missed>>
      /\ ClosureRows /\ Asking /\ Met /\ Waiting /\ PublicNeedsMiss
  BY DEF Take, ClosureIInv
<1>. DEFINE h == Upcoming
            t == Tail(walk.queue)
<1>2. walk.queue \in Seq(Dep)
  BY <1>1 DEF ClosureRows, WalkRow
<1>3. h \in Dep /\ t \in Seq(Dep) /\ Range(walk.queue) = {h} \union Range(t)
  BY <1>1, <1>2, RangeTail DEF Upcoming
<1>. HIDE DEF h, t
<1>4. "walking" \notin Dep /\ h # "walking" /\ h \notin {"idle", "reading", "sorted", "walking"}
  BY <1>3, ClosureAssumption
<1>5. walk \in WalkRow
  BY <1>1 DEF ClosureRows
<1>6. CASE h \in walk.seen
  <2>1. walk' = [walk EXCEPT !.queue = t]
    BY <1>6 DEF Take, h, t
  <2>2. walk' \in WalkRow /\ walk'.queue = t
    BY <2>1, <1>3, <1>5 DEF WalkRow
  <2>3. /\ walk'.at = walk.at /\ walk'.seen = walk.seen /\ walk'.found = walk.found
        /\ walk'.ups = walk.ups /\ walk'.left = walk.left
    BY <2>1, <1>5 DEF WalkRow
  <2>4. ClosureRows' /\ Asking' /\ Met' /\ PublicNeedsMiss'
    BY <2>2, <2>3, <1>1 DEF ClosureRows, Asking, Met, PublicNeedsMiss
  <2>5. Waiting'
    <3>1. ClosureOf(walk', walk'.found) = ClosureOf(walk, walk.found)
      BY <2>1, <2>3, <1>5 DEF WalkRow, ClosureOf
    <3>. QED
      BY <3>1, <2>2, <2>3, <1>1, <1>3, <1>6 DEF Waiting
  <2>. QED
    BY <2>4, <2>5 DEF ClosureIInv
<1>7. CASE h \notin walk.seen /\ Cardinality(walk.found) >= MaxClosure
  <2>1. walk' = [walk EXCEPT !.queue = <<>>]
    BY <1>7 DEF Take, h, t
  <2>2. walk' \in WalkRow
    <3>1. <<>> \in Seq(Dep)
      OBVIOUS
    <3>. QED
      BY <2>1, <3>1, <1>5 DEF WalkRow
  <2>3. /\ walk'.at = walk.at /\ walk'.seen = walk.seen /\ walk'.found = walk.found
        /\ walk'.ups = walk.ups /\ walk'.left = walk.left
    BY <2>1, <1>5 DEF WalkRow
  <2>4. ClosureRows' /\ Asking' /\ Met' /\ PublicNeedsMiss'
    BY <2>2, <2>3, <1>1 DEF ClosureRows, Asking, Met, PublicNeedsMiss
  <2>5. Cardinality(walk.found) \in Nat /\ MaxClosure \in Nat
    BY <1>1, FS_CardinalityType, ClosureAssumption DEF Met
  <2>6. Waiting'
    BY <2>3, <2>5, <1>7 DEF Waiting
  <2>. QED
    BY <2>4, <2>6 DEF ClosureIInv
<1>8. CASE h \notin walk.seen /\ ~(Cardinality(walk.found) >= MaxClosure) /\ h \in walk.has
  <2>. DEFINE e == Entry(h, "present", Nobody)
  <2>1. e \in Entries /\ e.name = h /\ e.status = "present"
    BY <1>3 DEF Entry, Entries
  <2>2. walk' = [walk EXCEPT !.queue = t, !.seen = @ \union {h}, !.found = @ \union {e}]
    BY <1>8 DEF Take, h, t
  <2>. HIDE DEF e
  <2>3. walk' \in WalkRow /\ walk'.queue = t /\ walk'.seen = walk.seen \union {h}
        /\ walk'.found = walk.found \union {e}
    BY <2>1, <2>2, <1>3, <1>5 DEF WalkRow
  <2>4. /\ walk'.at = "walking" /\ walk'.ups = walk.ups /\ walk'.left = walk.left
    BY <2>2, <1>1, <1>5 DEF WalkRow
  <2>5. /\ h \notin Names(walk.found) /\ walk.found \in SUBSET Entries
        /\ IsFiniteSet(walk.found) /\ IsFiniteSet(Names(walk.found))
        /\ Cardinality(Names(walk.found)) = Cardinality(walk.found)
    BY <1>1, <1>5, <1>8 DEF Met, WalkRow
  <2>6. /\ Names(walk'.found) = Names(walk.found) \union {h}
        /\ IsFiniteSet(walk'.found) /\ IsFiniteSet(Names(walk'.found))
        /\ Cardinality(Names(walk'.found)) = Cardinality(walk'.found)
        /\ Cardinality(walk'.found) = Cardinality(walk.found) + 1 /\ Cardinality(walk.found) \in Nat
    BY <2>1, <2>3, <2>5, FoundMore
  <2>7. ClosureOf(walk', walk'.found) = ClosureOf(walk, walk.found)
    <3>1. walk'.roots = walk.roots /\ walk'.needs = walk.needs
      BY <2>2, <1>5 DEF WalkRow
    <3>. QED
      BY <3>1, <2>1, <2>3, <2>5, ClosureMore
  <2>8. Met'
    BY <2>3, <2>4, <2>6, <1>1, <1>4 DEF Met
  <2>9. ClosureRows' /\ Asking'
    BY <2>3, <2>4, <1>1, <1>4 DEF ClosureRows, Asking
  <2>10. PublicNeedsMiss'
    BY <2>1, <2>3, <2>4, <1>1 DEF PublicNeedsMiss
  <2>11. Waiting'
    <3>1. MaxClosure \in Nat /\ Cardinality(walk.found) < MaxClosure
      BY <1>8, <2>6, ClosureAssumption
    <3>. QED
      BY <2>3, <2>7, <3>1, <1>1, <1>3 DEF Waiting
  <2>. QED
    BY <2>8, <2>9, <2>10, <2>11 DEF ClosureIInv
<1>9. CASE h \notin walk.seen /\ ~(Cardinality(walk.found) >= MaxClosure) /\ h \notin walk.has
  <2>1. walk' = [walk EXCEPT !.queue = t, !.seen = @ \union {h}, !.at = h, !.left = walk.ups]
    BY <1>9 DEF Take, h, t
  <2>2. walk' \in WalkRow /\ walk'.queue = t /\ walk'.seen = walk.seen \union {h}
        /\ walk'.at = h /\ walk'.left = walk.ups
    BY <2>1, <1>3, <1>5 DEF WalkRow
  <2>3. walk'.found = walk.found /\ walk'.ups = walk.ups /\ ClosureOf(walk', walk.found) = ClosureOf(walk, walk.found)
    BY <2>1, <1>5 DEF WalkRow, ClosureOf
  <2>4. ClosureRows' /\ PublicNeedsMiss'
    BY <2>2, <2>3, <1>1 DEF ClosureRows, PublicNeedsMiss
  <2>5. Asking'
    BY <2>2, <2>3, <1>1 DEF Asking
  <2>6. Met'
    BY <2>2, <2>3, <1>1, <1>3, <1>4, <1>9 DEF Met
  <2>7. Waiting'
    <3>1. walk'.seen \union Range(walk'.queue) = walk.seen \union Range(walk.queue)
      BY <2>2, <1>3
    <3>. QED
      BY <2>3, <3>1, <1>1 DEF Waiting
  <2>. QED
    BY <2>4, <2>5, <2>6, <2>7 DEF ClosureIInv
<1>. QED
  BY <1>6, <1>7, <1>8, <1>9

(* The first upstream that has a name resolves it: what was asked before it *)
(* did not come up with it, and a public one has no private one behind it.  *)
LEMMA FoundKeeps ==
    ASSUME ClosureIInv, Found
    PROVE  ClosureIInv'
<1>. DEFINE d == walk.at
            u == Head(walk.left)
            status == IF u \in Private THEN "private" ELSE "public"
            e == Entry(d, status, u)
<1>1. /\ d \in Dep /\ walk.left # <<>> /\ UNCHANGED <<present, known, plan, adding, jobs, missed>>
      /\ ClosureRows /\ Asking /\ Met /\ Waiting /\ PublicNeedsMiss /\ walk \in WalkRow
  BY DEF Found, ClosureIInv, ClosureRows
<1>0. PICK more \in Requires[u][d] : \E next \in SetToSeqs(more) :
        walk' = [walk EXCEPT !.at = "walking", !.left = <<>>, !.queue = @ \o next,
                   !.needs = [@ EXCEPT ![d] = more], !.found = @ \union {e}]
  BY DEF Found
<1>2. PICK next \in SetToSeqs(more) :
        walk' = [walk EXCEPT !.at = "walking", !.left = <<>>, !.queue = @ \o next,
                   !.needs = [@ EXCEPT ![d] = more], !.found = @ \union {e}]
  BY <1>0
<1>3. IsFiniteSet(more) /\ more \subseteq Dep
  <2>1. walk.left \in Seq(Ups)
    BY <1>1 DEF WalkRow
  <2>2. u \in Ups
    BY <2>1, <1>1
  <2>3. more \subseteq Dep
    BY <2>2, <1>0, <1>1, ClosureAssumption DEF Ups
  <2>. QED
    BY <2>3, ClosureAssumption, FS_Subset
<1>4. next \in Seq(more) /\ Range(next) = more
  BY <1>3, SeqsOf
<1>5. next \in Seq(Dep) /\ walk.queue \in Seq(Dep) /\ walk.left \in Seq(Ups)
  BY <1>1, <1>3, <1>4 DEF WalkRow
<1>6. /\ walk.queue \o next \in Seq(Dep)
      /\ Range(walk.queue \o next) = Range(walk.queue) \union more
  BY <1>4, <1>5, RangeConcat
<1>7. u \in Ups /\ (u \notin Private => Range(walk.left) \intersect Private = {})
  BY <1>1, <1>5, RangeTail, SortedTail DEF Asking
<1>8. e \in Entries /\ e.name = d /\ e.status = status
  BY <1>1, <1>7 DEF Entry, Entries
<1>9. status \in {"private", "public"} /\ (status = "public" => u \notin Private)
  OBVIOUS
<1>. HIDE DEF e, status, u
<1>10. <<>> \in Seq(Ups) /\ Sorted(<<>>)
  BY DEF Sorted
<1>. DEFINE needs == [walk.needs EXCEPT ![d] = more]
<1>22. needs \in [Dep -> SUBSET Dep]
  BY <1>1, <1>3 DEF WalkRow
<1>23. walk' = [walk EXCEPT !.at = "walking", !.left = <<>>, !.queue = @ \o next,
                 !.needs = needs, !.found = @ \union {e}]
  BY <1>2
<1>. HIDE DEF needs
<1>11. walk' \in WalkRow /\ walk'.roots = walk.roots /\ walk'.needs = needs
  BY <1>1, <1>23, <1>22, <1>6, <1>8, <1>10 DEF WalkRow
<1>12. /\ walk'.at = "walking" /\ walk'.left = <<>> /\ walk'.queue = walk.queue \o next
       /\ walk'.found = walk.found \union {e} /\ walk'.seen = walk.seen /\ walk'.ups = walk.ups
  BY <1>1, <1>23 DEF WalkRow
<1>13. /\ d \notin Names(walk.found) /\ walk.found \in SUBSET Entries /\ "walking" \notin Dep
       /\ IsFiniteSet(walk.found) /\ IsFiniteSet(Names(walk.found))
       /\ Cardinality(Names(walk.found)) = Cardinality(walk.found)
  BY <1>1, ClosureAssumption DEF Met, WalkRow
<1>14. /\ Names(walk'.found) = Names(walk.found) \union {d}
       /\ IsFiniteSet(walk'.found) /\ IsFiniteSet(Names(walk'.found))
       /\ Cardinality(Names(walk'.found)) = Cardinality(walk'.found)
       /\ Cardinality(walk'.found) = Cardinality(walk.found) + 1 /\ Cardinality(walk.found) \in Nat
  BY <1>8, <1>12, <1>13, FoundMore
<1>15. ClosureOf(walk', walk'.found) = ClosureOf(walk, walk.found) \union more
  <2>1. walk'.needs = [walk.needs EXCEPT ![e.name] = more] /\ e.name \notin Names(walk.found)
    BY <1>8, <1>11, <1>13 DEF needs
  <2>2. ClosureOf(walk', walk.found \union {e}) = ClosureOf(walk, walk.found) \union more
    <3>1. e.status \in {"private", "public"}
      BY <1>8, <1>9
    <3>. QED
      BY <3>1, <2>1, <1>1, <1>8, <1>11, <1>13, ClosureFurther
  <2>. QED
    BY <2>2, <1>12
<1>16. ClosureRows'
  BY <1>1, <1>11 DEF ClosureRows
<1>17. Asking'
  BY <1>1, <1>10, <1>12, <1>13 DEF Asking
<1>18. Names(walk.found) \subseteq Dep
  BY <1>13 DEF Names, Entries
<1>19. Met'
  <2>1. walk.seen = Names(walk.found) \union {d}
    BY <1>1 DEF Met
  <2>2. walk'.seen = Names(walk'.found) /\ "walking" \notin Names(walk'.found)
    BY <1>1, <1>12, <1>13, <1>14, <1>18, <2>1
  <2>3. {"walking"} \intersect Dep = {}
    BY <1>13
  <2>. QED
    BY <2>2, <2>3, <1>12, <1>14 DEF Met
<1>20. Waiting'
  <2>. SUFFICES ASSUME Cardinality(walk'.found) < MaxClosure
       PROVE  walk'.seen \union Range(walk'.queue) = ClosureOf(walk', walk'.found)
    BY DEF Waiting
  <2>1. Cardinality(walk.found) < MaxClosure
    BY <1>14, ClosureAssumption
  <2>2. walk.seen \union Range(walk.queue) = ClosureOf(walk, walk.found)
    BY <1>1, <2>1 DEF Waiting
  <2>. QED
    BY <1>6, <1>12, <1>15, <2>2
<1>21. PublicNeedsMiss'
  <2>. SUFFICES ASSUME NEW f \in walk'.found, f.status = "public"
       PROVE  Range(walk.ups) \intersect Private \subseteq missed[f.name]
    BY <1>1, <1>12 DEF PublicNeedsMiss
  <2>1. CASE f \in walk.found
    BY <2>1, <1>1 DEF PublicNeedsMiss
  <2>2. CASE f = e
    BY <2>2, <1>1, <1>7, <1>8, <1>9 DEF Asking
  <2>. QED
    BY <1>12, <2>1, <2>2
<1>. QED
  BY <1>16, <1>17, <1>19, <1>20, <1>21 DEF ClosureIInv

LEMMA NotFoundKeeps ==
    ASSUME ClosureIInv, NotFound
    PROVE  ClosureIInv'
<1>. DEFINE d == walk.at
            u == Head(walk.left)
            t == Tail(walk.left)
<1>1. /\ d \in Dep /\ walk.left # <<>> /\ UNCHANGED <<present, known, plan, adding, jobs>>
      /\ walk' = [walk EXCEPT !.left = t] /\ missed' = [missed EXCEPT ![d] = @ \union {u}]
      /\ ClosureRows /\ Asking /\ Met /\ Waiting /\ PublicNeedsMiss /\ walk \in WalkRow
      /\ missed \in [Dep -> SUBSET Ups]
  BY DEF NotFound, ClosureIInv, ClosureRows
<1>2. walk.left \in Seq(Ups)
  BY <1>1 DEF WalkRow
<1>3. /\ u \in Ups /\ t \in Seq(Ups) /\ Range(walk.left) = {u} \union Range(t) /\ Sorted(t)
  BY <1>1, <1>2, RangeTail, SortedTail DEF Asking
<1>. HIDE DEF u, t
<1>4. walk' \in WalkRow /\ walk'.left = t
  BY <1>1, <1>3 DEF WalkRow
<1>5. /\ walk'.at = walk.at /\ walk'.seen = walk.seen /\ walk'.found = walk.found
      /\ walk'.ups = walk.ups /\ walk'.queue = walk.queue
      /\ ClosureOf(walk', walk.found) = ClosureOf(walk, walk.found)
  BY <1>1 DEF WalkRow, ClosureOf
<1>6. /\ missed' \in [Dep -> SUBSET Ups] /\ missed'[d] = missed[d] \union {u}
      /\ \A x \in Dep : missed[x] \subseteq missed'[x]
  BY <1>1, <1>3
<1>7. ClosureRows' /\ Met' /\ Waiting'
  BY <1>1, <1>4, <1>5, <1>6 DEF ClosureRows, Met, Waiting
<1>8. Asking'
  BY <1>1, <1>3, <1>4, <1>5, <1>6 DEF Asking
<1>9. PublicNeedsMiss'
  <2>. SUFFICES ASSUME NEW f \in walk.found, f.status = "public"
       PROVE  Range(walk.ups) \intersect Private \subseteq missed'[f.name]
    BY <1>5 DEF PublicNeedsMiss
  <2>1. f.name \in Dep
    BY <1>1 DEF WalkRow, Entries
  <2>. QED
    BY <2>1, <1>1, <1>6 DEF PublicNeedsMiss
<1>. QED
  BY <1>7, <1>8, <1>9 DEF ClosureIInv

LEMMA MissingKeeps ==
    ASSUME ClosureIInv, Missing
    PROVE  ClosureIInv'
<1>. DEFINE d == walk.at
            e == Entry(d, "missing", Nobody)
<1>1. /\ d \in Dep /\ UNCHANGED <<present, known, plan, adding, jobs, missed>>
      /\ walk' = [walk EXCEPT !.at = "walking", !.found = @ \union {e}]
      /\ ClosureRows /\ Asking /\ Met /\ Waiting /\ PublicNeedsMiss /\ walk \in WalkRow
  BY DEF Missing, ClosureIInv, ClosureRows
<1>2. e \in Entries /\ e.name = d /\ e.status = "missing"
  BY <1>1 DEF Entry, Entries
<1>. HIDE DEF e
<1>3. walk' \in WalkRow
  BY <1>1, <1>2 DEF WalkRow
<1>4. /\ walk'.at = "walking" /\ walk'.left = walk.left /\ walk'.queue = walk.queue
      /\ walk'.found = walk.found \union {e} /\ walk'.seen = walk.seen /\ walk'.ups = walk.ups
  BY <1>1 DEF WalkRow
<1>5. /\ d \notin Names(walk.found) /\ walk.found \in SUBSET Entries /\ "walking" \notin Dep
      /\ IsFiniteSet(walk.found) /\ IsFiniteSet(Names(walk.found))
      /\ Cardinality(Names(walk.found)) = Cardinality(walk.found)
  BY <1>1, ClosureAssumption DEF Met, WalkRow
<1>6. /\ Names(walk'.found) = Names(walk.found) \union {d}
      /\ IsFiniteSet(walk'.found) /\ IsFiniteSet(Names(walk'.found))
      /\ Cardinality(Names(walk'.found)) = Cardinality(walk'.found)
      /\ Cardinality(walk'.found) = Cardinality(walk.found) + 1 /\ Cardinality(walk.found) \in Nat
  BY <1>2, <1>4, <1>5, FoundMore
<1>7. ClosureOf(walk', walk'.found) = ClosureOf(walk, walk.found)
  <2>1. walk'.roots = walk.roots /\ walk'.needs = walk.needs
    BY <1>1 DEF WalkRow
  <2>. QED
    BY <2>1, <1>2, <1>4, <1>5, ClosureMore
<1>8. Names(walk.found) \subseteq Dep
  BY <1>5 DEF Names, Entries
<1>9. ClosureRows' /\ Asking'
  BY <1>1, <1>3, <1>4, <1>5 DEF ClosureRows, Asking
<1>10. Met'
  <2>1. walk.seen = Names(walk.found) \union {d}
    BY <1>1 DEF Met
  <2>2. walk'.seen = Names(walk'.found) /\ "walking" \notin Names(walk'.found)
    BY <1>1, <1>4, <1>5, <1>6, <1>8, <2>1
  <2>3. {"walking"} \intersect Dep = {}
    BY <1>5
  <2>. QED
    BY <2>2, <2>3, <1>4, <1>6 DEF Met
<1>11. Waiting'
  <2>1. Cardinality(walk'.found) < MaxClosure => Cardinality(walk.found) < MaxClosure
    BY <1>6, ClosureAssumption
  <2>. QED
    BY <2>1, <1>1, <1>4, <1>7 DEF Waiting
<1>12. PublicNeedsMiss'
  BY <1>1, <1>2, <1>4 DEF PublicNeedsMiss
<1>. QED
  BY <1>9, <1>10, <1>11, <1>12 DEF ClosureIInv

LEMMA StoreKeeps ==
    ASSUME ClosureIInv, Store \/ Dies
    PROVE  ClosureIInv'
<1>1. walk' = Idle /\ plan' \subseteq Entries
  BY DEF Store, Dies, ClosureIInv, ClosureRows, WalkRow
<1>2. ClosureRows'
  BY <1>1, IdleWalk DEF Store, Dies, ClosureIInv, ClosureRows
<1>. QED
  BY <1>1, <1>2, IdleKeeps

LEMMA MeanwhileKeeps ==
    ASSUME ClosureIInv, Meanwhile
    PROVE  ClosureIInv'
<1>1. UNCHANGED <<walk, missed>> /\ ClosureRows
  BY DEF Meanwhile, ClosureIInv
<1>2. ClosureRows'
  <2>1. ASSUME NEW d \in Dep, FindDep(d)
        PROVE  ClosureRows'
    <3>1. PICK e \in PlanEntries(d) : e.resolver # Nobody /\ adding' = <<e.resolver, d>>
      BY <2>1 DEF FindDep
    <3>2. e.resolver \in Ups
      BY <3>1, <1>1 DEF PlanEntries, ClosureRows, Entries
    <3>. QED
      BY <2>1, <3>1, <3>2, <1>1 DEF FindDep, ClosureRows
  <2>2. ASSUME NEW j \in jobs, RunJob(j)
        PROVE  ClosureRows'
    <3>1. j[2] \in Dep
      BY <1>1 DEF ClosureRows
    <3>. QED
      BY <2>2, <3>1, <1>1 DEF RunJob, ClosureRows
  <2>3. ASSUME NEW u \in known, Drop(u)
        PROVE  ClosureRows'
    <3>1. \A e \in plan : [e EXCEPT !.resolver = Nobody] \in Entries
      BY <1>1 DEF ClosureRows, Entries
    <3>2. plan' \subseteq Entries
      BY <2>3, <3>1, <1>1 DEF Drop, ClosureRows
    <3>. QED
      BY <2>3, <3>2, <1>1 DEF Drop, ClosureRows
  <2>. QED
    BY <2>1, <2>2, <2>3 DEF Meanwhile
<1>3. Asking' /\ Met' /\ Waiting' /\ PublicNeedsMiss'
  BY <1>1 DEF ClosureIInv, Asking, Met, Waiting, PublicNeedsMiss
<1>. QED
  BY <1>2, <1>3 DEF ClosureIInv

LEMMA AddDepKeeps ==
    ASSUME ClosureIInv, AddDep
    PROVE  ClosureIInv'
<1>1. UNCHANGED <<present, known, walk, plan, missed>> /\ adding' = <<>> /\ ClosureRows
  BY DEF AddDep, ClosureIInv
<1>2. jobs' \subseteq Ups \X Dep
  BY <1>1 DEF AddDep, ClosureRows
<1>3. ClosureRows'
  BY <1>1, <1>2 DEF ClosureRows
<1>4. Asking' /\ Met' /\ Waiting' /\ PublicNeedsMiss'
  BY <1>1 DEF ClosureIInv, Asking, Met, Waiting, PublicNeedsMiss
<1>. QED
  BY <1>3, <1>4 DEF ClosureIInv

LEMMA ClosureStarts == ClosureInit => ClosureIInv
<1>. SUFFICES ASSUME ClosureInit
     PROVE  ClosureIInv
  OBVIOUS
<1>1. walk = Idle /\ walk \in WalkRow
  BY IdleWalk DEF ClosureInit
<1>2. walk.at = "idle" /\ walk.found = {} /\ walk.seen = {} /\ walk.ups = <<>> /\ walk.left = <<>>
  BY <1>1 DEF Idle
<1>3. Names({}) = {} /\ IsFiniteSet({}) /\ "idle" \notin Dep
  BY FS_EmptySet, ClosureAssumption DEF Names
<1>4. ClosureRows
  BY <1>1 DEF ClosureInit, ClosureRows, Ups
<1>5. Asking
  BY <1>2, <1>3 DEF Asking, Sorted
<1>6. Met
  BY <1>2, <1>3 DEF Met
<1>7. Waiting /\ PublicNeedsMiss
  BY <1>2, <1>3 DEF Waiting, PublicNeedsMiss
<1>. QED
  BY <1>4, <1>5, <1>6, <1>7 DEF ClosureIInv

LEMMA ClosureInvariant == ClosureSpec => []ClosureIInv
<1>1. ClosureIInv /\ [ClosureNext]_closureVars => ClosureIInv'
  <2>. SUFFICES ASSUME ClosureIInv, [ClosureNext]_closureVars
       PROVE  ClosureIInv'
    OBVIOUS
  <2>1. CASE UNCHANGED closureVars
    BY <2>1 DEF closureVars, ClosureIInv, ClosureRows, Asking, Met, Waiting, PublicNeedsMiss
  <2>. QED
    BY <2>1, ReadPresentKeeps, ReadUpstreamsKeeps, ReadRequiresKeeps, TakeKeeps, FoundKeeps, NotFoundKeeps,
       MissingKeeps, StoreKeeps, MeanwhileKeeps, AddDepKeeps DEF ClosureNext
<1>. QED
  BY ClosureStarts, <1>1, PTL DEF ClosureSpec

(* Private wins on ambiguity: for any upstreams and dependencies, and        *)
(* whatever a registry answers when, resolve_closure puts a name down to a  *)
(* public upstream only after every private one did not come up with it.    *)
THEOREM PrivateWins == ClosureSpec => []PublicNeedsMiss
<1>1. ClosureIInv => PublicNeedsMiss
  BY DEF ClosureIInv
<1>. QED
  BY <1>1, ClosureInvariant, PTL

(* A walk that was not cut at MAX_CLOSURE plans the whole closure, each name *)
(* once and nothing else (resolve_closure).                                  *)
THEOREM PlanWhole == ClosureSpec => []PlanClosed
<1>1. ClosureIInv => PlanClosed
  <2>. SUFFICES ASSUME ClosureIInv, walk.at = "walking", walk.queue = <<>>,
                       Cardinality(walk.found) < MaxClosure
       PROVE  /\ Names(walk.found) = ClosureOf(walk, walk.found)
              /\ Cardinality(Names(walk.found)) = Cardinality(walk.found)
    BY DEF PlanClosed, ClosureOf, Resolved
  <2>1. Range(<<>>) = {} /\ "walking" \notin Dep
    BY ClosureAssumption DEF Range
  <2>2. walk.seen = Names(walk.found) /\ Cardinality(Names(walk.found)) = Cardinality(walk.found)
    BY <2>1 DEF ClosureIInv, Met
  <2>3. walk.seen \union Range(walk.queue) = ClosureOf(walk, walk.found)
    BY DEF ClosureIInv, Waiting
  <2>. QED
    BY <2>1, <2>2, <2>3
<1>. QED
  BY <1>1, ClosureInvariant, PTL

-----------------------------------------------------------------------------
(* The foreign keys of the plan and of the jobs queued from it.             *)

PlanKeyed ==
    /\ \A j \in jobs : j[1] \in known
    /\ \A e \in plan : e.resolver \in known \union {Nobody}

LEMMA StoreKeyed ==
    ASSUME PlanKeyed, Store
    PROVE  PlanKeyed'
<1>1. CASE plan' = plan
  BY <1>1 DEF Store, PlanKeyed
<1>2. CASE plan' # plan
  BY <1>2 DEF Store, PlanKeyed
<1>. QED
  BY <1>1, <1>2

LEMMA DropKeyed ==
    ASSUME ClosureRows, PlanKeyed, NEW u \in known, Drop(u)
    PROVE  PlanKeyed'
<1>1. /\ known' = known \ {u} /\ jobs' = {j \in jobs : j[1] # u}
      /\ plan' = {IF e.resolver = u THEN [e EXCEPT !.resolver = Nobody] ELSE e : e \in plan}
  BY DEF Drop
<1>2. \A j \in jobs' : j[1] \in known'
  BY <1>1 DEF PlanKeyed
<1>3. ASSUME NEW e \in plan'
      PROVE  e.resolver \in known' \union {Nobody}
  <2>1. PICK f \in plan : e = IF f.resolver = u THEN [f EXCEPT !.resolver = Nobody] ELSE f
    BY <1>1, <1>3
  <2>2. f \in Entries /\ f.resolver \in known \union {Nobody}
    BY DEF ClosureRows, PlanKeyed
  <2>3. CASE f.resolver = u
    BY <2>1, <2>2, <2>3 DEF Entries
  <2>4. CASE f.resolver # u
    BY <2>1, <2>2, <2>4, <1>1
  <2>. QED
    BY <2>3, <2>4
<1>. QED
  BY <1>2, <1>3 DEF PlanKeyed

LEMMA MeanwhileKeyed ==
    ASSUME ClosureRows, PlanKeyed, Meanwhile
    PROVE  PlanKeyed'
<1>1. ASSUME NEW d \in Dep, FindDep(d)
      PROVE  PlanKeyed'
  BY <1>1 DEF FindDep, PlanKeyed
<1>2. ASSUME NEW j \in jobs, RunJob(j)
      PROVE  PlanKeyed'
  BY <1>2 DEF RunJob, PlanKeyed
<1>. QED
  BY <1>1, <1>2, DropKeyed DEF Meanwhile

(* What waits to be mirrored is wanted of an upstream there still is, and a *)
(* stored plan names only upstreams there are, whatever is deleted while a  *)
(* walk that found them goes on (replace_dependency_plan, delete_upstream). *)
THEOREM ClosureTypesCorrect == ClosureSpec => []ClosureTypes
<1>1. ClosureInit => PlanKeyed
  BY DEF ClosureInit, PlanKeyed
<1>2. ClosureIInv /\ PlanKeyed /\ [ClosureNext]_closureVars => PlanKeyed'
  <2>. SUFFICES ASSUME ClosureIInv, PlanKeyed, [ClosureNext]_closureVars
       PROVE  PlanKeyed'
    OBVIOUS
  <2>1. CASE UNCHANGED <<known, plan, jobs>>
    BY <2>1 DEF PlanKeyed
  <2>3. CASE AddDep
    BY <2>3 DEF AddDep, PlanKeyed
  <2>2. Store \/ Meanwhile \/ AddDep \/ UNCHANGED <<known, plan, jobs>>
    BY DEF ClosureNext, closureVars, ReadPresent, ReadUpstreams, ReadRequires, Take, Found, NotFound, Missing, Dies
  <2>. QED
    BY <2>1, <2>2, <2>3, StoreKeyed, MeanwhileKeyed DEF ClosureIInv
<1>3. ClosureIInv /\ PlanKeyed => ClosureTypes
  BY DEF ClosureIInv, ClosureRows, WalkRow, PlanKeyed, ClosureTypes
<1>. QED
  BY <1>1, <1>2, <1>3, ClosureInvariant, PTL DEF ClosureSpec
=============================================================================
