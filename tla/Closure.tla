------------------------------ MODULE Closure -------------------------------
(* The dependency plan of a repository: resolve_closure walks what its        *)
(* packages require, breadth first, and asks one composer upstream after the  *)
(* other for the dependency; the plan replaces the stored one, and an         *)
(* operator adds entries of it, which queues a mirror job with the entry's    *)
(* resolver.  A registry may answer the next request differently, packages    *)
(* arrive and upstreams go while a walk is on.                                *)
EXTENDS FiniteSets, Naturals, SequencesExt

CONSTANTS
  Dep,           \* names with a vendor: the platform's requirements are left out
  Registry,      \* the composer upstreams, in the order they were created
  Private,       \* the private ones among them
  Requires,      \* registry -> name -> what its latest version listed may require
  Direct,        \* what the repository's own packages require
  Nobody,        \* no resolver
  MaxClosure,    \* MAX_CLOSURE
  MaxWalks, MaxMoves   \* bounds: jobs run, and what others do meanwhile

ASSUME ClosureAssumption ==
  /\ IsFiniteSet(Dep) /\ {"idle", "reading", "sorted", "walking"} \intersect Dep = {}
  /\ Registry \in Seq(Range(Registry)) /\ Nobody \notin Range(Registry)
  /\ Direct \subseteq Dep /\ Requires \in [Range(Registry) -> [Dep -> SUBSET SUBSET Dep]]
  /\ MaxClosure \in Nat

VARIABLES
  present,       \* the names the repository holds packages of
  known,         \* the upstreams there are
  walk,          \* the resolve_closure job under way
  plan,          \* dependency_plan: a set of [name, status, resolver]
  adding,        \* the entry an operator has looked up to add: <<upstream, name>>, or none
  jobs,          \* mirror_package jobs queued from it: <<upstream, name>>
  missed,        \* history: the upstreams that did not come up with a name in this walk
  walks, moves

closureVars == <<present, known, walk, plan, adding, jobs, missed, walks, moves>>

Idle == [at |-> "idle", has |-> {}, ups |-> <<>>, queue |-> <<>>, seen |-> {},
         found |-> {}, left |-> <<>>, roots |-> {}, needs |-> [d \in Dep |-> {}]]

Entry(d, status, u) == [name |-> d, status |-> status, resolver |-> u]
Names(entries) == {e.name : e \in entries}

Before(ups, u, v) == \E i, j \in DOMAIN ups : i < j /\ ups[i] = u /\ ups[j] = v

\* Mutant: the upstreams are asked in the order they were created.
PrivateFirst_Unsorted(ups) == {ups}

\* Private upstreams are asked first; apart from that the order stays.
PrivateFirst(ups) ==
  {s \in SetToSeqs(Range(ups)) : \A i, j \in DOMAIN s : i < j =>
     \/ s[i] \in Private /\ s[j] \notin Private
     \/ (s[i] \in Private <=> s[j] \in Private) /\ Before(ups, s[i], s[j])}

(* ---- resolve_closure ---------------------------------------------------- *)

\* all_package_names is read before the upstreams and the requires.
ReadPresent ==
  /\ walk = Idle /\ walks < MaxWalks /\ walks' = walks + 1
  /\ walk' = [Idle EXCEPT !.at = "reading", !.has = present]
  /\ missed' = [d \in Dep |-> {}]
  /\ UNCHANGED <<present, known, plan, adding, jobs, moves>>

ListUpstreams ==
  {s \in SetToSeqs(known) : \A i, j \in DOMAIN s : i < j => Before(Registry, s[i], s[j])}

ReadUpstreams ==
  /\ walk.at = "reading"
  /\ \E ups \in ListUpstreams : \E sorted \in PrivateFirst(ups) :
       walk' = [walk EXCEPT !.at = "sorted", !.ups = sorted]
  /\ UNCHANGED <<present, known, plan, adding, jobs, missed, walks, moves>>

\* repo_direct_requires: of the packages mirrored meanwhile, too, whatever versions
\* of theirs are stored.
Carried == UNION {UNION Requires[u][d] : u \in Range(Registry), d \in present}

ReadRequires ==
  /\ walk.at = "sorted"
  /\ \E roots \in {Direct \cup s : s \in SUBSET Carried} : \E first \in SetToSeqs(roots) :
       walk' = [walk EXCEPT !.at = "walking", !.queue = first, !.roots = roots]
  /\ UNCHANGED <<present, known, plan, adding, jobs, missed, walks, moves>>

\* The next name of the queue: dropped if it was met before, at the cap the walk is
\* cut, one the repository holds is not followed, and the others are asked for.
Upcoming == Head(walk.queue)

Take ==
  /\ walk.at = "walking" /\ walk.queue # <<>>
  /\ walk' =
       LET on == [walk EXCEPT !.queue = Tail(@), !.seen = @ \cup {Upcoming}]
       IN IF Upcoming \in walk.seen THEN [walk EXCEPT !.queue = Tail(@)]
          ELSE IF Cardinality(walk.found) >= MaxClosure THEN [walk EXCEPT !.queue = <<>>]
          ELSE IF Upcoming \in walk.has
               THEN [on EXCEPT !.found = @ \cup {Entry(Upcoming, "present", Nobody)}]
          ELSE [on EXCEPT !.at = Upcoming, !.left = walk.ups]
  /\ UNCHANGED <<present, known, plan, adding, jobs, missed, walks, moves>>

\* Mutant: what a public upstream resolves is not followed any further.
Found_PrivateOnly ==
  /\ walk.at \in Dep /\ walk.left # <<>>
  /\ LET u == Head(walk.left)
         status == IF u \in Private THEN "private" ELSE "public"
     IN \E needs \in Requires[u][walk.at] :
        \E next \in SetToSeqs(IF status = "private" THEN needs ELSE {}) :
          walk' = [walk EXCEPT !.at = "walking", !.left = <<>>, !.queue = @ \o next,
                     !.needs = [@ EXCEPT ![walk.at] = needs],
                     !.found = @ \cup {Entry(walk.at, status, u)}]
  /\ UNCHANGED <<present, known, plan, adding, jobs, missed, walks, moves>>

\* fetch_p2 finds the name: the first upstream that has it resolves it, and what the
\* latest version it lists just now requires is met later, in some order.
Found ==
  /\ walk.at \in Dep /\ walk.left # <<>>
  /\ LET u == Head(walk.left)
         status == IF u \in Private THEN "private" ELSE "public"
     IN \E needs \in Requires[u][walk.at] : \E next \in SetToSeqs(needs) :
          walk' = [walk EXCEPT !.at = "walking", !.left = <<>>, !.queue = @ \o next,
                     !.needs = [@ EXCEPT ![walk.at] = needs],
                     !.found = @ \cup {Entry(walk.at, status, u)}]
  /\ UNCHANGED <<present, known, plan, adding, jobs, missed, walks, moves>>

\* A 404, but also any failure to answer, passes the question on to the next one.
NotFound ==
  /\ walk.at \in Dep /\ walk.left # <<>>
  /\ walk' = [walk EXCEPT !.left = Tail(@)]
  /\ missed' = [missed EXCEPT ![walk.at] = @ \cup {Head(walk.left)}]
  /\ UNCHANGED <<present, known, plan, adding, jobs, walks, moves>>

Missing ==
  /\ walk.at \in Dep /\ walk.left = <<>>
  /\ walk' = [walk EXCEPT !.at = "walking", !.found = @ \cup {Entry(walk.at, "missing", Nobody)}]
  /\ UNCHANGED <<present, known, plan, adding, jobs, missed, walks, moves>>

\* replace_dependency_plan, in one transaction: a resolver deleted meanwhile fails
\* its foreign key, and the stored plan stays.
Store ==
  /\ walk.at = "walking" /\ walk.queue = <<>>
  /\ plan' = IF \A e \in walk.found : e.resolver \in known \cup {Nobody} THEN walk.found ELSE plan
  /\ walk' = Idle
  /\ UNCHANGED <<present, known, adding, jobs, missed, walks, moves>>

Dies ==
  /\ walk # Idle
  /\ walk' = Idle
  /\ UNCHANGED <<present, known, plan, adding, jobs, missed, walks, moves>>

(* ---- meanwhile ---------------------------------------------------------- *)

PlanEntries(d) == {e \in plan : e.name = d}

\* deps add: only an entry with a resolver can be added ...
FindDep(d) ==
  /\ adding = <<>>
  /\ \E e \in PlanEntries(d) : e.resolver # Nobody /\ adding' = <<e.resolver, d>>
  /\ UNCHANGED <<present, known, plan, jobs>>

\* ... and a job that waits for the same package of the same upstream already is
\* enough; an upstream deleted meanwhile fails the foreign key.
AddDep ==
  /\ adding # <<>>
  /\ jobs' = jobs \cup {j \in {adding} : j[1] \in known}
  /\ adding' = <<>>
  /\ UNCHANGED <<present, known, walk, plan, missed, walks, moves>>

\* The job is run: its package is mirrored, or the job fails for good.
RunJob(j) ==
  /\ jobs' = jobs \ {j}
  /\ \/ present' = present \cup {j[2]}
     \/ UNCHANGED present
  /\ UNCHANGED <<known, plan, adding>>

\* delete_upstream: its jobs go with it, and plan entries lose their resolver.
Drop(u) ==
  /\ u \in known
  /\ known' = known \ {u}
  /\ jobs' = {j \in jobs : j[1] # u}
  /\ plan' = {IF e.resolver = u THEN [e EXCEPT !.resolver = Nobody] ELSE e : e \in plan}
  /\ UNCHANGED <<present, adding>>

Meanwhile ==
  /\ moves < MaxMoves /\ moves' = moves + 1
  /\ \/ \E d \in Dep : FindDep(d)
     \/ \E j \in jobs : RunJob(j)
     \/ \E u \in known : Drop(u)
  /\ UNCHANGED <<walk, missed, walks>>

ClosureInit ==
  /\ present = {} /\ known = Range(Registry) /\ walk = Idle
  /\ plan = {} /\ adding = <<>> /\ jobs = {} /\ missed = [d \in Dep |-> {}] /\ walks = 0 /\ moves = 0

ClosureNext ==
  \/ ReadPresent \/ ReadUpstreams \/ ReadRequires \/ Take \/ Found \/ NotFound \/ Missing
  \/ Store \/ Dies \/ Meanwhile \/ AddDep

ClosureSpec == ClosureInit /\ [][ClosureNext]_closureVars

(* ---- properties --------------------------------------------------------- *)

\* "Private wins on ambiguity": a name is put down to a public upstream only when
\* every private one that was known to the walk did not come up with it - which
\* includes that it could not be reached.
PublicNeedsMiss ==
  \A e \in walk.found :
    e.status = "public" => Range(walk.ups) \cap Private \subseteq missed[e.name]

\* The plan that is stored is the whole closure: what the repository requires and
\* what every resolved entry requires is an entry too, each name once, unless the
\* walk was cut at its cap; and nothing else is in it.
PlanClosed ==
  (walk.at = "walking" /\ walk.queue = <<>> /\ Cardinality(walk.found) < MaxClosure) =>
    LET resolved == {e \in walk.found : e.status \in {"private", "public"}}
    IN /\ Names(walk.found) = walk.roots \cup UNION {walk.needs[e.name] : e \in resolved}
       /\ Cardinality(Names(walk.found)) = Cardinality(walk.found)

\* A job that waits is one of an upstream there still is, for a package of the plan
\* or of an earlier one.
ClosureTypes ==
  /\ walk.at \in {"idle", "reading", "sorted", "walking"} \cup Dep
  /\ \A j \in jobs : j[1] \in known
  /\ \A e \in plan : e.resolver \in known \cup {Nobody}

=============================================================================
