----------------------------- MODULE ReadCache -----------------------------
(***************************************************************************)
(* HTTP caching of the read routes (sconce-server cache.rs): the directives *)
(* the middleware puts on each answer, and a shared cache in front of the   *)
(* server that obeys them (external: any CDN).  One URL, a document or a    *)
(* dist; a tick is a minute, and DistAge stands for a day.                  *)
(***************************************************************************)
EXTENDS Naturals, FiniteSets

CONSTANTS Client,      \* whoever asks; Nobody sends no Authorization
          Nobody,
          MetaAge, RedirectAge, DistAge,  \* METADATA_, REDIRECT_, DIST_MAX_AGE
          PresignAge,  \* DIST_PRESIGN_SECS
          Latency,     \* bound: ticks an answer takes to reach the cache
          MaxTime,     \* bound: the clock's last tick
          MaxFlight,   \* bound: answers on their way at once
          MaxTurns     \* bound: times the package or its document changes

\* The last conjunct is the assertion the module is compiled with.
ASSUME ReadCacheAssumption ==
  /\ Nobody \in Client
  /\ {MetaAge, RedirectAge, DistAge, PresignAge, Latency, MaxTime, MaxFlight, MaxTurns} \subseteq Nat
  /\ RedirectAge * 2 < PresignAge

\* The margin it asserts is there for the network: an answer is not under way
\* for longer than a redirect leaves of its signature.
ASSUME DeliveryAssumption == Latency + RedirectAge < PresignAge

VARIABLES now,       \* the minute
          url,       \* what is read: a metadata document or a dist
          presigns,  \* the store mints presigned URLs (object-store backend)
          open,      \* the package is anonymously readable
          rev,       \* revision of the metadata document
          past,      \* ghost: minute -> the revisions current then, and whether open
          flight,    \* the origin's answers on their way
          stored,    \* the shared cache: Authorization -> entry
          handed     \* the last answer a client was handed
cacheVars == <<now, url, presigns, open, rev, past, flight, stored, handed>>

Url == {"meta", "dist"}
Revs == 0..MaxTurns
Body == [what : {"refused", "none", "empty", "doc", "bytes", "url"}, for : Client,
         rev : Revs, expires : 0..(MaxTime + PresignAge)]
Refused == [what |-> "refused", for |-> Nobody, rev |-> 0, expires |-> 0]
NoBody == [Refused EXCEPT !.what = "none"]

\* The middleware: scope and life by the kind of read and its status.
\* (A renamed slug's 301 keeps its defaults and is left out.)
Scope(anonymous) == IF anonymous THEN "public" ELSE "private"
MaxAge(body) == CASE body.what \in {"doc", "empty"} -> MetaAge
                  [] body.what = "bytes" -> DistAge
                  [] body.what = "url" -> RedirectAge
\* Mutant: the answer does not vary on Authorization.
Cache_NoVary(body, anonymous) ==
  IF body.what = "refused" THEN [scope |-> "no-store", life |-> 0, vary |-> FALSE]
  ELSE [scope |-> Scope(anonymous), life |-> MaxAge(body), vary |-> FALSE]

Cache(body, anonymous) ==
  IF body.what = "refused" THEN [scope |-> "no-store", life |-> 0, vary |-> TRUE]
  ELSE [scope |-> Scope(anonymous), life |-> MaxAge(body), vary |-> TRUE]

\* serve_blob: a redirect signed now, or the bytes.
ServeBlob(who) ==
  IF presigns THEN [what |-> "url", for |-> who, rev |-> 0, expires |-> now + PresignAge]
  ELSE [what |-> "bytes", for |-> who, rev |-> 0, expires |-> 0]

\* What the handler answers: nobody reads only what is open (Serving).
\* A document nobody may read is refused where the repository lets nobody in,
\* and is an empty one where it does but the package is not readable.
Handler(who) ==
  IF who = Nobody /\ ~open
  THEN {Refused} \cup {b \in {[Refused EXCEPT !.what = "empty", !.for = who]} : url = "meta"}
  ELSE {IF url = "meta" THEN [what |-> "doc", for |-> who, rev |-> rev, expires |-> 0]
        ELSE ServeBlob(who)}

\* An If-None-Match that names the document the origin would send.
MatchesEtag(held, body) == body.what \in {"doc", "empty"} /\ held = body

Entry == [body : Body, till : Nat]
NoEntry == [body |-> NoBody, till |-> 0]

Fresh(e) == e.body # NoBody /\ now < e.till

\* A request the cache cannot answer goes to the origin, with the tag of the
\* copy it holds; the answer is under way with its directives.
Forward(who) ==
  /\ ~Fresh(stored[who]) /\ Cardinality(flight) < MaxFlight
  /\ \E body \in Handler(who) :
       flight' = flight \cup {[who |-> who, body |-> body, sent |-> now,
                              unchanged |-> MatchesEtag(stored[who].body, body),
                              control |-> Cache(body, who = Nobody)]}
  /\ UNCHANGED <<now, url, presigns, open, rev, past, stored, handed>>

\* It arrives: the client gets it, and a shared cache keeps what is public,
\* for the Authorization it varies on.  A 304 renews the copy it names.
Arrive(f) ==
  LET kept == [body |-> f.body, till |-> now + f.control.life]
  IN /\ flight' = flight \ {f}
     /\ handed' = [to |-> f.who, body |-> f.body]
     /\ stored' = IF /\ f.control.scope = "public"
                     /\ f.unchanged => stored[f.who].body = f.body
                  THEN [c \in Client |-> IF c = f.who \/ ~f.control.vary THEN kept
                                         ELSE stored[c]]
                  ELSE stored
     /\ UNCHANGED <<now, url, presigns, open, rev, past>>

Hit(who) ==
  /\ Fresh(stored[who])
  /\ handed' = [to |-> who, body |-> stored[who].body]
  /\ UNCHANGED <<now, url, presigns, open, rev, past, flight, stored>>

Note(t, r, o) == past' = [past EXCEPT ![t] = [revs |-> @.revs \cup {r}, open |-> @.open \cup {o}]]

\* The package is declared private or public again, or a version is held or approved.
Turn ==
  /\ rev < MaxTurns /\ rev' = rev + 1
  /\ open' \in BOOLEAN
  /\ Note(now, rev', open')
  /\ UNCHANGED <<now, url, presigns, flight, stored, handed>>

Minute ==
  /\ now < MaxTime /\ \A f \in flight : now < f.sent + Latency
  /\ now' = now + 1 /\ Note(now', rev, open)
  /\ handed' = [to |-> Nobody, body |-> NoBody]
  /\ UNCHANGED <<url, presigns, open, rev, flight, stored>>

CacheInit ==
  /\ now = 0 /\ url \in Url /\ presigns \in BOOLEAN /\ open \in BOOLEAN /\ rev = 0
  /\ past = [t \in 0..MaxTime |-> [revs |-> IF t = 0 THEN {0} ELSE {}, open |-> IF t = 0 THEN {open} ELSE {}]]
  /\ flight = {}
  /\ stored = [c \in Client |-> NoEntry]
  /\ handed = [to |-> Nobody, body |-> NoBody]

CacheNext ==
  \/ \E who \in Client : Forward(who) \/ Hit(who)
  \/ \E f \in flight : Arrive(f)
  \/ Turn \/ Minute

CacheSpec == CacheInit /\ [][CacheNext]_cacheVars

CacheTypes ==
  /\ now \in 0..MaxTime /\ url \in Url /\ presigns \in BOOLEAN /\ open \in BOOLEAN /\ rev \in Revs
  /\ stored \in [Client -> Entry]
  /\ handed.to \in Client /\ handed.body \in Body

\* ------------------------------------------------------------------------
\* The minutes an answer of this age may stem from.
Within(age) == {t \in 0..now : now <= t + age + Latency}

\* Whatever a client is handed, by the cache or the origin, was made for it; a
\* signature it is redirected to has not expired; a document was current, and
\* what nobody is handed was open, or what nobody is told is not there was not,
\* no longer ago than the max-age and the answer's way through the network
\* (cache, with_etag, serve_p2, serve_blob).
HandedInTime ==
  LET b == handed.body
  IN b.what \in {"empty", "doc", "bytes", "url"} =>
       /\ b.for = handed.to
       /\ b.what = "url" => now < b.expires
       /\ b.what = "doc" => \E t \in Within(MaxAge(b)) : b.rev \in past[t].revs
       /\ handed.to = Nobody => \E t \in Within(MaxAge(b)) : (b.what # "empty") \in past[t].open
=============================================================================
