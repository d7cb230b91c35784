------------------------------ MODULE RateLimit ------------------------------
(***************************************************************************)
(* The limiter in front of the admin UI's credentials: a sliding window of *)
(* attempts for each key, in the memory of one process.  Sign-ins, links   *)
(* and resets ask and count in one critical section; basic authentication  *)
(* counts failures only, and asks in one section and counts in another.    *)
(***************************************************************************)
EXTENDS Integers, FiniteSets, Sequences

CONSTANTS
    Keys,           \* keys of attempts: an address or an e-mail with a prefix
    BasicKeys,      \* keys of failures
    Clients,        \* requests of basic authentication in flight
    Limit,          \* how many a window admits, of each key
    Window,         \* how long a window is
    MaxWindow,      \* MAX_WINDOW
    Kept,           \* MAX_ATTEMPTS_KEPT
    SweepThreshold,
    LastTick        \* bound: the last moment

ASSUME LimiterAssumption ==
    /\ Window \in Nat \ {0} /\ MaxWindow \in Nat /\ Window <= MaxWindow
    /\ Limit \in [Keys \union BasicKeys -> Nat \ {0}]
    /\ Kept \in Nat /\ \A k \in Keys \union BasicKeys : Limit[k] <= Kept
    /\ Keys \intersect BasicKeys = {} /\ "none" \notin BasicKeys /\ IsFiniteSet(Clients)
    /\ SweepThreshold \in Nat /\ LastTick \in Nat

VARIABLES
    clock,
    windows,    \* the attempts remembered of each key there is
    client,     \* basic requests: the key each was let through with, or none
    admitted    \* history: the moments, a window back, of all that counted

limiter == <<clock, windows, client, admitted>>
AllKeys == Keys \union BasicKeys

LimiterInit ==
    /\ clock = 0
    /\ windows = [k \in {} |-> <<>>]
    /\ client = [c \in Clients |-> "none"]
    /\ admitted = [k \in AllKeys |-> <<>>]

(* Attempts come in the order of time: the old ones are popped from the     *)
(* front until the next is in the window.                                   *)
FirstIn(w, now, length) ==
    CHOOSE i \in 1..Len(w) + 1 :
        /\ \A j \in 1..(i - 1) : now - w[j] >= length
        /\ i =< Len(w) => now - w[i] < length
Prune(w, now, length) == SubSeq(w, FirstIn(w, now, length), Len(w))

(* Past the threshold, keys whose newest attempt is old enough go.          *)
Sweep(ws) ==
    IF Cardinality(DOMAIN ws) < SweepThreshold THEN ws
    ELSE [k \in {x \in DOMAIN ws : ws[x] # <<>> /\ clock - ws[x][Len(ws[x])] < MaxWindow} |-> ws[k]]

Of(ws, k)    == IF k \in DOMAIN ws THEN ws[k] ELSE <<>>
Set(ws, k, w) == [x \in DOMAIN ws \union {k} |-> IF x = k THEN w ELSE ws[x]]
Push(w)      == Append(IF Len(w) = Kept THEN Tail(w) ELSE w, clock)

(* Mutant of Allow: an attempt that is denied counts too.                   *)
Allow_Counts(k) ==
    LET ws == Sweep(windows)
        w  == Prune(Of(ws, k), clock, Window)
    IN  /\ windows' = Set(ws, k, Push(w))
        /\ admitted' = IF Len(w) >= Limit[k] THEN admitted
                       ELSE [admitted EXCEPT ![k] = Append(@, clock)]
        /\ UNCHANGED <<clock, client>>

(* An attempt is admitted and counted, or denied and not.  The clock is     *)
(* read just before the mutex is taken: a tick is far longer than the wait  *)
(* for it.                                                                  *)
Allow(k) ==
    LET ws == Sweep(windows)
        w  == Prune(Of(ws, k), clock, Window)
    IN  /\ windows' = Set(ws, k, IF Len(w) >= Limit[k] THEN w ELSE Push(w))
        /\ admitted' = IF Len(w) >= Limit[k] THEN admitted
                       ELSE [admitted EXCEPT ![k] = Append(@, clock)]
        /\ UNCHANGED <<clock, client>>

AtLimit(k) == Len(Prune(Of(windows, k), clock, Window)) >= Limit[k]

(* Basic authentication: asked, and pruned, before the password is looked   *)
(* at.                                                                      *)
BasicAsk(c, k) ==
    /\ client[c] = "none"
    /\ windows' = IF k \in DOMAIN windows THEN Set(windows, k, Prune(windows[k], clock, Window)) ELSE windows
    /\ client' = [client EXCEPT ![c] = IF AtLimit(k) THEN "none" ELSE k]
    /\ UNCHANGED <<clock, admitted>>

(* The password was wrong: the failure is counted.                          *)
Record(c) ==
    LET k == client[c] IN
    /\ k # "none"
    /\ LET ws == Sweep(windows) IN
       windows' = Set(ws, k, Push(Prune(Of(ws, k), clock, MaxWindow)))
    /\ admitted' = [admitted EXCEPT ![k] = Append(@, clock)]
    /\ client' = [client EXCEPT ![c] = "none"]
    /\ UNCHANGED clock

BasicPasses(c) ==
    /\ client[c] # "none"
    /\ client' = [client EXCEPT ![c] = "none"]
    /\ UNCHANGED <<clock, windows, admitted>>

Tick ==
    /\ clock < LastTick
    /\ clock' = clock + 1
    /\ admitted' = [k \in AllKeys |-> Prune(admitted[k], clock', Window)]
    /\ UNCHANGED <<windows, client>>

LimiterNext ==
    \/ \E k \in Keys : Allow(k)
    \/ \E c \in Clients : (\E k \in BasicKeys : BasicAsk(c, k)) \/ Record(c) \/ BasicPasses(c)
    \/ Tick

LimiterSpec == LimiterInit /\ [][LimiterNext]_limiter

Counted(k) == Len(admitted[k])

(* What the window promises: it never admits more than its limit, and a     *)
(* client that is denied has had that many; neither the cap on what is kept *)
(* nor the sweep forgets one that counts (RateLimiter::hit).                *)
WindowHolds ==
    \A k \in Keys :
        /\ Counted(k) <= Limit[k]
        /\ AtLimit(k) => Counted(k) >= Limit[k]

(* Failures are asked for and counted apart, so requests that overlap pass  *)
(* together: no more than were in flight past the limit.                    *)
FailuresNeedRace ==
    \A k \in BasicKeys :
        Counted(k) + Cardinality({c \in Clients : client[c] = k}) <= Limit[k] + Cardinality(Clients) - 1

(* The two tables of attempts keep to their limits (RateLimiter::allow,     *)
(* at_limit and record).                                                    *)
LimitsHold == WindowHolds /\ FailuresNeedRace
=============================================================================
