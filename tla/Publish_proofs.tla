--------------------------- MODULE Publish_proofs ---------------------------
(* The safety properties of publishing, for any number of sessions,         *)
(* requests, versions and channels, and any uploads.                        *)
EXTENDS Publish, TLAPS

(* The tables.  An opened session has a target; a deleted repository has no *)
(* sessions; a version without contents was created by nobody.              *)
TablesOK ==
    /\ session \in [Sessions -> SessionRow]
    /\ parts \in [Sessions -> Manifests]
    /\ stored \subseteq Chunks
    /\ published \in [Targets -> SUBSET Contents]
    /\ live \in BOOLEAN
    /\ creations \in [Targets -> 0 .. 2]
    /\ \A s \in Sessions : session[s].status # "none" =>
          live /\ session[s].target \in Targets
    /\ live => \A v \in Versions :
          creations[v] <= 1 /\ (published[v] = {} => creations[v] = 0)
    /\ CompletedIsPublished

(* Where a request has a session, a target, contents.                       *)
Completing == {"open", "read", "prepared", "taken", "registered", "answered"}

HasSession(r) ==
    /\ r.at \in {"checked", "staged", "open", "read", "aborting", "registered"} =>
          r.session \in Sessions
    /\ r.at \in {"checked", "staged"} => r.no \in PartNos /\ r.chunk \in Chunks
    /\ r.at \in Completing => r.target \in Targets
    /\ r.at = "taken" => r.target \in Versions
    /\ r.at = "idle" => r.body = <<>> /\ r.outcome = "none"
    /\ r.at \in Completing => r.body \in Bodies
    /\ r.at \in Completing \ {"registered", "answered"} => r.outcome = "none"
    /\ r.at \in {"prepared", "taken"} =>
          r.content \in Contents /\ r.content = Content(r.target, r.body)

(* What it has read stays true of the tables while the repository lives:    *)
(* its session is for its target, its version is taken, its answer holds.   *)
StillTrue(r) ==
    live =>
    /\ r.at \in Completing /\ r.session # NoSession =>
          session[r.session].status # "none" /\ session[r.session].target = r.target
    /\ r.at = "aborting" => session[r.session].status # "none"
    /\ r.at = "taken" => r.target \in Versions /\ published[r.target] # {}
    /\ r.at = "registered" => r.outcome # "none"
    /\ r.outcome # "none" => r.target \in Targets /\ published[r.target] # {}
    /\ r.outcome \in {"created", "exists"} =>
          Content(r.target, r.body) \in published[r.target]
    /\ r.outcome = "conflict" =>
          r.target \in Versions /\ Content(r.target, r.body) \notin published[r.target]

RequestOK(r) == r \in RequestState /\ HasSession(r) /\ StillTrue(r)

IInv ==
    /\ TablesOK
    /\ request \in [Requests -> RequestState]
    /\ \A q \in Requests : RequestOK(request[q])

LEMMA ContentType ==
    ASSUME NEW t, NEW body
    PROVE  Content(t, body) \in Contents \union {Refused}
BY PublishAssumption DEF Content, Contents

LEMMA IdleType == Idle \in RequestState
BY DEF Idle, RequestState, Places, Manifests, NoParts, Outcomes

LEMMA MoveType ==
    ASSUME NEW r \in RequestState, NEW place \in Places
    PROVE  [r EXCEPT !.at = place] \in RequestState
BY DEF RequestState

LEMMA PreparedType ==
    ASSUME NEW r \in RequestState, NEW content \in Contents \union {Refused}
    PROVE  [r EXCEPT !.at = "prepared", !.content = content, !.manifest = NoParts]
              \in RequestState
BY DEF RequestState, Places, NoParts, Manifests

LEMMA DecidedType ==
    ASSUME NEW r \in RequestState, NEW outcome \in Outcomes, NEW place \in Places
    PROVE  [r EXCEPT !.outcome = outcome, !.at = place] \in RequestState
BY DEF RequestState

LEMMA InitIInv == Init => IInv
<1>. SUFFICES ASSUME Init PROVE IInv
  OBVIOUS
<1>1. TablesOK
  BY DEF Init, TablesOK, SessionRow, Statuses, Manifests, NoParts, CompletedIsPublished, Targets
<1>2. Idle \in RequestState
  BY DEF Idle, RequestState, Places, Manifests, NoParts, Outcomes
<1>3. \A q \in Requests : RequestOK(request[q])
  BY <1>2 DEF Init, RequestOK, HasSession, StillTrue, Idle, Completing
<1>. QED
  BY <1>1, <1>2, <1>3 DEF IInv, Init

-----------------------------------------------------------------------------
(* What a step of anybody else leaves a request to rely on.                 *)
Keeps ==
    live' =>
    /\ live
    /\ \A t \in Targets : published[t] \subseteq published'[t]
    /\ \A v \in Versions : published[v] # {} => published'[v] = published[v]
    /\ \A s \in Sessions : session[s].status # "none" =>
          session'[s].status # "none" /\ session'[s].target = session[s].target

LEMMA OthersKept ==
    ASSUME IInv, Keeps, NEW p \in Requests, request'[p] = request[p]
    PROVE  RequestOK(request[p])'
BY DEF IInv, TablesOK, RequestOK, HasSession, StillTrue, Keeps, Targets, RequestState

(* A step that moves request q to new and keeps what the others rely on.    *)
LEMMA Moved ==
    ASSUME IInv, Keeps, TablesOK', NEW q \in Requests, NEW new,
           request' = [request EXCEPT ![q] = new], RequestOK(request[q])'
    PROVE  IInv'
<1>1. \A p \in Requests : RequestOK(request[p])'
  BY OthersKept DEF IInv
<1>. QED
  BY <1>1 DEF IInv, RequestOK

-----------------------------------------------------------------------------
(* The steps of a request: each moves it, and IInv holds again.             *)
LEMMA PartCheckKeeps ==
    ASSUME IInv, NEW q \in Requests, NEW s \in Sessions, NEW n \in PartNos,
           NEW c \in Chunks, PartCheck(q, s, n, c)
    PROVE  IInv'
<1>. DEFINE new == [Idle EXCEPT !.at = "checked", !.session = s, !.no = n,
!.chunk = c]
<1>1. TablesOK'
  BY PublishAssumption DEF IInv, TablesOK, CompletedIsPublished, PartCheck
<1>2. Keeps
  BY DEF PartCheck, Keeps
<1>3. request' = [request EXCEPT ![q] = new] /\ request'[q] = new
  BY DEF IInv, RequestState, PartCheck
<1>4. new \in RequestState
  BY IdleType DEF IInv, RequestState, Places
<1>5. HasSession(request[q])'
  BY <1>3, PublishAssumption DEF IInv, RequestOK, RequestState, HasSession,
    Completing, PartCheck, Idle
<1>6. StillTrue(request[q])'
  BY <1>3, PublishAssumption DEF IInv, RequestOK, RequestState, HasSession,
    StillTrue, Completing, PartCheck, Idle
<1>. QED
  BY <1>1, <1>2, <1>3, <1>4, <1>5, <1>6, Moved DEF RequestOK

LEMMA PartStoreKeeps ==
    ASSUME IInv, NEW q \in Requests, PartStore(q)
    PROVE  IInv'
<1>. DEFINE new == [request[q] EXCEPT !.at = "staged"]
<1>1. TablesOK'
  BY PublishAssumption DEF IInv, TablesOK, CompletedIsPublished, PartStore, Goto,
    HasSession, RequestOK
<1>2. Keeps
  BY DEF PartStore, Goto, Keeps
<1>3. request' = [request EXCEPT ![q] = new] /\ request'[q] = new
  BY DEF IInv, RequestState, PartStore, Goto
<1>4. new \in RequestState
  BY MoveType DEF IInv, Places
<1>5. HasSession(request[q])'
  BY <1>3, PublishAssumption DEF IInv, RequestOK, RequestState, HasSession,
    Completing, PartStore, Goto
<1>6. StillTrue(request[q])'
  BY <1>3, PublishAssumption DEF IInv, RequestOK, RequestState, HasSession,
    StillTrue, Completing, PartStore, Goto
<1>. QED
  BY <1>1, <1>2, <1>3, <1>4, <1>5, <1>6, Moved DEF RequestOK

LEMMA PartRecordKeeps ==
    ASSUME IInv, NEW q \in Requests, PartRecord(q)
    PROVE  IInv'
<1>. DEFINE new == Idle
<1>1. TablesOK'
  BY PublishAssumption DEF IInv, TablesOK, CompletedIsPublished, PartRecord,
    Finish, Manifests, HasSession, RequestOK
<1>2. Keeps
  BY DEF PartRecord, Finish, Keeps
<1>3. request' = [request EXCEPT ![q] = new] /\ request'[q] = new
  BY DEF IInv, RequestState, PartRecord, Finish
<1>4. new \in RequestState
  BY IdleType DEF IInv, RequestState, Places
<1>5. HasSession(request[q])'
  BY <1>3, PublishAssumption DEF IInv, RequestOK, RequestState, HasSession,
    Completing, PartRecord, Finish, Idle
<1>6. StillTrue(request[q])'
  BY <1>3, PublishAssumption DEF IInv, RequestOK, RequestState, HasSession,
    StillTrue, Completing, PartRecord, Finish, Idle
<1>. QED
  BY <1>1, <1>2, <1>3, <1>4, <1>5, <1>6, Moved DEF RequestOK

LEMMA CompleteCheckKeeps ==
    ASSUME IInv, NEW q \in Requests, NEW s \in Sessions, NEW body \in Bodies,
           CompleteCheck(q, s, body)
    PROVE  IInv'
<1>. DEFINE new == [Idle EXCEPT !.at = "open", !.session = s, !.body = body,
                               !.target = session[s].target]
<1>1. TablesOK'
  BY PublishAssumption DEF IInv, TablesOK, CompletedIsPublished, CompleteCheck,
    IsOpen
<1>2. Keeps
  BY DEF CompleteCheck, IsOpen, Keeps
<1>3. request' = [request EXCEPT ![q] = new] /\ request'[q] = new
  BY DEF IInv, RequestState, CompleteCheck, IsOpen
<1>4. new \in RequestState
  BY IdleType, PublishAssumption DEF IInv, RequestState, Places, CompleteCheck,
    IsOpen, TablesOK, IsOpen, SessionRow
<1>5. HasSession(request[q])'
  BY <1>3, PublishAssumption DEF IInv, RequestOK, RequestState, HasSession,
    Completing, CompleteCheck, IsOpen, Idle, TablesOK
<1>6. StillTrue(request[q])'
  BY <1>3, PublishAssumption DEF IInv, RequestOK, RequestState, HasSession,
    StillTrue, Completing, CompleteCheck, IsOpen, Idle, TablesOK
<1>. QED
  BY <1>1, <1>2, <1>3, <1>4, <1>5, <1>6, Moved DEF RequestOK

LEMMA CompleteReadKeeps ==
    ASSUME IInv, NEW q \in Requests, CompleteRead(q)
    PROVE  IInv'
<1>. DEFINE new == [request[q] EXCEPT !.at = "read",
!.manifest = parts[request[q].session]]
<1>1. TablesOK'
  BY PublishAssumption DEF IInv, TablesOK, CompletedIsPublished, CompleteRead
<1>2. Keeps
  BY DEF CompleteRead, Keeps
<1>3. request' = [request EXCEPT ![q] = new] /\ request'[q] = new
  BY DEF IInv, RequestState, CompleteRead
<1>4. new \in RequestState
  <2>1. parts[request[q].session] \in Manifests
    BY DEF IInv, TablesOK, CompleteRead, RequestOK, HasSession
  <2>. QED
    BY <2>1 DEF IInv, RequestState, Places
<1>5. HasSession(request[q])'
  BY <1>3, PublishAssumption DEF IInv, RequestOK, RequestState, HasSession,
    Completing, CompleteRead
<1>6. StillTrue(request[q])'
  BY <1>3, PublishAssumption DEF IInv, RequestOK, RequestState, HasSession,
    StillTrue, Completing, CompleteRead, TablesOK
<1>. QED
  BY <1>1, <1>2, <1>3, <1>4, <1>5, <1>6, Moved DEF RequestOK

LEMMA CompleteAssembleKeeps ==
    ASSUME IInv, NEW q \in Requests, CompleteAssemble(q)
    PROVE  IInv'
<1>. DEFINE new == [request[q] EXCEPT !.at = "prepared",
    !.content = Content(request[q].target, Assembled(q)), !.manifest = NoParts]
<1>1. TablesOK'
  BY PublishAssumption DEF IInv, TablesOK, CompletedIsPublished, CompleteAssemble
<1>2. Keeps
  BY DEF CompleteAssemble, Keeps
<1>3. request' = [request EXCEPT ![q] = new] /\ request'[q] = new
  BY DEF IInv, RequestState, CompleteAssemble
<1>4. new \in RequestState
  BY ContentType, PreparedType DEF IInv
<1>5. HasSession(request[q])'
  BY <1>3, ContentType, PublishAssumption DEF IInv, RequestOK, RequestState,
    HasSession, Completing, CompleteAssemble
<1>6. StillTrue(request[q])'
  <2>1. request'[q].target = request[q].target /\ request'[q].body = request[q].body
          /\ request'[q].outcome = request[q].outcome /\ request'[q].session = request[q].session
          /\ request'[q].at = "prepared" /\ request[q].at = "read"
    BY <1>3 DEF IInv, RequestState, CompleteAssemble
  <2>2. StillTrue(request[q]) /\ UNCHANGED <<live, session, published>>
    BY DEF IInv, RequestOK, CompleteAssemble
  <2>. QED
    BY <2>1, <2>2 DEF StillTrue, Completing
<1>. QED
  BY <1>1, <1>2, <1>3, <1>4, <1>5, <1>6, Moved DEF RequestOK

LEMMA SinglePrepareKeeps ==
    ASSUME IInv, NEW q \in Requests, NEW t \in Targets, NEW body \in Bodies,
           SinglePrepare(q, t, body)
    PROVE  IInv'
<1>. DEFINE new == [Idle EXCEPT !.at = "prepared", !.target = t, !.body = body,
                               !.content = Content(t, body)]
<1>1. TablesOK'
  BY PublishAssumption DEF IInv, TablesOK, CompletedIsPublished, SinglePrepare
<1>2. Keeps
  BY DEF SinglePrepare, Keeps
<1>3. request' = [request EXCEPT ![q] = new] /\ request'[q] = new
  BY DEF IInv, RequestState, SinglePrepare
<1>4. new \in RequestState
  BY IdleType, ContentType DEF IInv, RequestState, Places
<1>5. HasSession(request[q])'
  BY <1>3, ContentType, PublishAssumption DEF IInv, RequestOK, RequestState,
    HasSession, Completing, SinglePrepare, Idle
<1>6. StillTrue(request[q])'
  BY <1>3, PublishAssumption DEF IInv, RequestOK, RequestState, HasSession,
    StillTrue, Completing, SinglePrepare, Idle
<1>. QED
  BY <1>1, <1>2, <1>3, <1>4, <1>5, <1>6, Moved DEF RequestOK

LEMMA InsertNothingKeeps ==
    ASSUME IInv, NEW q \in Requests, InsertNothing(q)
    PROVE  IInv'
<1>. DEFINE new == [request[q] EXCEPT !.at = "taken"]
<1>1. TablesOK'
  BY PublishAssumption DEF IInv, TablesOK, CompletedIsPublished, InsertNothing, Goto
<1>2. Keeps
  BY DEF InsertNothing, Goto, Keeps
<1>3. request' = [request EXCEPT ![q] = new] /\ request'[q] = new
  BY DEF IInv, RequestState, InsertNothing, Goto
<1>4. new \in RequestState
  BY MoveType DEF IInv, Places
<1>5. HasSession(request[q])'
  BY <1>3, PublishAssumption DEF IInv, RequestOK, RequestState, HasSession,
    Completing, InsertNothing, Goto
<1>6. StillTrue(request[q])'
  BY <1>3, PublishAssumption DEF IInv, RequestOK, RequestState, HasSession,
    StillTrue, Completing, InsertNothing, Goto, TablesOK
<1>. QED
  BY <1>1, <1>2, <1>3, <1>4, <1>5, <1>6, Moved DEF RequestOK

LEMMA InsertKeeps ==
    ASSUME IInv, NEW q \in Requests, Insert(q)
    PROVE  IInv'
<1>. DEFINE new == [request[q] EXCEPT !.outcome = "created",
    !.at = IF request[q].session = NoSession THEN "answered" ELSE "registered"]
<1>1. TablesOK'
  <2>. DEFINE t == request[q].target
  <2>1. t \in Targets /\ request[q].content \in Contents
    BY DEF IInv, Insert, RequestOK, HasSession, Completing
  <2>2. published' \in [Targets -> SUBSET Contents]
    BY <2>1 DEF IInv, TablesOK, Insert
  <2>3. creations' \in [Targets -> 0 .. 2]
    BY <2>1 DEF IInv, TablesOK, Insert
  <2>4. ASSUME NEW v \in Versions
        PROVE  creations'[v] <= 1 /\ (published'[v] = {} => creations'[v] = 0)
    <3>1. CASE v = t
      <4>1. published[t] = {} /\ creations[t] = 0
        BY <3>1, PublishAssumption DEF IInv, TablesOK, Insert
      <4>2. creations'[t] = 1
        BY <2>1, <4>1 DEF IInv, TablesOK, Insert
      <4>3. request[q].content \in published'[t]
        BY <2>1 DEF IInv, TablesOK, Insert
      <4>. QED
        BY <3>1, <4>2, <4>3
    <3>2. CASE v # t
      BY <2>1, <3>2 DEF IInv, TablesOK, Insert, Targets
    <3>. QED
      BY <3>1, <3>2
  <2>5. CompletedIsPublished'
    BY <2>1 DEF IInv, TablesOK, CompletedIsPublished, SessionRow, Insert
  <2>. QED
    BY <2>2, <2>3, <2>4, <2>5 DEF IInv, TablesOK, Insert
<1>2. Keeps
  BY PublishAssumption DEF IInv, TablesOK, RequestOK, HasSession, Completing,
    Targets, Insert, Keeps
<1>3. request' = [request EXCEPT ![q] = new] /\ request'[q] = new
  BY DEF IInv, RequestState, Insert, Decide
<1>4. new \in RequestState
  BY DecidedType DEF IInv, Places, Outcomes
<1>5. HasSession(request[q])'
  BY <1>3, PublishAssumption DEF IInv, RequestOK, RequestState, HasSession,
    Completing, Insert, Decide
<1>6. StillTrue(request[q])'
  BY <1>3, PublishAssumption DEF IInv, RequestOK, RequestState, HasSession,
    StillTrue, Completing, Insert, Decide, TablesOK, Targets
<1>. QED
  BY <1>1, <1>2, <1>3, <1>4, <1>5, <1>6, Moved DEF RequestOK

LEMMA CompareKeeps ==
    ASSUME IInv, NEW q \in Requests, Compare(q)
    PROVE  IInv'
<1>. DEFINE new == [request[q] EXCEPT !.outcome = (IF request[q].content \in published[request[q].target]
                                          THEN "exists" ELSE "conflict"),
    !.at = IF request[q].session = NoSession THEN "answered" ELSE "registered"]
<1>1. TablesOK'
  BY PublishAssumption DEF IInv, TablesOK, CompletedIsPublished, Compare, Decide
<1>2. Keeps
  BY DEF Compare, Decide, Keeps
<1>3. request' = [request EXCEPT ![q] = new] /\ request'[q] = new
  BY DEF IInv, RequestState, Compare, Decide
<1>4. new \in RequestState
  BY DecidedType DEF IInv, Places, Outcomes
<1>5. HasSession(request[q])'
  BY <1>3, PublishAssumption DEF IInv, RequestOK, RequestState, HasSession,
    Completing, Compare, Decide
<1>6. StillTrue(request[q])'
  BY <1>3, PublishAssumption DEF IInv, RequestOK, RequestState, HasSession,
    StillTrue, Completing, Compare, Decide, TablesOK
<1>. QED
  BY <1>1, <1>2, <1>3, <1>4, <1>5, <1>6, Moved DEF RequestOK

LEMMA CompleteFinishKeeps ==
    ASSUME IInv, NEW q \in Requests, CompleteFinish(q)
    PROVE  IInv'
<1>. DEFINE new == [request[q] EXCEPT !.at = "answered"]
<1>1. TablesOK'
  BY PublishAssumption DEF IInv, TablesOK, CompletedIsPublished, CompleteFinish,
    SetStatus, Goto, SessionRow, Statuses, RequestOK, HasSession, StillTrue,
    Completing
<1>2. Keeps
  BY DEF CompleteFinish, SetStatus, Goto, Keeps, IInv, TablesOK, SessionRow
<1>3. request' = [request EXCEPT ![q] = new] /\ request'[q] = new
  BY DEF IInv, RequestState, CompleteFinish, SetStatus, Goto
<1>4. new \in RequestState
  BY MoveType DEF IInv, Places
<1>5. HasSession(request[q])'
  BY <1>3, PublishAssumption DEF IInv, RequestOK, RequestState, HasSession,
    Completing, CompleteFinish, SetStatus, Goto
<1>6. StillTrue(request[q])'
  BY <1>3, PublishAssumption DEF IInv, RequestOK, RequestState, HasSession,
    StillTrue, Completing, CompleteFinish, SetStatus, Goto, TablesOK, SessionRow
<1>. QED
  BY <1>1, <1>2, <1>3, <1>4, <1>5, <1>6, Moved DEF RequestOK

LEMMA RespondKeeps ==
    ASSUME IInv, NEW q \in Requests, Respond(q)
    PROVE  IInv'
<1>. DEFINE new == Idle
<1>1. TablesOK'
  BY PublishAssumption DEF IInv, TablesOK, CompletedIsPublished, Respond, Finish
<1>2. Keeps
  BY DEF Respond, Finish, Keeps
<1>3. request' = [request EXCEPT ![q] = new] /\ request'[q] = new
  BY DEF IInv, RequestState, Respond, Finish
<1>4. new \in RequestState
  BY IdleType DEF IInv, RequestState, Places
<1>5. HasSession(request[q])'
  BY <1>3, PublishAssumption DEF IInv, RequestOK, RequestState, HasSession,
    Completing, Respond, Finish, Idle
<1>6. StillTrue(request[q])'
  BY <1>3, PublishAssumption DEF IInv, RequestOK, RequestState, HasSession,
    StillTrue, Completing, Respond, Finish, Idle
<1>. QED
  BY <1>1, <1>2, <1>3, <1>4, <1>5, <1>6, Moved DEF RequestOK

LEMMA AbortCheckKeeps ==
    ASSUME IInv, NEW q \in Requests, NEW s \in Sessions, AbortCheck(q, s)
    PROVE  IInv'
<1>. DEFINE new == [Idle EXCEPT !.at = "aborting", !.session = s]
<1>1. TablesOK'
  BY PublishAssumption DEF IInv, TablesOK, CompletedIsPublished, AbortCheck
<1>2. Keeps
  BY DEF AbortCheck, Keeps
<1>3. request' = [request EXCEPT ![q] = new] /\ request'[q] = new
  BY DEF IInv, RequestState, AbortCheck
<1>4. new \in RequestState
  BY IdleType DEF IInv, RequestState, Places
<1>5. HasSession(request[q])'
  BY <1>3, PublishAssumption DEF IInv, RequestOK, RequestState, HasSession,
    Completing, AbortCheck, Idle
<1>6. StillTrue(request[q])'
  BY <1>3, PublishAssumption DEF IInv, RequestOK, RequestState, HasSession,
    StillTrue, Completing, AbortCheck, Idle
<1>. QED
  BY <1>1, <1>2, <1>3, <1>4, <1>5, <1>6, Moved DEF RequestOK

LEMMA AbortSetKeeps ==
    ASSUME IInv, NEW q \in Requests, AbortSet(q)
    PROVE  IInv'
<1>. DEFINE new == Idle
<1>1. TablesOK'
  <2>. request[q].session \in Sessions
    BY DEF IInv, RequestOK, HasSession, AbortSet
  <2>1. session' \in [Sessions -> SessionRow]
    BY DEF IInv, TablesOK, SessionRow, Statuses, AbortSet, SetStatus
  <2>2. \A s \in Sessions : session'[s].status # "none" =>
            live /\ session'[s].target = session[s].target /\ session[s].status # "none"
    BY DEF IInv, TablesOK, SessionRow, RequestOK, HasSession, StillTrue, AbortSet,
      SetStatus
  <2>3. \A s \in Sessions : session'[s].status = "completed" => session[s].status = "completed"
    BY DEF IInv, TablesOK, SessionRow, AbortSet, SetStatus
  <2>. QED
    BY <2>1, <2>2, <2>3 DEF IInv, TablesOK, CompletedIsPublished, AbortSet
<1>2. Keeps
  BY DEF AbortSet, SetStatus, Finish, Keeps, IInv, TablesOK, SessionRow
<1>3. request' = [request EXCEPT ![q] = new] /\ request'[q] = new
  BY DEF IInv, RequestState, AbortSet, SetStatus, Finish
<1>4. new \in RequestState
  BY IdleType DEF IInv, RequestState, Places
<1>5. HasSession(request[q])'
  BY <1>3, PublishAssumption DEF IInv, RequestOK, RequestState, HasSession,
    Completing, AbortSet, SetStatus, Finish, Idle
<1>6. StillTrue(request[q])'
  BY <1>3, PublishAssumption DEF IInv, RequestOK, RequestState, HasSession,
    StillTrue, Completing, AbortSet, SetStatus, Finish, Idle
<1>. QED
  BY <1>1, <1>2, <1>3, <1>4, <1>5, <1>6, Moved DEF RequestOK

LEMMA FailKeeps ==
    ASSUME IInv, NEW q \in Requests, Fail(q)
    PROVE  IInv'
<1>. DEFINE new == Idle
<1>1. TablesOK'
  BY PublishAssumption DEF IInv, TablesOK, CompletedIsPublished, Fail, Finish
<1>2. Keeps
  BY DEF Fail, Finish, Keeps
<1>3. request' = [request EXCEPT ![q] = new] /\ request'[q] = new
  BY DEF IInv, RequestState, Fail, Finish
<1>4. new \in RequestState
  BY IdleType DEF IInv, RequestState, Places
<1>5. HasSession(request[q])'
  BY <1>3, PublishAssumption DEF IInv, RequestOK, RequestState, HasSession,
    Completing, Fail, Finish, Idle
<1>6. StillTrue(request[q])'
  BY <1>3, PublishAssumption DEF IInv, RequestOK, RequestState, HasSession,
    StillTrue, Completing, Fail, Finish, Idle
<1>. QED
  BY <1>1, <1>2, <1>3, <1>4, <1>5, <1>6, Moved DEF RequestOK

-----------------------------------------------------------------------------
(* The steps that move no request.                                          *)
LEMMA Unmoved ==
    ASSUME IInv, Keeps, TablesOK', request' = request
    PROVE  IInv'
<1>1. \A p \in Requests : RequestOK(request[p])'
  BY OthersKept
<1>. QED
  BY <1>1 DEF IInv

LEMMA OpenSessionKeeps ==
    ASSUME IInv, NEW s \in Sessions, NEW t \in Targets, OpenSession(s, t)
    PROVE  IInv'
<1>1. TablesOK'
  BY DEF IInv, TablesOK, CompletedIsPublished, SessionRow, Statuses, OpenSession
<1>2. Keeps
  BY DEF IInv, TablesOK, SessionRow, OpenSession, Keeps
<1>. QED
  BY <1>1, <1>2, Unmoved DEF OpenSession

LEMMA ReapKeeps ==
    ASSUME IInv, NEW c \in Chunks, Reap(c)
    PROVE  IInv'
<1>1. TablesOK'
  BY DEF IInv, TablesOK, CompletedIsPublished, Reap
<1>2. Keeps
  BY DEF Reap, Keeps
<1>. QED
  BY <1>1, <1>2, Unmoved DEF Reap

LEMMA DeleteRepoKeeps ==
    ASSUME IInv, DeleteRepo
    PROVE  IInv'
<1>1. TablesOK'
  BY DEF IInv, TablesOK, CompletedIsPublished, SessionRow, Statuses, Manifests, NoParts,
    DeleteRepo
<1>2. Keeps
  BY DEF DeleteRepo, Keeps
<1>. QED
  BY <1>1, <1>2, Unmoved DEF DeleteRepo

-----------------------------------------------------------------------------
LEMMA NextIInv == IInv /\ [Next]_vars => IInv'
<1>. SUFFICES ASSUME IInv, [Next]_vars PROVE IInv'
  OBVIOUS
<1>1. ASSUME NEW s \in Sessions, NEW t \in Targets, OpenSession(s, t) PROVE IInv'
  BY <1>1, OpenSessionKeeps
<1>2. ASSUME NEW q \in Requests, Arrive(q) PROVE IInv'
  BY <1>2, PartCheckKeeps, CompleteCheckKeeps, SinglePrepareKeeps, AbortCheckKeeps DEF Arrive
<1>3. ASSUME NEW q \in Requests, Handle(q) PROVE IInv'
  BY <1>3, PartStoreKeeps, PartRecordKeeps, CompleteReadKeeps, CompleteAssembleKeeps,
    InsertKeeps, InsertNothingKeeps, CompareKeeps, CompleteFinishKeeps, RespondKeeps,
    AbortSetKeeps, FailKeeps DEF Handle
<1>4. ASSUME NEW c \in Chunks, Reap(c) PROVE IInv'
  BY <1>4, ReapKeeps
<1>5. CASE DeleteRepo
  BY <1>5, DeleteRepoKeeps
<1>6. CASE UNCHANGED vars
  <2>1. TablesOK' /\ Keeps
    BY <1>6 DEF IInv, TablesOK, CompletedIsPublished, Keeps, vars
  <2>. QED
    BY <1>6, <2>1, Unmoved DEF vars
<1>. QED
  BY <1>1, <1>2, <1>3, <1>4, <1>5, <1>6 DEF Next

LEMMA Invariant == Spec => []IInv
BY InitIInv, NextIInv, PTL DEF Spec

(* Type correctness of the tables and of every handler, from upload_init    *)
(* and publish_single to the answer.                                        *)
THEOREM TypeCorrect == Spec => []TypeOK
<1>1. IInv => TypeOK
  BY DEF IInv, TablesOK, TypeOK
<1>. QED
  BY <1>1, Invariant, PTL

(* 201, 200 and 409 are true when publish_single and upload_complete decide *)
(* them, and stay true until they are sent.                                 *)
THEOREM Truthful == Spec => []AnswersTruthful
<1>1. IInv => AnswersTruthful
  BY DEF IInv, RequestOK, StillTrue, AnswersTruthful
<1>. QED
  BY <1>1, Invariant, PTL

(* insert_version_once tells at most one publisher of a version 201.        *)
THEOREM CreatedOnce == Spec => []OneCreator
<1>1. IInv => OneCreator
  BY DEF IInv, TablesOK, OneCreator
<1>. QED
  BY <1>1, Invariant, PTL

(* A session set_upload_status completed has published its target.          *)
THEOREM CompletedPublished == Spec => []CompletedIsPublished
<1>1. IInv => CompletedIsPublished
  BY DEF IInv, TablesOK
<1>. QED
  BY <1>1, Invariant, PTL

(* No step of any request replaces what a version was published with.       *)
THEOREM Immutable == Spec => VersionImmutable
<1>1. IInv /\ [Next]_vars =>
      [\A v \in Versions : live' /\ published[v] # {} => published'[v] = published[v]]_vars
  <2>. SUFFICES ASSUME IInv, [Next]_vars, NEW v \in Versions, live', published[v] # {}
                PROVE  published'[v] = published[v]
    OBVIOUS
  <2>1. CASE \E q \in Requests : Insert(q)
    <3>1. PICK q \in Requests : Insert(q)
      BY <2>1
    <3>2. request[q].target \in Targets /\ request[q].target # v
      BY <3>1, PublishAssumption DEF IInv, RequestOK, HasSession, Completing, Insert
    <3>. QED
      BY <3>1, <3>2 DEF IInv, TablesOK, Targets, Insert
  <2>2. CASE DeleteRepo
    BY <2>2 DEF DeleteRepo
  <2>3. CASE ~ DeleteRepo /\ ~ \E q \in Requests : Insert(q)
    BY <2>3 DEF Next, Arrive, Handle, OpenSession, PartCheck, CompleteCheck,
      SinglePrepare, AbortCheck, PartStore, PartRecord, CompleteRead, CompleteAssemble,
      InsertNothing, Compare, CompleteFinish, Respond, AbortSet, Fail, Reap, vars
  <2>. QED
    BY <2>1, <2>2, <2>3
<1>. QED
  BY <1>1, Invariant, PTL DEF Spec, VersionImmutable

-----------------------------------------------------------------------------
(* The refinement.  A step that leaves every request's wish and outcome is  *)
(* no step of the store; one that finishes a request is its leaving.        *)
LEMMA Quiet ==
    ASSUME UNCHANGED <<published, live>>,
           \A p \in Requests : Wish(p)' = Wish(p) /\ request'[p].outcome = request[p].outcome
    PROVE  UNCHANGED Store!storeVars
BY DEF Store!storeVars

(* A move of one request that keeps what it asked for and was told.         *)
LEMMA Still ==
    ASSUME request \in [Requests -> RequestState], UNCHANGED <<published, live>>,
           NEW q \in Requests, NEW new, request' = [request EXCEPT ![q] = new],
           new.body = request[q].body,
           new.body # <<>> => new.target = request[q].target,
           new.outcome = request[q].outcome
    PROVE  UNCHANGED Store!storeVars
<1>1. \A p \in Requests : Wish(p)' = Wish(p) /\ request'[p].outcome = request[p].outcome
  BY DEF Wish
<1>. QED
  BY <1>1, Quiet

LEMMA Left ==
    ASSUME request \in [Requests -> RequestState], UNCHANGED <<published, live>>,
           NEW q \in Requests, Finish(q)
    PROVE  Store!Leave(q)
<1>1. \A p \in Requests : request'[p] = IF p = q THEN Idle ELSE request[p]
  BY DEF Finish
<1>2. \A p \in Requests :
        /\ Wish(p)' = IF p = q THEN Store!NoWish ELSE Wish(p)
        /\ request'[p].outcome = IF p = q THEN "none" ELSE request[p].outcome
  BY <1>1 DEF Wish, Idle, Store!NoWish
<1>. QED
  BY <1>2 DEF Store!Leave

(* A request that takes up a body asks for what the body stands for.        *)
LEMMA Asked ==
    ASSUME request \in [Requests -> RequestState], UNCHANGED <<published, live>>,
           NEW q \in Requests, NEW new, request[q] = Idle,
           request' = [request EXCEPT ![q] = new],
           new.target \in Targets, new.body \in Bodies, new.outcome = "none"
    PROVE  Store!Ask(q)
<1>1. Content(new.target, new.body) \in Contents \union {Refused} /\ new.body # <<>>
  BY ContentType, PublishAssumption
<1>. DEFINE w == [target |-> new.target, content |-> Content(new.target, new.body)]
<1>2. w \in Store!Wishes
  BY <1>1 DEF Store!Wishes
<1>3. Wish(q) = Store!NoWish
  BY DEF Wish, Idle, Store!NoWish
<1>4. \A p \in Requests :
        /\ Wish(p)' = IF p = q THEN w ELSE Wish(p)
        /\ request'[p].outcome = request[p].outcome
  BY <1>1 DEF Wish, Idle
<1>. QED
  BY <1>2, <1>3, <1>4 DEF Store!Ask

(* A request that decides tells its client so.                              *)
LEMMA Told ==
    ASSUME request \in [Requests -> RequestState], NEW q \in Requests,
           NEW outcome \in Outcomes, Decide(q, outcome)
    PROVE  \A p \in Requests :
              /\ Wish(p)' = Wish(p)
              /\ request'[p].outcome = IF p = q THEN outcome ELSE request[p].outcome
BY DEF Decide, Wish, RequestState

LEMMA InsertCreates ==
    ASSUME IInv, NEW q \in Requests, Insert(q)
    PROVE  Store!Create(q)
<1>. DEFINE r == request[q]
<1>1. /\ r.outcome = "none" /\ r.body \in Bodies /\ r.target \in Targets
      /\ r.content \in Contents /\ r.content = Content(r.target, r.body)
  BY DEF IInv, RequestOK, HasSession, Completing, Insert
<1>2. Wish(q) = [target |-> r.target, content |-> r.content]
  BY <1>1, PublishAssumption DEF Wish
<1>3. r.target \in Versions => published[r.target] = {}
  BY PublishAssumption DEF Insert
<1>4. \A p \in Requests :
        /\ Wish(p)' = Wish(p)
        /\ request'[p].outcome = IF p = q THEN "created" ELSE request[p].outcome
  BY Told DEF IInv, Insert, Outcomes
<1>5. /\ live /\ live' = live
      /\ published' = [published EXCEPT ![r.target] = @ \union {r.content}]
  BY DEF Insert
<1>. QED
  <2>1. /\ [p \in Requests |-> Wish(p)][q].target = r.target
        /\ [p \in Requests |-> Wish(p)][q].content = r.content
    BY <1>2
  <2>2. [p \in Requests |-> Wish(p)]' = [p \in Requests |-> Wish(p)]
    BY <1>4
  <2>3. [p \in Requests |-> request[p].outcome]' =
          [[p \in Requests |-> request[p].outcome] EXCEPT ![q] = "created"]
    BY <1>4
  <2>4. [p \in Requests |-> request[p].outcome][q] = "none"
    BY <1>1
  <2>. QED
    BY <1>1, <1>3, <1>5, <2>1, <2>2, <2>3, <2>4 DEF Store!Create

LEMMA CompareAnswers ==
    ASSUME IInv, NEW q \in Requests, Compare(q)
    PROVE  Store!Confirm(q) \/ Store!Decline(q)
<1>. DEFINE r == request[q]
<1>1. /\ r.outcome = "none" /\ r.body \in Bodies /\ r.target \in Versions
      /\ r.content = Content(r.target, r.body)
      /\ live => published[r.target] # {}
  BY DEF IInv, RequestOK, HasSession, StillTrue, Completing, Compare
<1>2. Wish(q) = [target |-> r.target, content |-> r.content]
  BY <1>1, PublishAssumption DEF Wish
<1>3. UNCHANGED <<published, live>>
  BY DEF Compare
<1>6. /\ [p \in Requests |-> Wish(p)][q].target = r.target
      /\ [p \in Requests |-> Wish(p)][q].content = r.content
      /\ [p \in Requests |-> request[p].outcome][q] = "none"
  BY <1>1, <1>2
<1>4. CASE r.content \in published[r.target]
  <2>1. \A p \in Requests :
          /\ Wish(p)' = Wish(p)
          /\ request'[p].outcome = IF p = q THEN "exists" ELSE request[p].outcome
    BY <1>4, Told DEF IInv, Compare, Outcomes
  <2>2. [p \in Requests |-> Wish(p)]' = [p \in Requests |-> Wish(p)]
    BY <2>1
  <2>3. [p \in Requests |-> request[p].outcome]' =
          [[p \in Requests |-> request[p].outcome] EXCEPT ![q] = "exists"]
    BY <2>1
  <2>. QED
    BY <1>1, <1>3, <1>4, <1>6, <2>2, <2>3 DEF Store!Confirm
<1>5. CASE r.content \notin published[r.target]
  <2>1. \A p \in Requests :
          /\ Wish(p)' = Wish(p)
          /\ request'[p].outcome = IF p = q THEN "conflict" ELSE request[p].outcome
    BY <1>5, Told DEF IInv, Compare, Outcomes
  <2>2. [p \in Requests |-> Wish(p)]' = [p \in Requests |-> Wish(p)]
    BY <2>1
  <2>3. [p \in Requests |-> request[p].outcome]' =
          [[p \in Requests |-> request[p].outcome] EXCEPT ![q] = "conflict"]
    BY <2>1
  <2>. QED
    BY <1>1, <1>3, <1>5, <1>6, <2>2, <2>3 DEF Store!Decline
<1>. QED
  BY <1>4, <1>5

LEMMA ArriveMaps ==
    ASSUME IInv, NEW q \in Requests, Arrive(q)
    PROVE  Store!Ask(q) \/ UNCHANGED Store!storeVars
<1>. USE DEF IInv
<1>1. ASSUME NEW s \in Sessions, NEW n \in PartNos, NEW c \in Chunks, PartCheck(q, s, n, c)
      PROVE  UNCHANGED Store!storeVars
  BY <1>1, Still DEF PartCheck, Idle
<1>2. ASSUME NEW s \in Sessions, NEW body \in Bodies, CompleteCheck(q, s, body)
      PROVE  Store!Ask(q)
  <2>1. session[s].target \in Targets
    BY <1>2 DEF CompleteCheck, IsOpen, TablesOK
  <2>. DEFINE new == [Idle EXCEPT !.at = "open", !.session = s, !.body = body,
                                  !.target = session[s].target]
  <2>2. new.target \in Targets /\ new.body \in Bodies /\ new.outcome = "none"
    BY <2>1 DEF Idle
  <2>3. /\ request[q] = Idle /\ request' = [request EXCEPT ![q] = new]
        /\ UNCHANGED <<published, live>>
    BY <1>2 DEF CompleteCheck
  <2>. HIDE DEF new
  <2>. QED
    BY <2>2, <2>3, Asked
<1>3. ASSUME NEW t \in Targets, NEW body \in Bodies, SinglePrepare(q, t, body)
      PROVE  Store!Ask(q)
  <2>. DEFINE new == [Idle EXCEPT !.at = "prepared", !.target = t, !.body = body,
                                  !.content = Content(t, body)]
  <2>2. new.target \in Targets /\ new.body \in Bodies /\ new.outcome = "none"
    BY DEF Idle
  <2>3. /\ request[q] = Idle /\ request' = [request EXCEPT ![q] = new]
        /\ UNCHANGED <<published, live>>
    BY <1>3 DEF SinglePrepare
  <2>. HIDE DEF new
  <2>. QED
    BY <2>2, <2>3, Asked
<1>4. ASSUME NEW s \in Sessions, AbortCheck(q, s)
      PROVE  UNCHANGED Store!storeVars
  BY <1>4, Still DEF AbortCheck, Idle
<1>. QED
  BY <1>1, <1>2, <1>3, <1>4 DEF Arrive

LEMMA HandleMaps ==
    ASSUME IInv, NEW q \in Requests, Handle(q)
    PROVE  \/ Store!Create(q) \/ Store!Confirm(q) \/ Store!Decline(q) \/ Store!Leave(q)
           \/ UNCHANGED Store!storeVars
<1>1. request \in [Requests -> RequestState] /\ request[q] \in RequestState
  BY DEF IInv
<1>2. CASE \E place \in Places : Goto(q, place) /\ UNCHANGED <<published, live>>
  BY <1>1, <1>2, Still DEF Goto, RequestState
<1>3. CASE Finish(q) /\ UNCHANGED <<published, live>>
  BY <1>1, <1>3, Left
<1>4. CASE CompleteRead(q)
  <2>. DEFINE new == [request[q] EXCEPT !.at = "read",
                                        !.manifest = parts[request[q].session]]
  <2>1. /\ new.body = request[q].body /\ new.target = request[q].target
        /\ new.outcome = request[q].outcome
    BY <1>1 DEF RequestState
  <2>2. request' = [request EXCEPT ![q] = new] /\ UNCHANGED <<published, live>>
    BY <1>1, <1>4 DEF CompleteRead
  <2>. HIDE DEF new
  <2>. QED
    BY <1>1, <2>1, <2>2, Still
<1>5. CASE CompleteAssemble(q)
  <2>. DEFINE new == [request[q] EXCEPT !.at = "prepared", !.manifest = NoParts,
                        !.content = Content(request[q].target, Assembled(q))]
  <2>1. /\ new.body = request[q].body /\ new.target = request[q].target
        /\ new.outcome = request[q].outcome
    BY <1>1 DEF RequestState
  <2>2. request' = [request EXCEPT ![q] = new] /\ UNCHANGED <<published, live>>
    BY <1>1, <1>5 DEF CompleteAssemble
  <2>. HIDE DEF new
  <2>. QED
    BY <1>1, <2>1, <2>2, Still
<1>6. PartStore(q) \/ InsertNothing(q) \/ CompleteFinish(q) =>
        \E place \in Places : Goto(q, place) /\ UNCHANGED <<published, live>>
  BY DEF PartStore, InsertNothing, CompleteFinish, Places
<1>7. PartRecord(q) \/ Respond(q) \/ AbortSet(q) \/ Fail(q) =>
        Finish(q) /\ UNCHANGED <<published, live>>
  BY DEF PartRecord, Respond, AbortSet, Fail
<1>. QED
  BY <1>2, <1>3, <1>4, <1>5, <1>6, <1>7, InsertCreates, CompareAnswers DEF Handle

(* Publishing, with its sessions, parts, rivals, retries, collections and   *)
(* early ends, implements a store that handles one request at a time.       *)
THEOREM Implements == Spec => ImplementsStore
<1>1. Init => Store!StoreInit
  BY DEF Init, Store!StoreInit, Wish, Idle, Store!NoWish
<1>2. IInv /\ [Next]_vars => [Store!StoreNext]_(Store!storeVars)
  <2>. SUFFICES ASSUME IInv, [Next]_vars PROVE [Store!StoreNext]_(Store!storeVars)
    OBVIOUS
  <2>1. ASSUME NEW q \in Requests, Arrive(q) \/ Handle(q)
        PROVE  [Store!StoreNext]_(Store!storeVars)
    BY <2>1, ArriveMaps, HandleMaps DEF Store!StoreNext
  <2>2. CASE DeleteRepo
    <3>1. \A p \in Requests : Wish(p)' = Wish(p) /\ request'[p].outcome = request[p].outcome
      BY <2>2 DEF DeleteRepo, Wish
    <3>. QED
      BY <2>2, <3>1 DEF DeleteRepo, Store!Close, Store!StoreNext
  <2>3. CASE UNCHANGED <<published, request, live>>
    BY <2>3, Quiet DEF Wish
  <2>4. \/ \E q \in Requests : Arrive(q) \/ Handle(q)
        \/ DeleteRepo
        \/ UNCHANGED <<published, request, live>>
    BY DEF Next, OpenSession, Reap, vars
  <2>. QED
    BY <2>1, <2>2, <2>3, <2>4
<1>. QED
  BY <1>1, <1>2, Invariant, PTL DEF Spec, ImplementsStore, Store!StoreSpec
=============================================================================
