------------------------------- MODULE Accounts -------------------------------
(***************************************************************************)
(* Accounts of the admin UI and one organisation they belong to: password  *)
(* sign-in, password resets and changes, single sign-on, SCIM offboarding, *)
(* sessions, and the device flow that gives a command line a token.        *)
(*                                                                         *)
(* A request is let in by its session, read in two queries, and acts later *)
(* on what they said.  Sign-ins, resets and SCIM calls take several        *)
(* statements, each an action here; a transaction that holds the rows it   *)
(* checks is one action.  Time passes by what it makes lapse.              *)
(***************************************************************************)
EXTENDS Integers, FiniteSets

CONSTANTS
    Users, Passwords,
    Calls,          \* requests in flight
    Sessions,       \* bound: the session tokens that can be minted
    Links,          \* bound: password-reset tokens
    Flows,          \* bound: states of single sign-ons
    Devices,        \* bound: device codes
    ConnIds,        \* bound: rows of oidc_connections
    Secrets,        \* client secrets
    DomainRules,    \* [allows, admins]: the users the domain lists let in, or
                    \* make superadmins
    MaxCalls,       \* bound: requests served
    MaxActs,        \* bound: what the command line does and the clock ends
    None

Scopes  == {"org", "default"}
Tickets == Sessions \union Links \union Flows \union Devices \union ConnIds

(* Client secrets as they are stored, and rows of oidc_connections.         *)
Stored   == [text : Secrets, sealed : BOOLEAN]
ConnRows == [id : ConnIds \union {"first"}, rule : DomainRules, secret : Stored \union {None}]

(* A token belongs to one table, and null is none of the values.            *)
ASSUME AccountsAssumption ==
    /\ MaxCalls \in Nat /\ MaxActs \in Nat
    /\ DomainRules \subseteq [allows : SUBSET Users, admins : SUBSET Users]
    /\ Links \intersect Flows = {} /\ Links \intersect Devices = {} /\ Flows \intersect Devices = {}
    /\ None \notin Users \union Passwords \union Tickets \union Secrets \union ConnRows
    /\ None # "random" /\ "first" \notin ConnIds

VARIABLES
    account,    \* users: password and superadmin
    member,     \* user_tenants: role and active
    sessions, resets, devices,
    conns,      \* oidc_connections, one for each scope
    flows,      \* oidc_flows
    scim,       \* whether the organisation has a SCIM token
    call,
    issued,     \* the tokens, states and row ids drawn so far
    served, acts,
    epoch,      \* history: how often a user's password was reset or changed
    keeper,     \* history: the session the last of these left alone
    gone,       \* history: "in", "leaving" while SCIM offboards, "out" after
    spent,      \* history: what each link, state and code was good for
    early,      \* history: requests let in before their user was offboarded
    crossed,    \* history: users who asked for a link while asking for one,
                \* and scopes saved while they were being saved
    latest      \* history: the client secret given last for each scope

people == <<account, member>>
sso    == <<conns, flows, scim, latest>>
past   == <<epoch, keeper, gone, spent, early, crossed>>
vars   == <<account, member, sessions, resets, devices, conns, flows, scim, call, issued,
            served, acts, epoch, keeper, gone, spent, early, crossed, latest>>

NoUser   == [pw |-> None, super |-> FALSE]
NoMember == [role |-> None, active |-> FALSE]
Idle     == [at |-> "idle"]
Known(u) == account[u] # NoUser
Fresh(S) == S \ issued

-----------------------------------------------------------------------------
(* Statements of the catalog, as what they make of the tables.              *)

(* Upsert: an existing account gets the password and the flag.              *)
CreateUser(u, p, super) == account' = [account EXCEPT ![u] = [pw |-> p, super |-> super]]

(* Upsert: an existing membership gets the role and is active again.        *)
AddUserToTenant(u, role) ==
    /\ Known(u)
    /\ member' = [member EXCEPT ![u] = [role |-> role, active |-> TRUE]]
    /\ gone'   = [gone EXCEPT ![u] = "in"]

RemoveFromTenant(u) == member' = [member EXCEPT ![u] = NoMember]

VerifyCredentials(u, p) == Known(u) /\ account[u].pw = p

(* "at" and "late" are history: the passwords before it, and whether the    *)
(* user was being offboarded when it was opened.                            *)
CreateSession(u, s) ==
    /\ s \in Fresh(Sessions)
    /\ sessions' = sessions \union
                    {[id |-> s, user |-> u, at |-> epoch[u], late |-> gone[u] # "in"]}
    /\ issued'   = issued \union {s}

DeleteUserSessions(u) == sessions' = {s \in sessions : s.user # u}

DeleteSession(id) == sessions' = {s \in sessions : s.id # id}

RevokeSessionForUser(u, id) == sessions' = {s \in sessions : s.user # u \/ s.id # id}

ListUsers == {u \in Users : Known(u)}

(* Password resets.                                                         *)
Outstanding(u) == {r \in resets : r.user = u}

InsertReset(u, l, dropped) ==
    resets' = {r \in resets : r.id \notin dropped} \union {[id |-> l, user |-> u, open |-> TRUE]}

PasswordResetValid(r) == r.open

(* Mutant of Tenant: an inactive membership counts.                         *)
Tenant_AnyMember(u) == member[u] # NoMember

(* Only an active membership grants access, to the organisation or to       *)
(* manage it.                                                               *)
Tenant(u) == member[u].active
Manager(u) == Tenant(u) /\ member[u].role = "admin"

(* Replaces the row at the scope; flows begun with the old row go with it.  *)
SetOidcConnection(sc, rule, secret, id) ==
    /\ id \in Fresh(ConnIds)
    /\ conns'  = [conns EXCEPT ![sc] = [id |-> id, rule |-> rule, secret |-> secret]]
    /\ flows'  = {f \in flows : conns[sc] = None \/ f.conn # conns[sc].id}
    /\ issued' = issued \union {id}

(* A flow keeps the connection it began with, and is deleted by whoever     *)
(* comes back with its state.                                               *)
CreateOidcFlow(f, sc) == flows' = flows \union {[id |-> f, conn |-> conns[sc].id]}

ConsumeOidcFlow(f) == flows' = flows \ {f}

ConnById(id) == {sc \in Scopes : conns[sc] # None /\ conns[sc].id = id}

(* An organisation's connection that lists the domain, else the default.    *)
ConnForEmail(u) ==
    IF conns["org"] # None /\ u \in conns["org"].rule.allows THEN "org" ELSE "default"

(* The user if there is none, with a password nobody knows; the flag is     *)
(* set either way.                                                          *)
FindOrCreateSsoUser(u, super) ==
    account' = [account EXCEPT ![u] = [pw    |-> IF Known(u) THEN @.pw ELSE "random",
                                       super |-> super]]

CreateScimToken == scim' = TRUE

ScimMember(u) == member[u] # NoMember

(* Active again; an existing membership keeps its role.                     *)
ScimProvision(u) ==
    /\ account' = IF Known(u) THEN account
                  ELSE [account EXCEPT ![u] = [pw |-> "random", super |-> FALSE]]
    /\ member'  = [member EXCEPT ![u] = [role   |-> IF @ = NoMember THEN "member" ELSE @.role,
                                         active |-> TRUE]]
    /\ gone'    = [gone EXCEPT ![u] = "in"]

(* What there is of the user when the membership goes was there before it.  *)
ScimSetActive(u, active) ==
    /\ ScimMember(u)
    /\ member' = [member EXCEPT ![u].active = active]
    /\ gone'   = [gone EXCEPT ![u] = IF active THEN "in" ELSE "leaving"]
    /\ IF active THEN UNCHANGED <<sessions, early>>
       ELSE /\ sessions' = {IF s.user = u THEN [s EXCEPT !.late = FALSE] ELSE s : s \in sessions}
            /\ early' = early \union {c \in Calls : call[c].at = "page" /\ call[c].user = u}

-----------------------------------------------------------------------------
(* What there may be by then: accounts, members, somebody signed in, single *)
(* sign-on through the organisation's connection, SCIM, a code to approve.  *)
Init ==
    /\ account \in [Users -> {NoUser} \union [pw : Passwords, super : BOOLEAN]]
    /\ member \in [Users -> {NoMember, [role |-> "admin", active |-> TRUE]}]
    /\ \A u \in Users : Known(u) \/ member[u] = NoMember
    /\ sessions \in {{}} \union {{[id |-> s, user |-> u, at |-> 0, late |-> FALSE]} :
                                    s \in Sessions, u \in {x \in Users : Known(x)}}
    /\ devices \in {{}} \union {{[id |-> d, status |-> "pending"]} : d \in Devices}
    /\ resets = {} /\ flows = {}
    /\ \E rule \in DomainRules :
        conns \in {[sc \in Scopes |-> None],
                  [org |-> [id |-> "first", rule |-> rule, secret |-> None], default |-> None]}
    /\ scim \in BOOLEAN
    /\ call = [c \in Calls |-> Idle]
    /\ issued = {x.id : x \in sessions \union devices}
    /\ served = 0 /\ acts = 0
    /\ epoch = [u \in Users |-> 0]
    /\ keeper = [u \in Users |-> None]
    /\ gone = [u \in Users |-> "in"]
    /\ spent = [t \in Links \union Flows \union Devices |-> 0]
    /\ early = {} /\ crossed = {}
    /\ latest = [sc \in Scopes |-> None]

Starts(c, r) ==
    /\ call[c] = Idle /\ served < MaxCalls
    /\ served' = served + 1
    /\ call'   = [call EXCEPT ![c] = r]
    /\ UNCHANGED acts

Goes(c, at, r) ==
    /\ call[c].at = at
    /\ call' = [call EXCEPT ![c] = r]
    /\ UNCHANGED <<served, acts>>

Operator ==
    /\ acts < MaxActs
    /\ acts' = acts + 1
    /\ UNCHANGED <<call, served>>

-----------------------------------------------------------------------------
(* Signing in with a password: the session is opened after the check, on    *)
(* its answer.  (The limiter refuses some; see RateLimit.)                  *)
LoginVerify(c, u, p) ==
    /\ VerifyCredentials(u, p)
    /\ Starts(c, [at |-> "verified", user |-> u])
    /\ UNCHANGED <<people, sessions, resets, devices, sso, issued, past>>

LoginSession(c) ==
    /\ Goes(c, "verified", Idle)
    /\ \E s \in Sessions : CreateSession(call[c].user, s)
    /\ UNCHANGED <<people, resets, devices, sso, past>>

(* Forgotten passwords.  The links a request deletes are those there were   *)
(* when it ran the statement.                                               *)
ForgotRead(c, u) ==
    /\ Known(u)
    /\ Starts(c, [at |-> "forgot", user |-> u, drop |-> {r.id : r \in Outstanding(u)}])
    /\ crossed' = IF \E d \in Calls : call[d].at = "forgot" /\ call[d].user = u
                  THEN crossed \union {u} ELSE crossed
    /\ UNCHANGED <<people, sessions, resets, devices, sso, issued, epoch, keeper, gone, spent, early>>

(* Mutant of ForgotCommit: earlier links stay.                              *)
ForgotCommit_Keeps(c) ==
    /\ Goes(c, "forgot", Idle)
    /\ \E l \in Fresh(Links) :
        /\ InsertReset(call[c].user, l, {})
        /\ issued' = issued \union {l}
    /\ UNCHANGED <<people, sessions, devices, sso, past>>

ForgotCommit(c) ==
    /\ Goes(c, "forgot", Idle)
    /\ \E l \in Fresh(Links) :
        /\ InsertReset(call[c].user, l, call[c].drop)
        /\ issued' = issued \union {l}
    /\ UNCHANGED <<people, sessions, devices, sso, past>>

(* The form is checked first, the link is consumed after.                   *)
ResetForm(c, r) ==
    /\ PasswordResetValid(r)
    /\ Starts(c, [at |-> "chosen", link |-> r.id])
    /\ UNCHANGED <<people, sessions, resets, devices, sso, issued, past>>

(* Mutant of ResetPassword: the link is not asked whether it was used.      *)
ResetPassword_Reusable(c, p) ==
    /\ Goes(c, "chosen", Idle)
    /\ \E r \in resets :
        /\ r.id = call[c].link
        /\ resets'  = (resets \ {r}) \union {[r EXCEPT !.open = FALSE]}
        /\ account' = [account EXCEPT ![r.user].pw = p]
        /\ DeleteUserSessions(r.user)
        /\ epoch'   = [epoch EXCEPT ![r.user] = @ + 1]
        /\ keeper'  = [keeper EXCEPT ![r.user] = None]
        /\ spent'   = [spent EXCEPT ![r.id] = @ + 1]
    /\ UNCHANGED <<member, devices, sso, issued, gone, early, crossed>>

ResetPassword(c, p) ==
    /\ Goes(c, "chosen", Idle)
    /\ \E r \in resets :
        /\ r.id = call[c].link /\ r.open
        /\ resets'  = (resets \ {r}) \union {[r EXCEPT !.open = FALSE]}
        /\ account' = [account EXCEPT ![r.user].pw = p]
        /\ DeleteUserSessions(r.user)
        /\ epoch'   = [epoch EXCEPT ![r.user] = @ + 1]
        /\ keeper'  = [keeper EXCEPT ![r.user] = None]
        /\ spent'   = [spent EXCEPT ![r.id] = @ + 1]
    /\ UNCHANGED <<member, devices, sso, issued, gone, early, crossed>>

(* It was used, replaced or lapsed in between.                              *)
ResetLate(c) ==
    /\ Goes(c, "chosen", Idle)
    /\ ~ \E r \in resets : r.id = call[c].link /\ r.open
    /\ UNCHANGED <<people, sessions, resets, devices, sso, issued, past>>

-----------------------------------------------------------------------------
(* Single sign-on.  A secret nobody sealed cannot be opened, and neither    *)
(* can the identity provider be asked then.                                 *)
OidcSecret(conn) == IF conn.secret = None THEN TRUE ELSE conn.secret.sealed

AuthStart(c, sc) ==
    /\ conns[sc] # None /\ OidcSecret(conns[sc])
    /\ Starts(c, Idle)
    /\ \E f \in Fresh(Flows) :
        /\ CreateOidcFlow(f, sc)
        /\ issued' = issued \union {f}
    /\ UNCHANGED <<people, sessions, resets, devices, conns, scim, latest, past>>

(* Sends the browser of an address to its connection.                       *)
AuthRoute(c, u) == conns[ConnForEmail(u)] # None /\ AuthStart(c, ConnForEmail(u))

(* The browser comes back with the state: it is good once.                  *)
AuthCallback(c, f) ==
    /\ Starts(c, [at |-> "consumed", flow |-> f.id, conn |-> f.conn])
    /\ ConsumeOidcFlow(f)
    /\ UNCHANGED <<people, sessions, resets, devices, conns, scim, latest, issued, past>>

(* The provider says who it is; the lists of the connection, read before,   *)
(* say whether that is enough.  No list lets everybody in, and no list      *)
(* makes nobody a superadmin.  The read, the provider's answer and the      *)
(* account are one step: only a change of the lists would tell them apart.  *)
AuthIdentity(c, u) ==
    /\ call[c].at = "consumed"
    /\ \E sc \in ConnById(call[c].conn) :
        LET rule == conns[sc].rule IN
        /\ rule.allows = {} \/ u \in rule.allows
        /\ Goes(c, "consumed", [at |-> IF sc = "org" THEN "identified" ELSE "joined",
                                user |-> u, flow |-> call[c].flow])
        /\ FindOrCreateSsoUser(u, u \in rule.admins)
        /\ UNCHANGED <<member, sessions, resets, devices, sso, issued, past>>

(* The connection is gone, the provider fails, or the domain is not let in. *)
AuthRefused(c) ==
    /\ Goes(c, "consumed", Idle)
    /\ UNCHANGED <<people, sessions, resets, devices, sso, issued, past>>

AuthJoin(c) ==
    /\ Goes(c, "identified", [call[c] EXCEPT !.at = "joined"])
    /\ AddUserToTenant(call[c].user, "member")
    /\ UNCHANGED <<account, sessions, resets, devices, sso, issued, epoch, keeper, spent, early,
                   crossed>>

AuthSession(c) ==
    /\ Goes(c, "joined", Idle)
    /\ \E s \in Sessions : CreateSession(call[c].user, s)
    /\ spent' = [spent EXCEPT ![call[c].flow] = @ + 1]
    /\ UNCHANGED <<people, resets, devices, sso, epoch, keeper, gone, early, crossed>>

-----------------------------------------------------------------------------
(* SCIM calls of the organisation's provider, let in by its token.          *)
ScimOrg == scim

ScimCreateCheck(c, u) ==
    /\ ScimOrg /\ ~ ScimMember(u)
    /\ Starts(c, [at |-> "provision", user |-> u])
    /\ UNCHANGED <<people, sessions, resets, devices, sso, issued, past>>

ScimCreateUser(c) ==
    /\ Goes(c, "provision", Idle)
    /\ ScimProvision(call[c].user)
    /\ UNCHANGED <<sessions, resets, devices, sso, issued, epoch, keeper, spent, early, crossed>>

(* PATCH and PUT, and DELETE as active = false.                             *)
ScimApplyActive(c, u, active) ==
    /\ ScimOrg
    /\ Starts(c, IF active THEN Idle ELSE [at |-> "offboarding", user |-> u])
    /\ ScimSetActive(u, active)
    /\ UNCHANGED <<account, resets, devices, sso, issued, epoch, keeper, spent, crossed>>

ScimPatchUser(c, u, active) == ScimApplyActive(c, u, active)

ScimDeleteUser(c, u) == ScimApplyActive(c, u, FALSE)

ScimRevoke(c) ==
    /\ Goes(c, "offboarding", Idle)
    /\ DeleteUserSessions(call[c].user)
    /\ gone' = [gone EXCEPT ![call[c].user] = IF @ = "leaving" THEN "out" ELSE @]
    /\ UNCHANGED <<people, resets, devices, sso, issued, epoch, keeper, spent, early, crossed>>

(* An error of that statement is not reported: the answer is the same.      *)
ScimRevokeFails(c) ==
    /\ Goes(c, "offboarding", Idle)
    /\ UNCHANGED <<people, sessions, resets, devices, sso, issued, past>>

-----------------------------------------------------------------------------
(* A request of the admin UI: its session and superadmin flag, then the     *)
(* memberships; then what it was sent for, on what these said.              *)
PageSession(c, s) ==
    /\ Starts(c, [at |-> "seen", user |-> s.user, tok |-> s.id, super |-> account[s.user].super])
    /\ UNCHANGED <<people, sessions, resets, devices, sso, issued, past>>

PageMemberships(c) ==
    LET u == call[c].user IN
    /\ Goes(c, "seen", [at |-> "page", user |-> u, tok |-> call[c].tok, super |-> call[c].super,
                        tenant |-> Tenant(u), manager |-> Manager(u)])
    /\ early' = early \ {c}
    /\ UNCHANGED <<people, sessions, resets, devices, sso, issued, epoch, keeper, gone, spent,
                   crossed>>

Can(c)      == call[c].at = "page" /\ (call[c].super \/ call[c].tenant)
CanAdmin(c) == call[c].at = "page" /\ (call[c].super \/ call[c].manager)
Page(c, r)  == Goes(c, "page", r)

(* Pages that only show, and forms that are refused.                        *)
AccountPage(c) ==
    /\ Page(c, Idle)
    /\ UNCHANGED <<people, sessions, resets, devices, sso, issued, past>>

(* Mutant of ChangePassword: the other sessions stay signed in.             *)
ChangePassword_KeepsAll(u, old, new, keep) ==
    /\ VerifyCredentials(u, old)
    /\ account' = [account EXCEPT ![u].pw = new]
    /\ epoch'   = [epoch EXCEPT ![u] = @ + 1]
    /\ keeper'  = [keeper EXCEPT ![u] = keep]
    /\ UNCHANGED sessions

(* The row is locked over the check; the caller's own session stays.        *)
ChangePassword(u, old, new, keep) ==
    /\ VerifyCredentials(u, old)
    /\ account'  = [account EXCEPT ![u].pw = new]
    /\ sessions' = {s \in sessions : s.user # u \/ s.id = keep}
    /\ epoch'    = [epoch EXCEPT ![u] = @ + 1]
    /\ keeper'   = [keeper EXCEPT ![u] = keep]

ChangeMyPassword(c, old, new) ==
    /\ Page(c, Idle)
    /\ new # old
    /\ ChangePassword(call[c].user, old, new, call[c].tok)
    /\ UNCHANGED <<member, resets, devices, sso, issued, gone, spent, early, crossed>>

(* Whatever id the form names: another's session is not deleted.            *)
RevokeMySession(c, s) ==
    /\ Page(c, Idle)
    /\ RevokeSessionForUser(call[c].user, s)
    /\ UNCHANGED <<people, resets, devices, sso, issued, past>>

Logout(c) ==
    /\ Page(c, Idle)
    /\ DeleteSession(call[c].tok)
    /\ UNCHANGED <<people, resets, devices, sso, issued, past>>

CreateUserForm(c, u, p, super) ==
    /\ Page(c, Idle) /\ call[c].super
    /\ CreateUser(u, p, super)
    /\ UNCHANGED <<member, sessions, resets, devices, sso, issued, past>>

GrantTenant(c, u, role) ==
    /\ Page(c, Idle) /\ call[c].super
    /\ AddUserToTenant(u, role)
    /\ UNCHANGED <<account, sessions, resets, devices, sso, issued, epoch, keeper, spent, early,
                   crossed>>

RemoveMember(c, u) ==
    /\ Page(c, Idle) /\ call[c].super
    /\ u \in ListUsers /\ RemoveFromTenant(u)
    /\ UNCHANGED <<account, sessions, resets, devices, sso, issued, past>>

(* Mutant of SaveOidcRead: a blank field clears the secret.                 *)
SaveOidcRead_Clears(c, rule, secret) ==
    /\ CanAdmin(c)
    /\ Page(c, [at |-> "saving", rule |-> rule, given |-> secret # None,
                secret |-> IF secret # None THEN [text |-> secret, sealed |-> FALSE] ELSE None])
    /\ UNCHANGED <<people, sessions, resets, devices, sso, issued, past>>

(* The form of the organisation's connection: a secret left blank keeps the *)
(* stored one, read before the row is replaced, and one given is stored as  *)
(* it is.                                                                   *)
SaveOidcRead(c, rule, secret) ==
    /\ CanAdmin(c)
    /\ Page(c, [at |-> "saving", rule |-> rule, given |-> secret # None,
                secret |-> IF secret # None THEN [text |-> secret, sealed |-> FALSE]
                           ELSE IF conns["org"] = None THEN None ELSE conns["org"].secret])
    /\ UNCHANGED <<people, sessions, resets, devices, sso, issued, past>>

Overlap(sc) == IF sc = "org" /\ (\E d \in Calls : call[d].at = "saving" /\ call'[d] # Idle)
               THEN crossed \union {"saving"} ELSE crossed

SaveOidc(c) ==
    /\ Goes(c, "saving", Idle)
    /\ \E id \in ConnIds : SetOidcConnection("org", call[c].rule, call[c].secret, id)
    /\ latest'  = IF call[c].given THEN [latest EXCEPT !["org"] = call[c].secret] ELSE latest
    /\ crossed' = Overlap("org")
    /\ UNCHANGED <<people, sessions, resets, devices, scim, epoch, keeper, gone, spent, early>>

GenScimToken(c) ==
    /\ CanAdmin(c)
    /\ Page(c, Idle)
    /\ CreateScimToken
    /\ UNCHANGED <<people, sessions, resets, devices, conns, flows, latest, issued, past>>

-----------------------------------------------------------------------------
(* The device flow: a command line waits, a member approves it for the      *)
(* organisation, and the next poll takes the approval and mints the token.  *)
StartDeviceFlow(d) == devices' = devices \union {[id |-> d, status |-> "pending"]}

DeviceFlowPending(d) == d.status = "pending"

ApproveDeviceFlow(d) ==
    /\ DeviceFlowPending(d)
    /\ devices' = (devices \ {d}) \union {[d EXCEPT !.status = "approved"]}

DenyDeviceFlow(d) ==
    /\ DeviceFlowPending(d)
    /\ devices' = (devices \ {d}) \union {[d EXCEPT !.status = "denied"]}

(* An approval is taken with the row.                                       *)
PollDeviceFlow(d) == d.status = "approved" /\ devices' = devices \ {d}

OauthDevice(c) ==
    /\ Starts(c, Idle)
    /\ \E d \in Fresh(Devices) :
        /\ StartDeviceFlow(d)
        /\ issued'  = issued \union {d}
    /\ UNCHANGED <<people, sessions, resets, sso, past>>

DeviceApprove(c, d) ==
    /\ Page(c, Idle) /\ Can(c)
    /\ ApproveDeviceFlow(d)
    /\ UNCHANGED <<people, sessions, resets, sso, issued, past>>

DeviceDeny(c, d) ==
    /\ Page(c, Idle)
    /\ DenyDeviceFlow(d)
    /\ UNCHANGED <<people, sessions, resets, sso, issued, past>>

DeviceTokenPoll(c, d) ==
    /\ Starts(c, [at |-> "minting", device |-> d.id])
    /\ PollDeviceFlow(d)
    /\ UNCHANGED <<people, sessions, resets, sso, issued, past>>

OauthDeviceToken(c) ==
    /\ Goes(c, "minting", Idle)
    /\ spent' = [spent EXCEPT ![call[c].device] = @ + 1]
    /\ UNCHANGED <<people, sessions, resets, devices, sso, issued, epoch, keeper, gone, early,
                   crossed>>

(* A poll that dies before it mints has used the code up.                   *)
DeviceTokenFails(c) ==
    /\ Goes(c, "minting", Idle)
    /\ UNCHANGED <<people, sessions, resets, devices, sso, issued, past>>

-----------------------------------------------------------------------------
(* The command line, and the clock.                                         *)
UserCreate(u, p, super) ==
    /\ Operator
    /\ CreateUser(u, p, super)
    /\ UNCHANGED <<member, sessions, resets, devices, sso, issued, past>>

UserGrant(u, role) ==
    /\ Operator
    /\ AddUserToTenant(u, role)
    /\ UNCHANGED <<account, sessions, resets, devices, sso, issued, epoch, keeper, spent, early,
                   crossed>>

(* The command seals the secret, and none given means none stored.          *)
OidcConfig(sc, rule, secret) ==
    LET stored == IF secret = None THEN None ELSE [text |-> secret, sealed |-> TRUE] IN
    /\ Operator
    /\ \E id \in ConnIds : SetOidcConnection(sc, rule, stored, id)
    /\ latest'  = [latest EXCEPT ![sc] = stored]
    /\ crossed' = Overlap(sc)
    /\ UNCHANGED <<people, sessions, resets, devices, scim, epoch, keeper, gone, spent, early>>

ScimToken ==
    /\ Operator /\ ~ scim
    /\ CreateScimToken
    /\ UNCHANGED <<people, sessions, resets, devices, conns, flows, latest, issued, past>>

Lapse ==
    /\ Operator
    /\ \/ /\ \E s \in sessions : sessions' = sessions \ {s}
          /\ UNCHANGED <<resets, flows, devices>>
       \/ /\ \E r \in resets : r.open /\ resets' = (resets \ {r}) \union {[r EXCEPT !.open = FALSE]}
          /\ UNCHANGED <<sessions, flows, devices>>
       \/ /\ \E f \in flows : flows' = flows \ {f}
          /\ UNCHANGED <<sessions, resets, devices>>
       \/ /\ \E d \in devices : devices' = devices \ {d}
          /\ UNCHANGED <<sessions, resets, flows>>
    /\ UNCHANGED <<people, conns, scim, latest, issued, past>>

Pages(c) ==
    \/ \E s \in sessions : PageSession(c, s)
    \/ PageMemberships(c)
    \/ AccountPage(c)
    \/ \E old, new \in Passwords : ChangeMyPassword(c, old, new)
    \/ \E s \in Sessions : RevokeMySession(c, s)
    \/ Logout(c)
    \/ \E u \in Users, p \in Passwords, super \in BOOLEAN : CreateUserForm(c, u, p, super)
    \/ \E u \in Users, role \in {"member", "admin"} : GrantTenant(c, u, role)
    \/ \E u \in Users : RemoveMember(c, u)
    \/ \E rule \in DomainRules, secret \in Secrets \union {None} : SaveOidcRead(c, rule, secret)
    \/ SaveOidc(c)
    \/ GenScimToken(c)
    \/ \E d \in devices : DeviceApprove(c, d) \/ DeviceDeny(c, d)

SignIns(c) ==
    \/ \E u \in Users, p \in Passwords : LoginVerify(c, u, p)
    \/ LoginSession(c)
    \/ \E u \in Users : ForgotRead(c, u)
    \/ ForgotCommit(c)
    \/ \E r \in resets : ResetForm(c, r)
    \/ \E p \in Passwords : ResetPassword(c, p)
    \/ ResetLate(c)
    \/ \E sc \in Scopes : AuthStart(c, sc)
    \/ \E u \in Users : AuthRoute(c, u)
    \/ \E f \in flows : AuthCallback(c, f)
    \/ \E u \in Users : AuthIdentity(c, u)
    \/ AuthRefused(c) \/ AuthJoin(c) \/ AuthSession(c)

Services(c) ==
    \/ \E u \in Users : ScimCreateCheck(c, u)
    \/ ScimCreateUser(c)
    \/ \E u \in Users, active \in BOOLEAN : ScimPatchUser(c, u, active)
    \/ \E u \in Users : ScimDeleteUser(c, u)
    \/ ScimRevoke(c) \/ ScimRevokeFails(c)
    \/ OauthDevice(c)
    \/ \E d \in devices : DeviceTokenPoll(c, d)
    \/ OauthDeviceToken(c) \/ DeviceTokenFails(c)

CommandLine ==
    \/ \E u \in Users, p \in Passwords, super \in BOOLEAN : UserCreate(u, p, super)
    \/ \E u \in Users, role \in {"member", "admin"} : UserGrant(u, role)
    \/ \E sc \in Scopes, rule \in DomainRules, secret \in Secrets \union {None} :
        OidcConfig(sc, rule, secret)
    \/ ScimToken

Next == (\E c \in Calls : Pages(c) \/ SignIns(c) \/ Services(c)) \/ CommandLine \/ Lapse

Spec == Init /\ [][Next]_vars

-----------------------------------------------------------------------------
(* Types: accounts and memberships are rows or absent, what refers to a     *)
(* user refers to one there is, and a connection's row id is its own.       *)
TypeOK ==
    /\ account \in [Users -> [pw : Passwords \union {None, "random"}, super : BOOLEAN]]
    /\ member \in [Users -> [role : {None, "member", "admin"}, active : BOOLEAN]]
    /\ \A u \in Users : member[u] # NoMember => Known(u)
    /\ \A x \in sessions \union resets : Known(x.user)
    /\ \A f \in flows : ConnById(f.conn) # {}
    /\ conns["org"] # None /\ conns["default"] # None => conns["org"].id # conns["default"].id
    /\ scim \in BOOLEAN

(* A password that was reset or changed signs out: a session opened before  *)
(* the last reset or change of its user is not there any more, but for the  *)
(* one the change was made from (Catalog::reset_password and                *)
(* change_password delete in the transaction that writes the hash).         *)
ResetSignsOut ==
    \A s \in sessions : s.at # epoch[s.user] => s.id = keeper[s.user]

(* What is good once is good once, however the calls that present it        *)
(* overlap: a reset link sets one password, a sign-on state opens one       *)
(* session, a device code is given one token.                               *)
OneUseEach == \A t \in DOMAIN spent : spent[t] <= 1

(* "One live link": a user has two open reset links only if two requests    *)
(* for one ran at the same time.                                            *)
LinksNeedRace ==
    \A u \in Users :
        Cardinality({r \in resets : r.user = u /\ r.open}) <= 1 \/ u \in crossed

(* Offboarded is out: when SCIM has deactivated a member and revoked the    *)
(* sessions, those there are were opened after the deactivation, and no     *)
(* request has the organisation's access but those let in before it.        *)
OffboardedIsOut ==
    /\ \A s \in sessions : gone[s.user] = "out" => s.late
    /\ \A c \in Calls : call[c].at = "page" /\ gone[call[c].user] # "in" /\ call[c].tenant
                            => c \in early

(* A client secret that was stored is lost only to a save that overlapped   *)
(* another one (save_oidc keeps a blank field's secret by reading it back). *)
SecretLossNeedsRace ==
    \A sc \in Scopes : conns[sc] # None /\ conns[sc].secret # latest[sc] => "saving" \in crossed
=============================================================================
