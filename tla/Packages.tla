------------------------------ MODULE Packages ------------------------------
(***************************************************************************)
(* What a repository's packages may be shared as: the visibility that      *)
(* publishes, syncs and declarations write, and the repository's settings  *)
(* that restrict it.                                                       *)
(*                                                                         *)
(* upsert_package and set_package_visibility read the settings and the     *)
(* package in statements before the one that writes.  Every statement is   *)
(* of one repository, which exists throughout; that it has no members of   *)
(* its own is module Members.                                              *)
(***************************************************************************)
EXTENDS Naturals

CONSTANTS
    Names,      \* packages.name
    Calls,      \* publishes, syncs, declarations and settings commands running
    NoName

Visibilities == {"public", "private"}
Flags        == {"privatePackages", "anonymousAccess"}

VARIABLES
    package,    \* visibility, and whether visibility_declared_at is set
    settings,   \* allow_private_packages and anonymous_access
    call,       \* where each call is and what it has read
    said,       \* history: the last declaration of each package
    allowed     \* history: private packages were allowed at some time

vars == <<package, settings, call, said, allowed>>

Absent     == [visibility |-> "none", declared |-> FALSE]
PackageRow == [visibility : Visibilities, declared : BOOLEAN] \union {Absent}
Settings   == [Flags -> BOOLEAN]

Places == {"idle", "defaulting", "upserting", "checking", "inserting",
           "allowing", "declaring", "saving"}

CallState == [at : Places, kind : {"none", "publish", "sync", "declare", "settings"},
              name : Names \union {NoName}, visibility : Visibilities \union {"none"},
              declares : BOOLEAN, read : Settings]

Idle == [at |-> "idle", kind |-> "none", name |-> NoName, visibility |-> "none",
         declares |-> FALSE, read |-> [f \in Flags |-> FALSE]]

TypeOK ==
    /\ package \in [Names -> PackageRow]
    /\ settings \in Settings
    /\ call \in [Calls -> CallState]
    /\ said \in [Names -> Visibilities \union {"none"}]
    /\ allowed \in BOOLEAN
    /\ \A n \in Names : package[n].declared <=> said[n] # "none"

Init ==
    /\ package = [n \in Names |-> Absent]
    /\ settings \in Settings
    /\ call = [c \in Calls |-> Idle]
    /\ said = [n \in Names |-> "none"]
    /\ allowed = settings["privatePackages"]

Goto(c, place) == call' = [call EXCEPT ![c].at = place]

Start(c, kind, n, place, visibility, declares) ==
    /\ call[c] = Idle
    /\ call' = [call EXCEPT ![c] = [Idle EXCEPT !.at = place, !.kind = kind, !.name = n,
                                    !.visibility = visibility, !.declares = declares]]

(* Declaring private asks the settings first; declaring public does not.    *)
Declaring(visibility) == IF visibility = "private" THEN "allowing" ELSE "declaring"

-----------------------------------------------------------------------------
(* persist of a publish that asks for a visibility ("none": for nothing):   *)
(* it must agree with the package there is, and a new package of which one  *)
(* is asked is declared after the upsert ...                                *)
Publish(c, n, asked) ==
    LET current == package[n].visibility IN
    /\ current = "none" \/ asked \in {current, "none"}
    /\ Start(c, "publish", n,
             IF current = "none" /\ asked = "none" THEN "defaulting" ELSE "upserting",
             IF current = "none" THEN asked ELSE current,
             current = "none" /\ asked # "none")
    /\ UNCHANGED <<package, settings, said, allowed>>

(* ... and one of which none is asked is private where that is allowed.     *)
PublishDefault(c) ==
    /\ call[c].at = "defaulting"
    /\ call' = [call EXCEPT ![c].at = "upserting",
          ![c].visibility = IF settings["privatePackages"] THEN "private" ELSE "public"]
    /\ UNCHANGED <<package, settings, said, allowed>>

(* A sync upserts with the visibility derived from the package's source.    *)
Sync(c, n, derived) ==
    /\ Start(c, "sync", n, "upserting", derived, FALSE)
    /\ UNCHANGED <<package, settings, said, allowed>>

(* Mutant of UpsertRead: a visibility that was only derived counts, too.    *)
UpsertRead_AnyCurrent(c) ==
    LET row == package[call[c].name]
        effective == IF row # Absent THEN row.visibility ELSE call[c].visibility
    IN
    /\ call[c].at = "upserting"
    /\ Goto(c, IF effective = "private" THEN "checking" ELSE "inserting")
    /\ UNCHANGED <<package, settings, said, allowed>>

(* upsert_package: the visibility the row would have, a declared one before *)
(* the one passed in, decides whether the settings are asked ...            *)
UpsertRead(c) ==
    LET row == package[call[c].name]
        effective == IF row.declared THEN row.visibility ELSE call[c].visibility
    IN
    /\ call[c].at = "upserting"
    /\ Goto(c, IF effective = "private" THEN "checking" ELSE "inserting")
    /\ UNCHANGED <<package, settings, said, allowed>>

(* ... and they must allow it ...                                           *)
UpsertAllowed(c) ==
    /\ call[c].at = "checking"
    /\ settings["privatePackages"]
    /\ Goto(c, "inserting")
    /\ UNCHANGED <<package, settings, said, allowed>>

Inserted(c) ==
    IF call[c].declares THEN [call EXCEPT ![c].at = Declaring(call[c].visibility)]
    ELSE [call EXCEPT ![c] = Idle]

(* Mutant of UpsertInsert: the row's declaration is not looked at.          *)
UpsertInsert_Derives(c) ==
    /\ call[c].at = "inserting"
    /\ package' = [package EXCEPT ![call[c].name].visibility = call[c].visibility]
    /\ call' = Inserted(c)
    /\ UNCHANGED <<settings, said, allowed>>

(* ... the insert, which on conflict leaves a declared visibility alone.    *)
UpsertInsert(c) ==
    LET n == call[c].name IN
    /\ call[c].at = "inserting"
    /\ package' = IF package[n].declared THEN package
                  ELSE [package EXCEPT ![n].visibility = call[c].visibility]
    /\ call' = Inserted(c)
    /\ UNCHANGED <<settings, said, allowed>>

-----------------------------------------------------------------------------
(* set_package_visibility, by an operator ...                               *)
Declare(c, n, visibility) ==
    /\ Start(c, "declare", n, Declaring(visibility), visibility, TRUE)
    /\ UNCHANGED <<package, settings, said, allowed>>

(* ... private is allowed ...                                               *)
DeclareAllowed(c) ==
    /\ call[c].at = "allowing"
    /\ settings["privatePackages"]
    /\ Goto(c, "declaring")
    /\ UNCHANGED <<package, settings, said, allowed>>

(* ... and the row, if there is one, is declared.                           *)
DeclareUpdate(c) ==
    LET n == call[c].name IN
    /\ call[c].at = "declaring"
    /\ IF package[n] = Absent THEN UNCHANGED <<package, said>>
       ELSE /\ package' = [package EXCEPT ![n] =
                  [visibility |-> call[c].visibility, declared |-> TRUE]]
            /\ said' = [said EXCEPT ![n] = call[c].visibility]
    /\ call' = [call EXCEPT ![c] = Idle]
    /\ UNCHANGED <<settings, allowed>>

(* `sconce repo-settings` with one flag: the settings are read ...          *)
SettingsRead(c, flag, value) ==
    /\ call[c] = Idle
    /\ call' = [call EXCEPT ![c] = [Idle EXCEPT !.at = "saving", !.kind = "settings",
          !.read = [settings EXCEPT ![flag] = value]]]
    /\ UNCHANGED <<package, settings, said, allowed>>

(* ... and all of them are written back.                                    *)
SettingsSave(c) ==
    /\ call[c].at = "saving"
    /\ settings' = call[c].read
    /\ allowed' = (allowed \/ call[c].read["privatePackages"])
    /\ call' = [call EXCEPT ![c] = Idle]
    /\ UNCHANGED <<package, said>>

(* The settings form writes what it was filled in with.                     *)
SettingsForm(values) ==
    /\ settings' = values
    /\ allowed' = (allowed \/ values["privatePackages"])
    /\ UNCHANGED <<package, call, said>>

(* A call is refused, its database call fails, or its process dies.         *)
Fail(c) ==
    /\ call[c] # Idle
    /\ call' = [call EXCEPT ![c] = Idle]
    /\ UNCHANGED <<package, settings, said, allowed>>

-----------------------------------------------------------------------------
(* The commands, step by step.                                              *)
PackageVisibility(c) ==
    \/ \E n \in Names, visibility \in Visibilities : Declare(c, n, visibility)
    \/ DeclareAllowed(c) \/ DeclareUpdate(c)

RepoSettings(c) ==
    \/ \E flag \in Flags, value \in BOOLEAN : SettingsRead(c, flag, value)
    \/ SettingsSave(c)

Next ==
    \/ \E c \in Calls, n \in Names :
          \/ \E asked \in Visibilities \union {"none"} : Publish(c, n, asked)
          \/ \E derived \in Visibilities : Sync(c, n, derived)
    \/ \E c \in Calls :
          \/ PublishDefault(c)
          \/ UpsertRead(c) \/ UpsertAllowed(c) \/ UpsertInsert(c)
          \/ PackageVisibility(c) \/ RepoSettings(c)
          \/ Fail(c)
    \/ \E values \in Settings : SettingsForm(values)

Spec == Init /\ [][Next]_vars

-----------------------------------------------------------------------------
(* "A declared visibility is a deliberate licensing statement, so a later   *)
(* sync must not undo it" (migration 0056:7): whatever a publish or sync    *)
(* read before the declaration, what was declared last stands.              *)
DeclaredStands ==
    \A n \in Names : package[n].declared => package[n].visibility = said[n]

(* A repository that never allowed private packages has none: the check is  *)
(* of a visibility read before the insert, and the insert writes another    *)
(* only when that other was allowed.                                        *)
PublicOnlyHolds ==
    \A n \in Names : package[n].visibility = "private" => allowed
=============================================================================
