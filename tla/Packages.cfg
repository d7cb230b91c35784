SPECIFICATION MCSpec
CONSTANTS
    Names = {n1}
    Calls = {c1, c2, c3}
    NoName = NoName
    r1 = r1
    r2 = r2
    r3 = r3
    Repositories = {r1, r2, r3}
    OrgOf <- MCOrgOf
    MemberNames = {n1}
    Lists <- MCLists
    Admins = {a1, a2}
    Writers = {w1}
    NoRepo = NoRepo
    Unnamed = Unnamed
SYMMETRY Symmetry
INVARIANTS
    DeclaredStands
    PublicOnlyHolds
    MixingNeedsRace
    NestingNeedsRace
CHECK_DEADLOCK FALSE
