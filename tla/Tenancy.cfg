CONSTANTS
    o1 = o1
    o2 = o2
    r1 = r1
    r2 = r2
    v1 = v1
    v2 = v2
    Nothing = Nothing
    Orgs = {o1, o2}
    Repos = {r1, r2}
    Slugs = {"acme", " acme", "beta"}
    Trim <- MCTrim
    Hosts = {"packages.example"}
    Remotes = {"git.example/a"}
    Visits = {v1, v2}
    MaxVisits = 3
SPECIFICATION MCSpec
CHECK_DEADLOCK FALSE
SYMMETRY Symmetry
INVARIANTS
    OldNamesFollow
    AnswersAreRight
