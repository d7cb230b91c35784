SPECIFICATION MCSpec
CONSTANTS
    Blobs = {b1, b2}
    Repos = {r1, r2}
    Keys = {k1}
    SnapshotIds = {s1}
    Writers = {w1, w2}
    Collectors = {c1, c2}
    Grace = 1
    MaxTime = 3
    NoBlob = NoBlob
    Repositories = {r}
    Variants = {b1, b2}
    Uploads = {w1, w2}
    Prunes = {c1, c2}
    Keeps = {0, 1, 2}
    MaxSnapshots = 4
    NoChannel = NoChannel
SYMMETRY Symmetry
INVARIANTS
    RefcountExact
    GraceProtects
    LossNeedsOverlap
    LatestIsNewest
    LossNeedsOvertake
PROPERTIES
    NewestSurvives
CHECK_DEADLOCK FALSE
