SPECIFICATION Spec
CONSTANTS
    a = a
    b = b
    z1 = z1
    z2 = z2
    Sessions = {s1}
    Requests = {q1, q2}
    Versions = {v1}
    Channels = {c1}
    Chunks = {a, b}
    Bodies <- MCBodies
    Zips = {z1, z2}
    ArchiveOf <- MCArchiveOf
    Refused = Refused
    NoChunk = NoChunk
    NoSession = NoSession
    NoTarget = NoTarget
SYMMETRY Symmetry
INVARIANTS
    AnswersTruthful
    CompletedIsPublished
PROPERTIES
    ImplementsStore
CHECK_DEADLOCK FALSE
