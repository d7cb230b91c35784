CONSTANTS
    ann = ann
    p1 = p1
    p2 = p2
    c1 = c1
    c2 = c2
    s1 = s1
    s2 = s2
    l1 = l1
    l2 = l2
    f1 = f1
    d1 = d1
    i1 = i1
    i2 = i2
    k1 = k1
    m1 = m1
    m2 = m2
    None = None
    NoCap = NoCap
    Forever = Forever
    Users = {ann}
    Passwords = {p1, p2}
    Calls = {c1, c2}
    Sessions = {s1, s2}
    Links = {l1, l2}
    Flows = {f1}
    Devices = {d1}
    ConnIds = {i1, i2}
    Secrets = {k1}
    DomainRules <- MCDomainRules
    MaxCalls = 3
    MaxActs = 1
    Keys = {"ip", "email"}
    BasicKeys = {"basic"}
    Clients = {"b1", "b2"}
    Limit <- MCLimit
    Window = 2
    MaxWindow = 3
    Kept = 2
    SweepThreshold = 2
    LastTick = 5
    Places = {s1, s2}
    Workloads = {l1, l2}
    Issuers = {"forge"}
    Days = {1, 2}
    Requests = {c1, c2}
    MaxRequests = 3
    MaxMinted = 1
    Skus = {m1, m2}
    Products = {"p", "q"}
    SetNames = {"p", "q"}
    Caps = {0, 1}
    Sellers = {c1, c2}
    PoolSizes = {2, 3}
    MaxSales = 3
SPECIFICATION MCSpec
CHECK_DEADLOCK FALSE
SYMMETRY Symmetry
INVARIANTS
    ResetSignsOut
    OneUseEach
    LinksNeedRace
    OffboardedIsOut
    SecretLossNeedsRace
    LimitsHold
    TokenWithinPolicy
    ExchangeMatches
    SalesHold
PROPERTY CapHolds
