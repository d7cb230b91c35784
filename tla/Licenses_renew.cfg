CONSTANTS
    k1 = k1
    k2 = k2
    o1 = o1
    c1 = c1
    c2 = c2
    year = year
    forever = forever
    s1 = s1
    s2 = s2
    p1 = p1
    p2 = p2
    None = None
    Keys = {k1, k2}
    Orders = {o1}
    Calls = {c1}
    Editions = {year, forever}
    Kind <- MCKind
    SetOf <- MCSetOf
    Frozen = {forever}
    Sets = {s1, s2}
    Packages = {p1}
    Sold <- MCSold
    OperatorBounds <- MCOperatorBounds
    Period = 1
    Major = 1
    Horizon = 1
    MaxUntil = 2
    MaxActs = 1
SPECIFICATION Spec
CHECK_DEADLOCK FALSE
PROPERTY RenewalOnlyExtends
