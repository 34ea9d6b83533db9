SPECIFICATION Spec
CONSTANTS
    u1 = u1
    u2 = u2
    o1 = o1
    o2 = o2
    n1 = n1
    n2 = n2
    dflt = dflt
    p1 = p1
    Caller = {c1, c2}
    User = {u1, u2}
    Role = {o1, o2}
    Name = {n1, n2}
    RoleSets <- MCRoleSets
    Password = {dflt, p1}
    Default = dflt
    Empty = Empty
    FirstRow <- MCFirstRow
    FirstLive = {u1, o1}
    MaxOps = 4
INVARIANTS TypeOK PasswordKept LinksEnd
CHECK_DEADLOCK FALSE
