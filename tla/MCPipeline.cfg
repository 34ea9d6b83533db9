SPECIFICATION Spec
CONSTANTS
    Req = {r1, r2}
    ra = ra
    rb = rb
    u1 = u1
    Root = root
    User = {u1}
    Address = ip
    NoUser = NoUser
    NoPolicy = NoPolicy
    None = None
    Ident <- MCIdent
    Before <- MCBefore
    Expiration = 3
    MaxTicks = 2
    RoleLists <- MCRoleLists
    Policies <- MCPolicies
    Path = {"createMenu", "login", "health", "unknownApi", "file"}
    LoggerSkips = {"login"}
    AuthSkips <- MCLogin
    LimiterSkips = {}
    CasbinSkips <- MCCurrent
    Configs <- MCConfigs
    MaxReloads = 1
    MaxFaults = 1
INVARIANTS TypeOK BurstHolds AdmissionJustified RefusalJustified OneReply Accounted
PROPERTY RequestsEnd
CHECK_DEADLOCK FALSE
