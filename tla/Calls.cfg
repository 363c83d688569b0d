SPECIFICATION Spec
CONSTANTS
    p1 = p1  p2 = p2  k1 = k1  k2 = k2
    Roles = {"VIEWER", "ENGINEER"}
    Permitted = {"ENGINEER"}
    Issuer = "mcp-ops"
    Audience = "mcp-ops-api"
    Nothing = Nothing
    Secret = "shared"
    Procs = {p1, p2}
    Keys = {k1, k2}
    Requests <- MCRequests
    Allowed = 1
    Window = 1
    Ttl = 2
    MaxEntries = 1
    MaxTime = 2
    MaxCalls = 3
    MaxCrashes = 1
INVARIANTS
    RunsAccountedFor
    OvershootBounded
    KeysExplained
CHECK_DEADLOCK FALSE
SYMMETRY Anyone
