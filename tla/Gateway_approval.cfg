SPECIFICATION FairSpec
CONSTANTS
    c1 = c1  c2 = c2  c3 = c3
    operator = operator  admin = admin
    restart = restart  deploy = deploy  status = status  garbled = garbled
    k1 = k1  k2 = k2  k3 = k3
    Calls = {c1, c2, c3}
    ApprovalIds = {c1, c2, c3}
    Principals = {operator, admin}
    Approvers = {operator, admin}
    Operations = {restart, deploy, status, garbled}
    Tools = {restart, deploy, status}
    ToolOf <- MCToolOf
    Governed = {restart, deploy}
    Permitted <- MCPermitted
    Malformed = {garbled}
    Keys = {k1, k2, k3}
    IdemKeys <- MCIdemKeys
    Buckets <- MCBuckets
    Responses <- MCResponses
    Requests <- ApprovalRequests
    Nobody = Nobody
    NoOperation = NoOperation
    NoResponse = NoResponse
    NoRequest = NoRequest
    NoApproval = NoApproval
    Isolation = "thread"
    ApprovalTtl = 1
    IdemTtl = 2
    MaxEntries = 4
    RateLimit = 3
    RateWindow = 2
    MaxClock = 1
INVARIANTS
    GovernedRunsGranted
    OneSuccessPerApproval
    ExecutedApprovalRan
PROPERTIES
    ImplementsLifecycle
    CallsAnswered
