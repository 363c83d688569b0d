SPECIFICATION FairSpec
CONSTANTS
    h1 = h1  h2 = h2
    N = 2
    DependsOn <- MCDependsOn
    MaxRetries <- MCMaxRetries
    Retryable = {1}
    Backoff = {1}
    Compensable = {1}
    Undoable = {1}
    Governed = {2}
    Branching = {}
    Handlers = {h1}
    Requests = {"execute", "resume", "cancel"}
    MaxRequests = 3
    MayDie = TRUE
INVARIANTS
    CompletedNotRestarted
    EffectsCounted
PROPERTIES
    RequestsEnd
