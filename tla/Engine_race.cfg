SPECIFICATION Spec
CONSTANTS
    h1 = h1  h2 = h2
    N = 2
    DependsOn <- MCDependsOn
    MaxRetries <- MCMaxRetries
    Retryable = {1}
    Backoff = {1}
    Compensable = {1}
    Undoable = {}
    Governed = {2}
    Branching = {1}
    Handlers = {h1, h2}
    Requests = {"execute", "resume", "retry", "cancel"}
    MaxRequests = 2
    MayDie = TRUE
VIEW LiveState
SYMMETRY AnyHandler
INVARIANTS
    DependenciesFirst
    SuccessIsReal
    StoredWasAnnounced
