SPECIFICATION Spec
CONSTANTS
    h1 = h1  h2 = h2  d1 = d1  d2 = d2  c1 = c1  c2 = c2
    NoOne = NoOne
    Handlers = {h1, h2}
    Drainers = {d1, d2}
    Contents = {c1, c2}
    Limit = 2
    Budgets <- MCBudgets
INVARIANTS
    DuplicateExplained
    OvertakenFailedFirst
    TornExplained
    OverwriteExplained
    NoCircularWait
CHECK_DEADLOCK FALSE
SYMMETRY Anyone
