SPECIFICATION Spec
CONSTANTS
    w1 = w1  w2 = w2  w3 = w3  w4 = w4
    operator = operator  admin1 = admin1  admin2 = admin2
    Workers = {w1, w2, w3}
    Tasks <- MCTasks
    Requester = operator
    Approvers = {operator, admin1, admin2}
    Nobody = Nobody
    System = System
    Deadline = 1
    MaxClock = 1
SYMMETRY AnyWorker
INVARIANTS
    RecordsExplained
    RunsGranted
