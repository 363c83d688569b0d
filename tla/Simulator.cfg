SPECIFICATION Spec
CONSTANTS
    w1 = w1  w2 = w2
    Devices = {14}
    Workers = {w1, w2}
    Roles = {"OPERATOR", "VIEWER"}
    Operators = {"OPERATOR"}
    Patches <- MCPatches
    OnKafka = TRUE
    Lag = 1
    MaxTime = 1
    MaxChanges = 2
    MaxSnapshots = 2
    MaxCalls = 2
INVARIANTS
    DiagnosisFitsScenario
    FirstTelemetryWins
    CriticalHasIncident
CHECK_DEADLOCK FALSE
SYMMETRY AnyWorker
