SPECIFICATION Spec
CONSTANTS
    a1 = a1  a2 = a2  w1 = w1  w2 = w2  e1 = e1  f1 = f1
    Alert = {a1, a2}
    NMessages = 3
    AlertAt <- MCAlertAt
    NoAlert = NoAlert
    AlertWorker = {w1, w2}
    EnrichmentWorker = {e1}
    FilterWorker = {f1}
    MaxAttempts = 2
    BatchSize = 2
    FaultKinds = {"consumer", "scheduler", "worker", "process", "reply"}
    MaxFaults = 1
SYMMETRY Symmetry
CHECK_DEADLOCK FALSE
INVARIANTS CommittedIsSafe StoredIsComplete WorkedOnIsRecoverable ProcessedOnce
