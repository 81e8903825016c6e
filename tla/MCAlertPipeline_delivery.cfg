SPECIFICATION FairSpec
CONSTANTS
    a1 = a1  a2 = a2  w1 = w1  w2 = w2  e1 = e1  f1 = f1
    Alert = {a1}
    NMessages = 2
    AlertAt <- TwiceTheSame
    NoAlert = NoAlert
    AlertWorker = {w1, w2}
    EnrichmentWorker = {e1}
    FilterWorker = {f1}
    MaxAttempts = 2
    BatchSize = 2
    FaultKinds = {"consumer", "scheduler"}
    MaxFaults = 2
CHECK_DEADLOCK FALSE
PROPERTIES EveryAlertStored EveryAlertFiltered
