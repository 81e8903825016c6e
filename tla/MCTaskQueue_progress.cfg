SPECIFICATION FairSpec
CONSTANTS
    r1 = r1  r2 = r2  w1 = w1  w2 = w2  w3 = w3  c1 = c1  c2 = c2  c3 = c3  k1 = k1
    Run <- MCRun
    Idempotent = {r1}
    Target = {k1}
    TargetOf <- MCTargetOf
    NoTarget = NoTarget
    Worker = {w1, w2}
    Client = {c1, c2}
    NoWorker = NoWorker
    NoRun = NoRun
    MaxDisruptions = 1
PROPERTIES EveryRunFinishes CancelTakesEffect
