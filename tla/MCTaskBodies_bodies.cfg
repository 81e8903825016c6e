SPECIFICATION BodiesSpec
CONSTANTS
  Bodies = {"ingest", "reprocess", "crossmatch"}
  NAttempts = 3
  RunOf <- MCRunOf
  NChunks = 2
  Batch = {b1, b2}
  None = None
  MaxActive = 2
  MaxFaults = 1
  Candid = {k1, k2}
  NTries = 2
  Enricher = {t1, t2}
  PushSize = 1
  PopSize = 1
  MaxMishaps = 1
  o1 = o1
  o2 = o2
  o3 = o3
  Object <- MCObject
  Old <- MCOld
  Near <- MCNear
  NPages = 2
  Worker = {w1, w2}
  NoField = NoField
  NoPage = NoPage
  NotYet = NotYet
  MaxRuns = 2
  MaxBreaks = 2
SYMMETRY ThreadSymmetry
CHECK_DEADLOCK FALSE
INVARIANTS RecordedIsStored CompleteIsWhole SuccessIsWhole QueueIsDiscarded  
PROPERTIES RetryKeepsItsChunks 
