SPECIFICATION LoopsSpec
CONSTANTS
    a1 = a1  a2 = a2  a3 = a3  f1 = f1  p1 = p1  p2 = p2
    o1 = o1  o2 = o2  s1 = s1  s2 = s2  m1 = m1  m2 = m2
    Slot = {s1, s2}
    MAX_RESTARTS_PER_WINDOW = 3
    RESTART_WINDOW = 6
    RESTART_BACKOFF_BASE = 1
    RESTART_BACKOFF_MAX = 3
    MaxGap = 2
    Alert = {a1, a2, a3}
    Filter = {f1}
    Program = {p1, p2}
    ProgramOf <- MCProgramOf
    CommandInterval = 3
    BatchSize = 2
    Object = {o1, o2}
    Row <- MCRow
    Sink = {m1, m2}
    MaxRows = 1
    DrainRows = 1
    MaxTroubles = 2
CHECK_DEADLOCK FALSE
INVARIANTS RestartsBounded PermissionsRespected TerminatesSoon NewestIsKept
PROPERTIES DeadIsHandled RefreshTakesEffect BacklogDrains
