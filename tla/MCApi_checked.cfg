CONSTANTS
  u1 = u1
  u2 = u2
  r1 = r1
  r2 = r2
  r3 = r3
  e1 = e1
  e2 = e2
  i1 = i1
  i2 = i2
  s1 = s1
  s2 = s2
  Users = {u1, u2}
  Requests = {r1, r2, r3}
  Sends <- MCSends
  Configured = {u2}
  InitialAcls <- MCAcls
  Legacy = {u1}
  AclWriteAttempts = 2
  Lease = 3
  Deadline = 0
  WriteDelay = 1
  TakeDelay = 1
  Horizon = 5
  None = None
  Handlers = {h1, h2}
  Emails = {e1, e2}
  Identities = {i1, i2}
  Attempts = {s1, s2}
  Provides <- MCProvides
  MaxVerificationAttempts = 1
  MaxCodeSends = 2
  FromBefore <- MCBefore
  SignsUp = {e1}
  Nobody = Nobody
  Machines = {"filter"}
  Skips = FALSE
  f1 = f1
  f2 = f2
  f3 = f3
  f4 = f4
  narrow = narrow
  wide = wide
  broken = broken
  few = few
  all = all
  none = none
  Editors = {f1, f2, f3, f4}
  Bodies <- MCBodies
  May = {f1, f2, f3}
  Pipelines = {narrow, wide, broken}
  Grants = {few, all, none}
  Lacking = {none}
  Broken = {broken}
  Refused <- MCRefused
  First = First
  Unposted = Unposted
  Deleted = Deleted
  Absent = Absent
SPECIFICATION ApiSpec
SYMMETRY HandlerSymmetry
CHECK_DEADLOCK FALSE
INVARIANTS ActiveIsChecked
