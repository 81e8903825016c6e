SPECIFICATION Spec
CONSTANTS
  w1 = w1
  w2 = w2
  l1 = l1
  l2 = l2
  d1 = d1
  Worker = {w1, w2}
  Alert = {l1, l2, d1}
  AlertSurvey <- MCAlertSurvey
  AlertPoints <- MCAlertPoints
  AlertDesignation <- MCDesignation
  Field = {"prv_candidates", "fp_hists"}
  Jd = {1, 2, 3}
  Legacy = {"LSST"}
  LegacyJd = {2}
  NoDesignation = NoDesignation
  NoAlert = NoAlert
  MaxTries = 1
  MaxRepairs = 1
SYMMETRY Workers
CHECK_DEADLOCK FALSE
INVARIANTS StoredIsWhole
PROPERTIES ValidStaysValid StoreSpec
