SPECIFICATION FairSpec
CONSTANTS
  p1 = p1
  p2 = p2
  g1 = g1
  g2 = g2
  gemini = gemini
  kBlank = kBlank
  kProject = kProject
  NoRow = NoRow
  Procs = {p1}
  Accounts <- mcAccounts
  Subjects = {gemini}
  Keys = {kBlank, kProject}
  SubjectOf <- mcSubjectOf
  KeyFor <- mcKeyFor
  Pauses = {2}
  BreakerPause = 1
  Resets = {2}
  MaxTime = 2
PROPERTY
  BlockedNeedsAdminOrProbe
CHECK_DEADLOCK FALSE
