SPECIFICATION Spec
CONSTANTS
  h1 = h1
  h2 = h2
  s1 = s1
  s2 = s2
  a1 = a1

  Cells = {"c1", "c2"}
  Subjects = {s1, s2}
  Handlers = {h1, h2}
  OAuthSessions = {"x1"}
  AcctProvider <- mcProvider
  MaxCellNow = 1
  MaxEdits = 1
  MaxHandled = 2
  SessionTTL = 1

  LocalCells = {"c1", "c2"}
  RepairRetries = 2
  MaxWatchRuns = 1

  Reqs = {h1, h2}
  WindowPairs <- mcWindows
  MaxQNow = 2
  MaxAnswers = 2

  Chats = {h1, h2, a1}
  Keys = {"u"}
  KeyOf <- mcKeyOf
  MaxPerMinute = 1
  MaxConcurrent = 1
  Minute = 1
  CatalogDrivers = {"claude", "gemini"}
  ChatRequests <- mcRequests
  Answer <- mcAnswer
  MaxCompatNow = 3
SYMMETRY Symmetry
INVARIANTS
  TypesOK
  SharedOnlyByRace
  LoginKeepsRefreshToken
  EveryTargetProbed
  ReadingsKept
  ExhaustedUntilServable
  LimitsHold
  ChatFaithful
CHECK_DEADLOCK FALSE
