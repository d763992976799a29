SPECIFICATION Spec
CONSTANTS
  a1 = a1
  a2 = a2
  a3 = a3
  b1 = b1
  b2 = b2
  NoAccount = NoAccount
  Foreign = Foreign
  Accounts = {a1, a2, a3}
  Buckets = {b1, b2}
  HomeBucket <- mcHomeBucket
  Rekeyed = {a3}
  SomeAnswers <- mcAnswers
  MaxRetryAccounts = 3
INVARIANTS
  TypeOK
  OneAnswer
  NoLeaseLeftBehind
  NoReturnToSpent
  FailuresAreTold
  FailureShowsUpstream
  LogsMatchTries
