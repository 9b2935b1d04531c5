SPECIFICATION APIFairSpec
CONSTANTS
  k1 = k1
  u1 = u1
  u2 = u2
  d1 = d1
  t1 = t1
  t2 = t2
  Key = {k1}
  NoKey = NoKey
  Subject = {"home"}
  NoSubject = ""
  NoToken = NoToken
  Garbage = Garbage
  Leeway = 1
  Request = {r1, r2}
  Config <- MCConfig
  Url = {u1, u2}
  NoUrl = NoUrl
  NoPage = NoPage
  Earlier = Earlier
  Stored <- MCStored
  Outcome = {"ok", "http", "network"}
  Lists <- MCLists
  Domain = {d1}
  Text = {t1, t2}
  NoText = NoText
  NoRow = NoRow
  MaxBatch = 1
  DefaultBatch = 1
  MaxOffset = 2
  Body <- MCBody
  Written <- MCWritten
CHECK_DEADLOCK FALSE
INVARIANTS
  APITypeOK
  NothingWithoutToken
  AnswersAreWhole
  OnlyGoodPagesStored
  DeletedUntilFetched
  FailuresAreTold
PROPERTIES
  GetsLatest
  RequestsEnd
  RequestStepsRunOut
