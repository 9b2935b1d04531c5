SPECIFICATION SessionSpec
CONSTANTS
  Key = {k1, k2}
  NoKey = NoKey
  Subject = {"home", "ann"}
  NoSubject = ""
  NoToken = NoToken
  Garbage = Garbage
  Leeway = 1
  HomeLife = 2
  MaxSkew = 1
  MaxTime = 4
  MaxMade = 1
SYMMETRY Symmetry
CHECK_DEADLOCK FALSE
INVARIANTS
  HomeSessionsEnd
  MadeTokensWork
