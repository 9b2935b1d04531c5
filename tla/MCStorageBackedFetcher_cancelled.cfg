\* Two requests; the first one fills the statement cache.
SPECIFICATION FetcherSpec
CONSTANTS
  Caller = {main, r1, r2}
  Main = Main
  AfterFunc = AfterFunc
  Key = {"lookupId", "fetchOne", "save", "saveId"}
  Listener = {l1}
  MaxListeners = 1
  None = None
  CancelDuringOpen = FALSE
  ManualStop = FALSE
  Setup = main
  Request = {r1, r2}
  Item = {}
  WaitListener = l1
  DBErrors = FALSE
PROPERTY
  SavesComplete
CHECK_DEADLOCK FALSE
