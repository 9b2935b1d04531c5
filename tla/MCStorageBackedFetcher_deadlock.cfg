\* One request whose save meets Close.
SPECIFICATION FairFetcherSpec
CONSTANTS
  Caller = {main, r1}
  Main = Main
  AfterFunc = AfterFunc
  Key = {"lookupId", "fetchOne", "save", "saveId"}
  Listener = {l1}
  MaxListeners = 1
  None = None
  CancelDuringOpen = FALSE
  ManualStop = FALSE
  Setup = main
  Request = {r1}
  Item = {}
  WaitListener = l1
  DBErrors = FALSE
PROPERTY
  CancelCloses
CHECK_DEADLOCK FALSE
