\* A request and a URL of a batch, and a server that may give up on its handlers.
SPECIFICATION FairFetcherSpec
CONSTANTS
  Caller = {main, r1, b1}
  Main = Main
  AfterFunc = AfterFunc
  Key = {"lookupId", "fetchOne", "save", "saveId"}
  Listener = {l1}
  MaxListeners = 1
  None = None
  CancelDuringOpen = FALSE
  ManualStop = FALSE
  Setup = main
  Request = {r1}
  Item = {b1}
  WaitListener = l1
  DBErrors = TRUE
INVARIANT
  SavingCountsSaves
PROPERTY
  CloseEndsOrSaveBlocked
  ShutdownPromise
  BlockedForGood
CHECK_DEADLOCK FALSE
