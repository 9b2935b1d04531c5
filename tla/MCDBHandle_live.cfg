\* Used as the programs under cmd/ use it: the context is cancelled after Open
\* and nobody calls StopMaintenance.
SPECIFICATION FairSpec
CONSTANTS
  Caller = {c1, c2}
  Main = Main
  AfterFunc = AfterFunc
  Key = {k1}
  Listener = {l1}
  MaxListeners = 1
  None = None
  CancelDuringOpen = FALSE
  ManualStop = FALSE
PROPERTY
  CancelCloses
  CallsReturn
  CloseStopsTicker
CHECK_DEADLOCK FALSE
