\* Two callers, two statements, two listeners and room for one of them; the
\* context may be cancelled at any time and callers may stop maintenance.
SPECIFICATION Spec
CONSTANTS
  Caller = {c1, c2}
  Main = Main
  AfterFunc = AfterFunc
  Key = {k1, k2}
  Listener = {l1, l2}
  MaxListeners = 1
  None = None
  CancelDuringOpen = TRUE
  ManualStop = TRUE
SYMMETRY Symmetry
INVARIANT
  TypeOK
  PreparedOnce
  NoStatementLeak
  SomeCallGoesOn
PROPERTY
  Promise
  CallsRunOut
CHECK_DEADLOCK FALSE
