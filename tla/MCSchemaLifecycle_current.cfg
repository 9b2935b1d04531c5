SPECIFICATION SchemaSpec
CONSTANTS
  Program = {p1}
  N = 2
  Engine = {"sqlite"}
  MaxLaunches = 2
CHECK_DEADLOCK FALSE
PROPERTIES
  ServesCurrent
