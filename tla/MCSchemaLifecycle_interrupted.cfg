\* One program after the other on mysql, any of which may be stopped.
SPECIFICATION SchemaSpec
CONSTANTS
  Program = {p1}
  N = 1
  Engine = {"mysql"}
  MaxLaunches = 3
CHECK_DEADLOCK FALSE
PROPERTIES
  UpBringsUpToDate
