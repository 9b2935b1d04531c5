\* Two clients, two URLs, a default TTL of one second and four half seconds, so
\* that rows expire and maintenance deletes them.
SPECIFICATION Spec
CONSTANTS
  Client = {c1, c2}
  URL = {u1, u2}
  TTL = {0}
  DefaultTTL = 1
  MaxTime = 4
  None = None
SYMMETRY Symmetry
INVARIANT
  TypeOK
  MappingHasRow
  HitIsAlias
PROPERTY
  MaintenanceKeepsFresh
  FoundUntilRemoved
CHECK_DEADLOCK FALSE
