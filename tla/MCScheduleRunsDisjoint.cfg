\* Two runs for the same week, published by two administrators at once.
\* A published run with nothing queued really comes to rest.
SPECIFICATION Spec
CONSTANTS
  Runs = {r1, r2}
  Jobs = {j1, j2}
  Workers = {w1}
  Clients = {c1, c2}
  Results = {bare, full}
  Clean = {bare, full}
  Bare = bare
  Empty = Empty
  NoResult = NoResult
  NoRun = NoRun
  NoJob = NoJob
  Period <- MCPeriod
  MaxRecalculations = 0
  RowSecurity = FALSE
SYMMETRY RunSymmetry
INVARIANTS ActivePublicationsDisjoint
CHECK_DEADLOCK FALSE
