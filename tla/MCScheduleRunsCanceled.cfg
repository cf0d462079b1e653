\* An approval computes the result of a canceled run, and commits the new status with it.
\* A published run with nothing queued really comes to rest.
SPECIFICATION Spec
CONSTANTS
  Runs = {r1}
  Jobs = {j1, j2}
  Workers = {w1}
  Clients = {c1}
  Results = {bare, gaps, full}
  Clean = {bare, full}
  Bare = bare
  Empty = Empty
  NoResult = NoResult
  NoRun = NoRun
  NoJob = NoJob
  Period <- MCPeriod
  MaxRecalculations = 1
  RowSecurity = FALSE
PROPERTIES CanceledIsTerminal
CHECK_DEADLOCK FALSE
