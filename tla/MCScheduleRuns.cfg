\* One run, two workers, duplicate deliveries and crashes.
\* A published run with nothing queued really comes to rest.
SPECIFICATION Spec
CONSTANTS
  Runs = {r1}
  Jobs = {j1, j2}
  Workers = {w1, w2}
  Clients = {c1}
  Results = {bare, gaps, full}
  Clean = {bare, full}
  Bare = bare
  Empty = Empty
  NoResult = NoResult
  NoRun = NoRun
  NoJob = NoJob
  Period <- MCPeriod
  MaxRecalculations = 1
  RowSecurity = FALSE
SYMMETRY Symmetry
INVARIANTS TypeOK QueuedRunIsCovered
CHECK_DEADLOCK FALSE
