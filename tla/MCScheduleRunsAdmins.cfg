\* One run, two administrators at once, and a worker bound by row-level security.
\* A published run with nothing queued really comes to rest.
SPECIFICATION Spec
CONSTANTS
  Runs = {r1}
  Jobs = {j1, j2}
  Workers = {w1}
  Clients = {c1, c2}
  Results = {bare, gaps, full}
  Clean = {bare, full}
  Bare = bare
  Empty = Empty
  NoResult = NoResult
  NoRun = NoRun
  NoJob = NoJob
  Period <- MCPeriod
  MaxRecalculations = 1
  RowSecurity = TRUE
SYMMETRY Symmetry
INVARIANTS QuietPublicationStable
CHECK_DEADLOCK FALSE
