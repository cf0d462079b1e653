\* One run, one worker that dies finitely often; restarts go on, or do not.
\* A published run with nothing queued really comes to rest.
SPECIFICATION FairSpec
CONSTANTS
  Runs = {r1}
  Jobs = {j1, j2}
  Workers = {w1}
  Clients = {c1}
  Results = {bare, gaps}
  Clean = {bare}
  Bare = bare
  Empty = Empty
  NoResult = NoResult
  NoRun = NoRun
  NoJob = NoJob
  Period <- MCPeriod
  MaxRecalculations = 1
  RowSecurity = FALSE
PROPERTIES QueuedRunEnds
CHECK_DEADLOCK FALSE
