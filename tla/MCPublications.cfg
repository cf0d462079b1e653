\* Two requests at once; when all is published and sent there may be nothing left.
SPECIFICATION Spec
CONSTANTS
  r1 = r1
  r2 = r2
  e1 = e1
  e2 = e2
  Runs = {r1, r2}
  Employees = {e1, e2}
  First <- MCFirst
  Last <- MCLast
  Results <- MCResults
  Reachable = {e1}
  Channels = {"email"}
  Configured = {"email"}
  Clients = {c1, c2}
  Limit = 2
  MaxExtra = 2
  MaxDeliveries = 2
INVARIANTS TypeOK AskedForWhatTheySee DeliveredOnce SentWasDelivered
PROPERTY DeliveredInOrder
SYMMETRY Symmetric
CHECK_DEADLOCK FALSE
