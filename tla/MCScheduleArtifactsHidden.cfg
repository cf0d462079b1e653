\* One administrator.
SPECIFICATION Spec
CONSTANTS
  Plans <- MCPlans
  Clients = {c1}
  None = None
  NoPolicy = NoPolicy
  MaxAttempts = 2
  MaxEdits <- MCMaxEdits
  MaxOverrides = 1
INVARIANT ShortfallsShown
CHECK_DEADLOCK FALSE
