\* A run nobody can publish any more, or whose bounds are used up, may stop.
SPECIFICATION Spec
CONSTANTS
  Plans <- MCPlans
  Clients = {c1, c2}
  None = None
  NoPolicy = NoPolicy
  MaxAttempts = 2
  MaxEdits <- MCMaxEdits
  MaxOverrides = 1
INVARIANTS TypeOK MergeKeepsUnique ShortfallShown PublishedJustified PublishedComplete
PROPERTIES LockedAssignmentsKept FreshEditsRespect
SYMMETRY Symmetric
CHECK_DEADLOCK FALSE
