\* Small weeks: one or two employees' leaves, roles, pairs, shifts and stretches.
\* After a failed attempt, or with nothing to approve, nothing follows.
SPECIFICATION Spec
CONSTANTS
  Problems <- MCProblems
  NoPolicy = NoPolicy
  None = None
INVARIANTS NeverInfeasible NoLongStretch RestIsCompliant NothingLeftToFill ValidatorAgrees ApprovedAreCandidates
CHECK_DEADLOCK FALSE
