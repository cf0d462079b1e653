\* Two payloads, two workers, every crash point.
SPECIFICATION Spec
CONSTANTS
  Jobs = {j1, j2}
  Workers = {w1, w2}
  LeaseTicks = 2
  RecoverLimit = 1
  NoJob = NoJob
SYMMETRY Symmetry
INVARIANTS TypeOK OnePlace NoSilentLoss
PROPERTIES OnlyDeadLeasesTaken DeliversAtLeastOnce
