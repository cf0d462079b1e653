\* Deaths followed by restarts that go on.
SPECIFICATION FairSpec
CONSTANTS
  Jobs = {j1, j2}
  Workers = {w1}
  LeaseTicks = 2
  RecoverLimit = 1
  NoJob = NoJob
PROPERTIES RestartsServeEveryJob RestartsTakeUpAbandoned
