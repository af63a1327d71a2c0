SPECIFICATION FairSpec
CONSTANTS
  Keys = {k1}
  Relays = {r1}
  Workers = {w1}
  NoWorker = NoWorker
  NoKey = NoKey
  MaxAttempts = 2
  BullAttempts = 1
  BatchSize = 1
  MaxEffects = 1
  MaxFlushes = 0
PROPERTIES
  FailedJobRunsAgain
CHECK_DEADLOCK FALSE
