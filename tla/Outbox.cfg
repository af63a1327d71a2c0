SPECIFICATION LiveSpec
CONSTANTS
  Keys = {k1}
  Relays = {r1, r2}
  Workers = {w1, w2}
  NoWorker = NoWorker
  NoKey = NoKey
  MaxAttempts = 2
  BullAttempts = 2
  BatchSize = 2
  MaxEffects = 2
  MaxFlushes = 1
INVARIANTS
  RowsAccountForWork
PROPERTIES
  RedeliveryIsSkipped
  DeliverySafety
  EveryRowIsRetired
CHECK_DEADLOCK FALSE
