SPECIFICATION Spec
CONSTANTS
  Keys = {k1}
  Relays = {r1}
  Workers = {w1}
  NoWorker = NoWorker
  NoKey = NoKey
  MaxAttempts = 2
  BullAttempts = 2
  BatchSize = 1
  MaxEffects = 2
  MaxFlushes = 0
SYMMETRY OutboxSymmetry
INVARIANTS
  EffectAtMostOnce
CHECK_DEADLOCK FALSE
