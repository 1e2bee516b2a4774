\* Webhooks, exports, one policy and the engine, one at a time.
SPECIFICATION Spec
CONSTANTS
  h1 = h1  h2 = h2  d1 = d1  d2 = d2  j1 = j1  x1 = x1  x2 = x2  x3 = x3  x4 = x4
  w1 = w1  w2 = w2
  Hooks = {h1, h2}
  Deliveries = {d1, d2}
  MaxAttempts = 3
  Grace = 2
  MaxSecrets = 3
  MaxTime = 2
  Jobs = {j1}
  Runs = {x1, x2, x3, x4}
  Workers = {w1, w2}
  Requests = 3
  Rules = {1, 2}
  Modes = {"deny", "allow", "warn"}
INVARIANTS TypeOK EveryPostVerifies RowsTellTheTruth ReadyHasFile EnginesAgree
PROPERTIES ServicesEnd ArchiveSticks HistoryKept
CHECK_DEADLOCK FALSE
