SPECIFICATION Spec
CONSTANTS
  a = a
  b = b
  m = m
  Task = {a, b}
  Strict = {}
  Patience = {2, 3}
  MaxRetries = 1
  Delays = {1}
  ReadyDelay = 1
  Buffer = 3
  Lifetime = 5
  SeedAges = {0}
  Lag = 0
  MaxTokens = 3
  MaxTime = 4
INVARIANTS OnlyRejectedDropped
