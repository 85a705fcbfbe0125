SPECIFICATION FairSpec
CONSTANTS
  a = a
  b = b
  m = m
  Task = {a, m}
  Strict = {m}
  Patience = {4}
  MaxRetries = 1
  Delays = {1, 2}
  ReadyDelay = 1
  Buffer = 5
  Lifetime = 8
  SeedAges = {0}
  Lag = 1
  MaxTokens = 4
  MaxTime = 6
INVARIANTS TypeOK MutationOnce DeadlineKept AttemptsBounded
PROPERTIES RejectedTokenNotReused SentWithGoodToken NoneBoughtTwice LockReleased
