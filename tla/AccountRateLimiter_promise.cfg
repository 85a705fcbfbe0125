SPECIFICATION FairSpec
CONSTANTS
  a = a
  b = b
  i1 = i1
  i2 = i2
  s1 = s1
  s2 = s2
  Limiter = {a}
  Request = {i1, s1}
  Owner <- OneAccount
  Interactive = {i1}
  Window = 2
  MaxBudget = 1
  Budgets = {1}
  DefaultBudget = 1
  Patience = {2}
  Cancellable = {i1, s1}
  RetryOffsets = {1, 3}
  DefaultSuppression = 1
  MaxSuppression = 2
  Limits = {0}
  Remainings <- NoCount
  AgingTime = 1
  AgingAdmissions = 1
  Lag = 0
  MaxTime = 4
PROPERTIES KeepsPromise EveryAcquireReturns
