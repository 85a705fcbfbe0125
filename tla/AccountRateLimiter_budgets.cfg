SPECIFICATION Spec
CONSTANTS
  a = a
  b = b
  i1 = i1
  i2 = i2
  s1 = s1
  s2 = s2
  Limiter = {a, b}
  Request = {i1, i2, s1}
  Owner <- TwoAccounts
  Interactive = {i1, i2}
  Window = 2
  MaxBudget = 2
  Budgets = {1, 2}
  DefaultBudget = 2
  Patience = {2}
  Cancellable = {}
  RetryOffsets = {}
  DefaultSuppression = 1
  MaxSuppression = 2
  Limits = {0}
  Remainings <- NoCount
  AgingTime = 1
  AgingAdmissions = 1
  Lag = 0
  MaxTime = 3
INVARIANTS WindowBound NoLostWakeup
PROPERTIES AdmittedWithinBudget NoZeroDelayTimer
