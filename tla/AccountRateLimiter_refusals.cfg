SPECIFICATION Spec
SYMMETRY Alike
CONSTANTS
  a = a
  b = b
  i1 = i1
  i2 = i2
  s1 = s1
  s2 = s2
  Limiter = {a}
  Request = {i1, i2, s1}
  Owner <- OneAccount
  Interactive = {i1, i2}
  Window = 2
  MaxBudget = 2
  Budgets = {2}
  DefaultBudget = 2
  Patience = {1}
  Cancellable = {}
  RetryOffsets = {0, 3}
  DefaultSuppression = 1
  MaxSuppression = 2
  Limits = {0, 1}
  Remainings <- SomeCounts
  AgingTime = 1
  AgingAdmissions = 1
  Lag = 0
  MaxTime = 3
INVARIANTS TypeOK OccupancyWithinCeiling
PROPERTIES SilenceKept
