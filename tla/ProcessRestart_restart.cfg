SPECIFICATION RSpec
SYMMETRY Alike
CONSTANTS
  a = a
  i1 = i1
  i2 = i2
  i3 = i3
  i4 = i4
  i5 = i5
  Limiter = {a}
  Request = {i1, i2, i3, i4, i5}
  Owner <- OneAccount
  Interactive = {i1, i2, i3, i4, i5}
  Window = 2
  MaxBudget = 3
  Budgets = {2, 3}
  DefaultBudget = 3
  Patience = {2}
  Cancellable = {}
  RetryOffsets = {}
  DefaultSuppression = 1
  MaxSuppression = 2
  Limits = {0}
  Remainings <- NoCount
  AgingTime = 1
  AgingAdmissions = 1
  Lag = 0
  MaxTime = 3
  MaxRestarts = 1
INVARIANTS RestartBound
