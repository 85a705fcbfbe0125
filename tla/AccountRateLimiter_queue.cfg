SPECIFICATION Spec
SYMMETRY Alike
CONSTANTS
  a = a
  b = b
  i1 = i1
  i2 = i2
  s1 = s1
  s2 = s2
  Limiter = {a}
  Request = {i1, i2, s1, s2}
  Owner <- OneAccount
  Interactive = {i1, i2}
  Window = 2
  MaxBudget = 2
  Budgets = {2}
  DefaultBudget = 2
  Patience = {0, 1, 3}
  Cancellable = {i1, i2}
  RetryOffsets = {}
  DefaultSuppression = 1
  MaxSuppression = 2
  Limits = {0}
  Remainings <- NoCount
  AgingTime = 2
  AgingAdmissions = 1
  Lag = 1
  MaxTime = 3
INVARIANTS OvertakingBounded ChargedExactly NobodyStranded
PROPERTIES FairOrder QueuedDeadlineKept
