SPECIFICATION Spec
SYMMETRY Alike
CONSTANTS
  x1 = x1
  x2 = x2
  y = y
  ours = ours
  theirs = theirs
  Entry = {x1, x2, y}
  Account = {ours, theirs}
  AccountOf <- TwoAccounts
  Options = {1, 3}
  MaxBudget = 2
  DefaultBudget = 2
  Window = 2
  Lag = 1
  MaxTime = 4
INVARIANTS TypeOK RunningEntriesPaced OneAccount NoWindfall NoHigherThanNeeded ClaimsLapse
