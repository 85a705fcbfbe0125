SPECIFICATION Spec
SYMMETRY Alike
CONSTANTS
  u = u
  w = w
  d = d
  f = f
  g = g
  s = s
  r = r
  Listing = {s}
  Reservation = {r}
  Selected = {s}
  Field = {f}
  Writer = {u, w}
  Kind = {"listing", "reservation"}
  Edit = {}
  Collections <- Plain
  MaxAttempts = 1
  MaxLives = 2
  None = None
INVARIANTS VerifiedNotUndone
CHECK_DEADLOCK FALSE
