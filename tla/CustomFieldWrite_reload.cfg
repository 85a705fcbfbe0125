SPECIFICATION Spec
CONSTANTS
  u = u
  w = w
  d = d
  f = f
  g = g
  s = s
  r = r
  Listing = {s}
  Reservation = {}
  Selected = {s}
  Field = {f, g}
  Writer = {u, w}
  Kind = {"listing", "reservation"}
  Edit = {}
  Collections <- Plain
  MaxAttempts = 1
  MaxLives = 2
  None = None
PROPERTIES NoSuccessOverwritten
CHECK_DEADLOCK FALSE
