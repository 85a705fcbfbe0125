SPECIFICATION FairSpec
CONSTANTS
  u = u
  w = w
  d = d
  f = f
  g = g
  s = s
  r = r
  Listing = {s}
  Reservation = {}
  Selected = {s}
  Field = {f, g}
  Writer = {u, w}
  Kind = {}
  Edit = {d}
  Collections <- Collected
  MaxAttempts = 2
  MaxLives = 1
  None = None
INVARIANTS VerdictsTrue OthersPassThrough
PROPERTIES SuccessesKept OnlyRacedEditsLost EveryCallEnds
CHECK_DEADLOCK FALSE
