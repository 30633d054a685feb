SPECIFICATION AppSpec
CONSTANTS
  c1 = c1
  c2 = c2
  r1 = r1
  r2 = r2
  Client = {c1, c2}
  NoOne = NoOne
  Request = {r1, r2}
  Saves = 2
  Sessions = 1
  Shapes <- AllShapes
INVARIANTS RegisteredCanLogIn PageShowsStore
CHECK_DEADLOCK FALSE
