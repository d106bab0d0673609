CONSTANTS
  Parts = {"registry", "closing", "leaving", "newcomer", "observer", "timely", "late"}
  Sessions = {s1, s2}
  CreateOnly = {}
  Rooms = {r1, r2}
  Admins = {a1}
  Janitor = j
  None = None
  Conns = {c1, c2}
  Tasks = {b1, b2}
  Others = {o1, o2, o3}
  Few = {o1, o2}
SPECIFICATION PartsSpec
CHECK_DEADLOCK FALSE
INVARIANTS TypeOK HoldsExact NoOneIsLeftBehind DepartureIsAnnounced ViewIsTrue
PROPERTY CleansUpItsOwn
