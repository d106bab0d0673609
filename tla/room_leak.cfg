CONSTANTS
  Sessions = {s1, s2}
  CreateOnly = {}
  Rooms = {r1, r2}
  Admins = {}
  Janitor = j
  None = None
SPECIFICATION FairSpec
CHECK_DEADLOCK FALSE
PROPERTY EmptyRoomsClose
