CONSTANTS
  t1 = t1
  t2 = t2
  p1 = p1
  p2 = p2
  None = None
  All = All
  Tracks = {t1, t2}
  Pubs = {p1, p2}
  SubTracks = {k1, k2}
  Subs = {s1, s2}
  Callers = {c1}
  Limit = 1
  QueueCap = 0
  MaxRemovers = 1
  Env = {}
  Environments = {"configured"}
  TrackOf <- TwoTracks
SPECIFICATION EnvironmentsSpec
CHECK_DEADLOCK FALSE
SYMMETRY Sym
INVARIANT LimitRespected
