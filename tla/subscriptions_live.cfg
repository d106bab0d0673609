CONSTANTS
  t1 = t1
  t2 = t2
  p1 = p1
  p2 = p2
  None = None
  All = All
  Tracks = {t1}
  Pubs = {p1}
  SubTracks = {k1, k2}
  Subs = {s1}
  Callers = {c1}
  Limit = 0
  QueueCap = 1
  MaxRemovers = 1
  Env = {"close", "clear", "settings", "permission"}
  Environments = {"configured", "coming"}
  TrackOf <- OneTrack
SPECIFICATION FairEnvironments
CHECK_DEADLOCK FALSE
PROPERTIES DesiredIsSubscribed UndesiredIsClosed CloseClosesAll
