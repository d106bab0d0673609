CONSTANTS
  TrackMax = 1
  PubHandles = {1}
  HandleMod = 3
  ReconcileMax = 2
  DtLimits <- ClientLimits
SPECIFICATION DtSpec
INVARIANT WorkerGoesOn
CHECK_DEADLOCK FALSE
