CONSTANTS
  Parts = {"dynacast", "sharing", "probing", "tracking", "reading"}
  Mimes = {"av1", "vp8"}
  Subscribers = {"s1", "s2"}
  Nodes = {"n1"}
  From = "av1"
  To = "vp8"
  DynCases <- DynacastCases
  MaxClusters = 3
  MaxPQ = 3
  MaxAllocs = 1
  MaxEstimates = 2
  MaxResets = 1
  Runners = {1, 2}
  TopLayer = 0
  MaxTrackers = 2
  TrackerLimits <- TrackingLimits
  RLayers = {0, 1}
  DownTracks = {"d"}
  RecvLimits <- ReceiverLimits
SPECIFICATION PartsSpec
CHECK_DEADLOCK FALSE
INVARIANTS ToldIsWanted PausedIsTold UsageFits ActiveCanEnd LayersAreTrue BuffersAreRead
