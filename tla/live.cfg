CONSTANTS
  CloseOnFailure = TRUE
  MaxMessages = 2
  ChannelSize = 1
  StreamBufferSize = 2
  MaxInFlight = 2
  MaxVersion = 2
  MaxReconnects = 1
  MaxForced = 0
  MaxOffers = 3
  MaxCandidates = 1
  QueueMax = 2
SPECIFICATION LiveSpec
CHECK_DEADLOCK FALSE
PROPERTIES WaitsEnd ClosedRoomLeavesTheMap Converges NothingIsOwed
