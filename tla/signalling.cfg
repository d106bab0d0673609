CONSTANTS
  CloseOnFailure = FALSE
  MaxMessages = 4
  ChannelSize = 1
  StreamBufferSize = 2
  MaxInFlight = 2
  MaxVersion = 2
  MaxReconnects = 2
  MaxForced = 1
  MaxOffers = 5
  MaxCandidates = 2
  QueueMax = 3
SPECIFICATION PartsSpec
CHECK_DEADLOCK FALSE
INVARIANTS Numbering StateMatchesPC NoCandidateLost
PROPERTY ImplementsChannel
