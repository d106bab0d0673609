CONSTANTS
  Parts = {"publishing", "data", "dataTracks", "agents", "ingress", "egress", "binding", "settings"}
  AgWorkers = {"w1", "w2"}
  AgJobs = {1, 2}
  AgLimits <- AgentCases
  IgRooms = {"r1", "r2"}
  IgCallers = {1, 2, 3}
  IgRetries = 2
  IgLimits <- IngressCases
  EgCallers = {1, 2}
  EgLimits <- EgressCases
SPECIFICATION PartsSpec
INVARIANTS PublishingAgrees DownTracksAgree DataArrives DataTracksAgree  
CHECK_DEADLOCK FALSE
