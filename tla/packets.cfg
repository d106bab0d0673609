CONSTANTS
  Parts = {"dropping", "switching", "starting", "nacking", "resending", "map", "buffer"}
  MapKeys = 7
  MapSize = 2
  MapSteps = 5
SPECIFICATION PartsSpec
CHECK_DEADLOCK FALSE
INVARIANTS NumbersAreExact NacksAreAnswered StatsAreTrue Agrees
