CONSTANTS
  MaxTime = 5
  MaxPackets = 3
  MaxSRs = 1
  WaitFor = 1
  NoteAfter = 1
  WriteDelay = 2
  ChanBuf = 2
  Env = {"diskFails"}
  Parts = {"audio", "long", "gaps", "simulcast", "faulty"}
SPECIFICATION PartsSpec
CHECK_DEADLOCK FALSE
INVARIANTS AudioIsTrue VideoIsWhole
