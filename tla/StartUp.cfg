\* Four services started in any order, one of which may crash.
SPECIFICATION FairSpec
CONSTANTS
  Services = {"gateway", "fraud", "external", "microcks"}
  Peers <- MCPeers
  AttemptTimeout = 2
  Interval = 2
  MaxWait = 12
  Spread = 2
  By <- MCBy
  MayCrash = {"external", "microcks", "fraud"}
  Horizon = 40
INVARIANTS
  TypeOK NobodyGivesUp ServesInTime GivesUpLate
PROPERTIES
  EveryStartEnds
CHECK_DEADLOCK FALSE
