\* Requests while services start, stop, crash and lose messages.
SPECIFICATION FairSpec
CONSTANTS
  Cases = {"c1", "c2"}
  Setups <- MCSetups
INVARIANTS
  TypeOK
  StopLosesNothing
  DemoTruthful
PROPERTIES
  KeepsPromise
  EveryCaseAnswered
  StopEnds
  AllServe
CHECK_DEADLOCK FALSE
