SPECIFICATION FairSpec
CONSTANTS
  g = g
  s = s
  a1 = a1
  a2 = a2
  None = None
  Actor <- MCActor
  MayLink <- MCMayLink
  Configured <- MCConfigured
  TrapExit <- MCTrapExit
  FaultHandlers <- MCFaultHandlers
  LifeCycles <- MCLifeCycles
  Fragile = {a1}
  MaxSend = 2
  MaxFail = 2
  MaxOps = 2
INVARIANTS
  TypeOK
  RestartsAlone
  ReportsToItsSupervisor
PROPERTIES
  FailureLeadsToRestart
  HandlingEnds
CHECK_DEADLOCK FALSE
