SPECIFICATION Spec
CONSTANTS
  g = g
  s = s
  a1 = a1
  a2 = a2
  None = None
  Actor <- MCActor
  MayLink <- MCMayLink
  Configured <- MCConfigured
  TrapExit <- MCTrapExit
  FaultHandlers <- MCFaultHandlers
  LifeCycles <- MCLifeCycles
  Fragile = {}
  MaxSend = 1
  MaxFail = 0
  MaxOps = 1
INVARIANT
  OneSupervisor
CHECK_DEADLOCK FALSE
