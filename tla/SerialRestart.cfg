SPECIFICATION FairSpec
CONSTANTS
  s1 = s1
  s2 = s2
  d1 = d1
  Shared <- MCNoShared
  Dedicated <- MCDedicated
  Faulty = {}
  MaxSend <- MCDedicatedSend
  MaxStart = 2
PROPERTY
  RestartedIsServed
CHECK_DEADLOCK FALSE
