SPECIFICATION FairSpec
CONSTANTS
  s1 = s1
  s2 = s2
  d1 = d1
  Shared <- MCShared
  Dedicated <- MCDedicated
  Faulty = {s2, d1}
  MaxSend <- MCMaxSend
  MaxStart = 1
INVARIANT
  TypeOK
PROPERTIES
  ImplementsMailboxes
  Progress
CHECK_DEADLOCK FALSE
