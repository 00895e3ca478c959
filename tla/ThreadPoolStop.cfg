SPECIFICATION FairSpec
CONSTANTS
  Actor = {a1, a2}
  Thread = {t1}
  Selector = sel
  Capacity = 1
  Faulty = {}
  MaxSend = 1
  None = None
PROPERTY
  StopIsLocal
CHECK_DEADLOCK FALSE
