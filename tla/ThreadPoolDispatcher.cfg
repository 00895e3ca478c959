SPECIFICATION FairSpec
CONSTANTS
  Actor = {a1, a2}
  Thread = {t1}
  Selector = sel
  Capacity = 1
  Faulty = {a2}
  MaxSend = 2
  None = None
INVARIANTS
  TypeOK
  OneAtATime
  NoLostWakeup
  NothingForgotten
PROPERTIES
  ImplementsMailboxes
  Progress
CHECK_DEADLOCK FALSE
