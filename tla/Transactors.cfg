SPECIFICATION Spec
CONSTANTS
  a = a
  b = b
  k1 = k1
  Actor = {a, b}
  Root = a
  OwnerOf <- Owners
  Key = {k1}
  MaxAttempts = 2
  MaxChanges = 2
  MaxFailures = 1
CHECK_DEADLOCK FALSE
INVARIANTS
  TypeOK
  Durable
  NothingLost
  OnlyCommitted
