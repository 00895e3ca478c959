SPECIFICATION Spec
CONSTANTS
  t1 = t1
  t2 = t2
  t3 = t3
  t4 = t4
  t5 = t5
  v1 = v1
  v2 = v2
  x1 = x1
  x2 = x2
  None = None
  Thread = {t1, t2, t3, t4, t5}
  Var = {v1, v2}
  Value = {x1, x2}
  KindOf <- Calls
  VarOf <- On
  FromOf <- From
  ValueOf <- Values
CHECK_DEADLOCK FALSE
INVARIANTS
  TypeOK
  NoneLeftBehind
PROPERTIES
  KeepsPromise
  ReadersReturn
  Binds
