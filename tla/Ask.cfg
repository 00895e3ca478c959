SPECIFICATION FairSpec
CONSTANTS
  c1 = c1
  a1 = a1
  a2 = a2
  Client <- MCClient
  Actor <- MCActor
  Callee <- MCCallee
  Wrapper <- MCWrapper
  ActorKind = {"ask", "forever"}
  Orphaned = {a2}
  PoolSize = 2
  MaxRequest = 3
INVARIANTS
  TypeOK
  OwnAnswer
  HonestOutcome
PROPERTIES
  FirstCompletionWins
  Answered
CHECK_DEADLOCK FALSE
