SPECIFICATION FairSpec

CONSTANTS
  Replicas = {1, 2, 3}
  BaseLength = 1
  MaxInsert = 1
  Budgets <- Scenarios

INVARIANT TypeOK
INVARIANT Converges
INVARIANT OrderAgrees
INVARIANT OnlySeenTextDeleted
INVARIANT NoStarvation
INVARIANT StackMatchesHistory
PROPERTY Agree

CHECK_DEADLOCK FALSE
