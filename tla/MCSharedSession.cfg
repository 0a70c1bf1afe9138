SPECIFICATION FairSpec

CONSTANTS
  MaxOutput = 2
  MaxBytes = 2
  Scenarios <- Reconnections

INVARIANT TypeOK
INVARIANT NoGapUpstream
INVARIANT UnprocessedKept
INVARIANT LimitKept
INVARIANT ActiveHasCaughtUp
PROPERTY ImplementsBroadcast
PROPERTY CatchesUp

CHECK_DEADLOCK FALSE
