SPECIFICATION FairSpec

CONSTANTS
  claude = claude
  codex = codex
  None = None
  Tasks <- TwoTasks
  Providers <- Both
  ThreadNamed <- CodexNames
  Settings <- Swapped
  RunsKept = 1
  StartTasks <- EitherStart
  MaxTime = 1
  MaxClicks <- EitherClicks
  MaxLaunches = 2
  MaxChat = 1
  MaxLog = 0

INVARIANT TypeOK
INVARIANT OneAttemptPerTask
INVARIANT Mirrored
INVARIANT RetriedOnce
INVARIANT AttemptsAreRecorded
PROPERTY OutcomesAreFinal
PROPERTY FiresAreHandled
