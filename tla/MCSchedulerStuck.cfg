SPECIFICATION Spec

CONSTANTS
  claude = claude
  codex = codex
  None = None
  Tasks <- OneTask
  Providers <- Both
  ThreadNamed <- CodexNames
  Settings <- Swapped
  RunsKept = 1
  StartTasks <- OneStart
  MaxTime = 1
  MaxClicks <- NoClicks
  MaxLaunches = 1
  MaxChat = 1
  MaxLog = 0

INVARIANT RunningMeansLive
