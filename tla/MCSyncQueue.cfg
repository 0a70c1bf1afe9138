SPECIFICATION FairSpec

CONSTANTS
  note = note
  shared = shared
  folder = folder
  enum = enum
  flow = flow
  pref1 = pref1
  pref2 = pref2
  Objects <- AllObjects
  OnServer <- AllOnServer
  Enums <- DraftEnums
  Requests <- AllRequests
  Startups <- AllStartups
  MaxItems = 4

INVARIANT TypeOK
INVARIANT SerialUpdates
INVARIANT NoLostDequeue
INVARIANT OneWriterInFlight
INVARIANT DependencyDiscipline
INVARIANT OneOutcomePerItem
INVARIANT WorkflowsNameServerIds
PROPERTY QueueDrains
