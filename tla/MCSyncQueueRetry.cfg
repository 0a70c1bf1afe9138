SPECIFICATION Spec

CONSTANTS
  note = note
  shared = shared
  folder = folder
  enum = enum
  flow = flow
  pref1 = pref1
  pref2 = pref2
  Objects <- DraftObjects
  OnServer <- NoObjects
  Enums <- DraftEnums
  Requests <- DraftRequests
  Startups <- EmptyStart
  MaxItems = 4

INVARIANT OneCreationInFlight
