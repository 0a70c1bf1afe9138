SPECIFICATION Spec

CONSTANTS
  MaxOutput = 1
  MaxBytes = 1
  Scenarios <- Alone

INVARIANT SharerKeepsTrying

CHECK_DEADLOCK FALSE
