SPECIFICATION FairSpec
CONSTANTS
  Calls = {a, b, d}
  NoCall = none
  Deletes = {d}
  Cancellable = {d}
  StartMayCancel = TRUE
  MaxEvents = 1
INVARIANT DeletedBeforeReturn
PROPERTY SerialSpec
PROPERTY CallsReturn
CHECK_DEADLOCK FALSE
