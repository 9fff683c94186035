SPECIFICATION FairSpec
CONSTANTS
  Sandbox = s
  Apps = {}
  Execs = {e}
  ExecOf <- ExecInSandbox
  Stdio = {e}
  Waiters = {w1}
  GuestCodes = {3}
  ClientCalls = {}
  Faults = {}
  EcCap = 1
  EventCap = 2
  WatcherCap = 2
INVARIANT TypeOK
INVARIANT ExitCodeIsGuests
INVARIANT OneExitCode
PROPERTY ExitIsPublished
PROPERTY WaitReturns
