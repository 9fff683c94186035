SPECIFICATION Spec
CONSTANTS
  Sandbox = s
  Apps = {a}
  Execs = {}
  ExecOf <- NoExecs
  Stdio = {a}
  Waiters = {}
  GuestCodes = {3}
  ClientCalls = {"pause"}
  Faults = {}
  EcCap = 1
  EventCap = 2
  WatcherCap = 2
INVARIANT StatusMatchesSandbox
INVARIANT StoppedIsDeletable
