SPECIFICATION Spec
CONSTANTS
  Sandbox = s
  Apps = {a}
  Execs = {}
  ExecOf <- NoExecs
  Stdio = {a}
  Waiters = {}
  GuestCodes = {3}
  ClientCalls = {}
  Faults = {"create", "timeout", "start", "stop", "agent", "virtiofsd"}
  EcCap = 1
  EventCap = 2
  WatcherCap = 2
INVARIANT StartBeforeExit
INVARIANT ExitReportsAgree
CHECK_DEADLOCK FALSE
