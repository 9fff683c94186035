SPECIFICATION FairSpec
CONSTANTS
  Sandbox = s
  Apps = {}
  Execs = {}
  ExecOf <- NoExecs
  Stdio = {s}
  Waiters = {w1}
  GuestCodes = {3}
  ClientCalls = {}
  Faults = {"agent"}
  EcCap = 1
  EventCap = 2
  WatcherCap = 2
PROPERTY WaitersCleanUp
CHECK_DEADLOCK FALSE
