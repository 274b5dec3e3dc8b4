\* A signal that stops the thread just after an instruction carrying a breakpoint.
CONSTANTS
  Addrs <- MCAddrs
  HwTypes <- MCHwTypes
  Methods <- MCMethods
  StringLens <- MCStringLens
  InvokeShapes <- MCInvokeShapes
  PendingSignals <- MCPendingSignals
  NumSlots = 1
  MaxIds = 1
  MaxRefs = 1
  MaxFailures = 0
  NotificationAddress = 20
  StackTop = 1000
  MaxCalls = 2
  RegsSize = 68
  MaxPushes = 1
  ConcurrentBreakpoints = FALSE
  RegisterCommands = FALSE
  AbortsInnermostOnly = FALSE
SPECIFICATION Spec
PROPERTY SignalStopsNotRewound
