\* Another control thread removes a software breakpoint while the trap is pending.
CONSTANTS
  Addrs <- MCAddrs
  HwTypes <- MCHwTypes
  Methods <- MCMethods
  StringLens <- MCStringLens
  InvokeShapes <- MCInvokeShapes
  PendingSignals <- MCPendingSignals
  NumSlots = 1
  MaxIds = 1
  MaxRefs = 1
  MaxFailures = 0
  NotificationAddress = 20
  StackTop = 1000
  MaxCalls = 2
  RegsSize = 68
  MaxPushes = 1
  ConcurrentBreakpoints = TRUE
  RegisterCommands = FALSE
  AbortsInnermostOnly = FALSE
SPECIFICATION Spec
PROPERTY BreakpointStopsReported
