\* One failed ptrace write in push_registers, then an injected call.
CONSTANTS
  Addrs <- MCAddrs
  HwTypes <- MCHwTypes
  Methods <- MCMethods
  StringLens <- MCStringLens
  InvokeShapes <- MCInvokeShapes
  PendingSignals <- MCPendingSignals
  NumSlots = 1
  MaxIds = 1
  MaxRefs = 1
  MaxFailures = 1
  NotificationAddress = 20
  StackTop = 1000
  MaxCalls = 1
  RegsSize = 68
  MaxPushes = 1
  ConcurrentBreakpoints = FALSE
  RegisterCommands = TRUE
  AbortsInnermostOnly = FALSE
SPECIFICATION Spec
PROPERTY CallReturnsRestoreCaller
