\* The register commands of the upper layer around one injected call,
\* without ptrace failures.
CONSTANTS
  Addrs <- MCAddrs
  HwTypes <- MCHwTypes
  Methods <- MCMethods
  StringLens <- MCStringLens
  InvokeShapes <- MCInvokeShapes
  PendingSignals <- MCPendingSignals
  NumSlots = 1
  MaxIds = 1
  MaxRefs = 1
  MaxFailures = 0
  NotificationAddress = 20
  StackTop = 1000
  MaxCalls = 1
  RegsSize = 68
  MaxPushes = 1
  ConcurrentBreakpoints = FALSE
  RegisterCommands = TRUE
  AbortsInnermostOnly = FALSE
SPECIFICATION Spec
INVARIANT RegisterCacheCoherent
PROPERTY CallReturnsRestoreCaller
