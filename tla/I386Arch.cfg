\* One traced thread: breakpoints, call injection and stop classification,
\* without ptrace failures, with breakpoint edits only on an idle thread, and
\* with abort_invoke issued only when a runtime-invoke is the innermost call.
CONSTANTS
  Addrs <- MCAddrs
  HwTypes <- MCHwTypes
  Methods <- MCMethods
  StringLens <- MCStringLens
  InvokeShapes <- MCInvokeShapes
  PendingSignals <- MCPendingSignals
  NumSlots = 1
  MaxIds = 1
  MaxRefs = 1
  MaxFailures = 0
  NotificationAddress = 20
  StackTop = 1000
  MaxCalls = 2
  RegsSize = 68
  MaxPushes = 1
  ConcurrentBreakpoints = FALSE
  RegisterCommands = FALSE
  AbortsInnermostOnly = TRUE
SPECIFICATION FairSpec
INVARIANT ArchTypeOK
INVARIANT RtiStackMirrorsInferior
PROPERTY CallReturnsRestoreCaller
PROPERTY BreakpointStopsReported
PROPERTY CallFramesRefined
PROPERTY TopLevelSlotFreed
