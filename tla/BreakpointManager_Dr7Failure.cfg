\* One failing ptrace call in a disable leaves a disabled breakpoint armed in the inferior.
CONSTANTS
  Addrs <- MCAddrs
  HwTypes <- MCHwTypes
  NumSlots = 2
  MaxIds = 3
  MaxRefs = 2
  MaxFailures = 1
SPECIFICATION BpmSpec
INVARIANT WatchHitReportsEnabledBreakpoint
