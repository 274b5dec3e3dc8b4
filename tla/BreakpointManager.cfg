\* The breakpoint manager without ptrace failures.
CONSTANTS
  Addrs <- MCAddrs
  HwTypes <- MCHwTypes
  NumSlots = 2
  MaxIds = 3
  MaxRefs = 2
  MaxFailures = 0
SPECIFICATION BpmSpec
INVARIANT TypeOK
INVARIANT UserViewIsOriginal
INVARIANT WatchHitReportsEnabledBreakpoint
PROPERTY HwInsertRefusedOnlyWhenFull
