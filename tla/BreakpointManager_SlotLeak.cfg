\* One failing ptrace call in disable of a hardware breakpoint leaks its slot.
CONSTANTS
  Addrs <- MCAddrs
  HwTypes <- MCHwTypes
  NumSlots = 2
  MaxIds = 3
  MaxRefs = 2
  MaxFailures = 1
SPECIFICATION BpmSpec
PROPERTY HwInsertRefusedOnlyWhenFull
