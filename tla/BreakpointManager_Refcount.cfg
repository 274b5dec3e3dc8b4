\* One failing ptrace call in the do_disable of a last remove.
CONSTANTS
  Addrs <- MCAddrs
  HwTypes <- MCHwTypes
  NumSlots = 2
  MaxIds = 3
  MaxRefs = 2
  MaxFailures = 1
SPECIFICATION BpmSpec
INVARIANT TrackedRefcountPositive
